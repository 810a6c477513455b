------------------------------ MODULE MCTools ------------------------------
(* One own tool, one of the person's, and servers that read, may act on a  *)
(* yes, or list what they should not be asked for.                         *)
EXTENDS Tools
MCServers == {"search", "google"}
MCOffers    == [search |-> {"look"}, google |-> {"mail", "send", "delete"}]
MCAllowList == [search |-> {}, google |-> {}]
MCDeny      == [search |-> {}, google |-> {}]
MCPropose   == [search |-> {}, google |-> {"send"}]
MCRequired  == [search |-> {}, google |-> {"send"}]
MCMutating  == {"send", "delete"}
============================================================================
