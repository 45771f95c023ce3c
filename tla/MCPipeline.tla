----------------------------- MODULE MCPipeline -----------------------------
(* A codec, a protocol handler and an error handler for the run of Pipeline. *)
EXTENDS Pipeline

CONSTANTS codec, protocol, errors

MCCaps == [n \in Nodes |->
             CASE n = HeadNode -> {"write"}
               [] n = TailNode -> {"exception"}
               [] n = codec    -> {"read", "write"}
               [] n = protocol -> {"active", "read", "inactive"}
               [] n = errors   -> {"exception", "write"}]

MCCalls == {<<a>> : a \in Handlers}
             \cup {s \in Handlers \X Handlers : s[1] # s[2]}
=============================================================================
