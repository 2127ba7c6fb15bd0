------------------------- MODULE MCControlProtocol -------------------------
(***************************************************************************)
(* A small instance of ControlProtocol for TLC.  Identifiers are 1, 4, 7.. *)
(* with int32 values from -4 to 3 and uint64 values from 0 to 15, so that  *)
(* the second task no longer fits the wire.  Every payload of a create     *)
(* request has at most one bad field.                                      *)
(***************************************************************************)
EXTENDS ControlProtocol

CONSTANTS c1, c2

Uid == [n \in Incarnations |-> 1]
NoOrigin == [j \in {} |-> j]

Texts == {EmptyText, Word("job"), Word("resources"), Word("status"), Word("result"),
          Word("cancel_reason"), Word("num_pending_jobs"), Word("Q20"), Number(1),
          Number(16)}
MCRegistry == {Word("Q20")}

Firsts == {EmptyText, Word("job"), Word("resources"), Word("Q20")}
Cores == {<<>>} \cup {<<a>> : a \in Texts} \cup {<<a, b>> : a, b \in Texts}
           \cup {<<a, b, c>> : a \in Firsts, b, c \in Texts}
           \cup {<<Word("resources"), Word("Q20"), Word("num_pending_jobs"), a>> : a \in Texts}
MCPaths == {<<EmptyText>> \o core : core \in {c \in Cores : Len(c) < 3}}
             \cup {<<EmptyText, EmptyText>> \o core \o <<EmptyText, EmptyText>> : core \in Cores}

Valid == [key \in DataKeys |-> "valid"]
MCRestData == {Valid} \cup {[Valid EXCEPT ![key] = bad] :
                             key \in DataKeys, bad \in {"absent", "wrong kind"}}
                \cup {[Valid EXCEPT !["shots"] = bad] :
                        bad \in {"fractional", "out of range", "negative"}}

Methods == {"GET", "POST"}
MCRestRequests ==
  [case : {"not_set"}, method : Methods, path : MCPaths, data : {Valid}]
    \cup [case : {"not_set"}, method : Methods, path : {<<EmptyText, Word("job")>>},
          data : MCRestData]
MCQueryIds == {-4, 1}
=============================================================================
