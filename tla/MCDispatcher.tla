---------------------------- MODULE MCDispatcher ----------------------------
(***************************************************************************)
(* Instances of Dispatcher for TLC.                                        *)
(***************************************************************************)
EXTENDS Dispatcher, TLC

MCLower == "SEC-1" :> "sec-1" @@ "sec-1" :> "sec-1" @@ "SEC-2" :> "sec-2"
MCPadded == "v" :> " v " @@ "w" :> " w "

\* A complete ticket.
Good == [json |-> "object", issue |-> "object", key |-> "SEC-1",
         status |-> TriggerStatus, fields |-> [f \in Fields |-> "v"]]

\* What of a body differs from it.
Differences(b) == {c \in DOMAIN Good \ {"fields"} : b[c] # Good[c]}
                    \cup {f \in Fields : b.fields[f] # "v"}

\* Bodies with one difference, and those with two fields that are refused
\* for whatever two reasons.
MCBodies ==
    {b \in Bodies :
       \/ Cardinality(Differences(b)) <= 1
       \/ /\ Cardinality(Differences(b)) = 2
          /\ \A c \in Differences(b) :
               c \in Fields /\ b.fields[c] \in {"absent", "number", "blank"}}

\* Each of these bodies, and for the complete ticket every way to be turned
\* away before it is looked at.
MCDeliveries ==
    [provider : {"jsm"}, read : {"whole"}, verified : {TRUE}, body : MCBodies,
     requestID : {"a"}, traceID : {"a"}]
      \cup [provider : {"jsm", "unknown"}, read : {"whole", "too large", "broken off"},
            verified : BOOLEAN, body : {Good}, requestID : Ids, traceID : {"a"}]

Symmetry == Permutations(Requests)

=============================================================================
