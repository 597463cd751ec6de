------------------------- MODULE IdempotentCommands -------------------------
(***************************************************************************)
(* What a request key of the integration mesh promises its callers: the    *)
(* key is bound once, to one command; the command is sent at most once,    *)
(* and spends single-use evidence nobody else has spent; every result      *)
(* returned for the key is the one the provider gave to that sending.      *)
(***************************************************************************)
EXTENDS Naturals

CONSTANTS Keys, Subjects, EvidenceOf, Results, None

VARIABLES
  bound,    \* key -> the subject it is bound to, or None
  sent,     \* keys whose command was sent
  spent,    \* single-use evidence used up by a sending
  result,   \* key -> what the provider answered, or None
  returned  \* [key, subject, result] returned to callers

vars == <<bound, sent, spent, result, returned>>

Init ==
  /\ bound = [k \in Keys |-> None]
  /\ sent = {}
  /\ spent = {}
  /\ result = [k \in Keys |-> None]
  /\ returned = {}

Bind(k, s) ==
  /\ bound[k] = None
  /\ bound' = [bound EXCEPT ![k] = s]
  /\ UNCHANGED <<sent, spent, result, returned>>

\* With evidence of its own; the provider may keep its answer to itself.
Send(k, evidence, r) ==
  /\ bound[k] # None /\ k \notin sent
  /\ evidence \subseteq EvidenceOf[bound[k]]
  /\ evidence = {} => EvidenceOf[bound[k]] = {}
  /\ evidence \cap spent = {}
  /\ sent' = sent \union {k}
  /\ spent' = spent \union evidence
  /\ result' = [result EXCEPT ![k] = r]
  /\ UNCHANGED <<bound, returned>>

Return(k) ==
  /\ result[k] # None
  /\ returned' = returned \union {[key |-> k, subject |-> bound[k], result |-> result[k]]}
  /\ UNCHANGED <<bound, sent, spent, result>>

Next ==
  \E k \in Keys :
    \/ \E s \in Subjects : Bind(k, s)
    \/ \E evidence \in SUBSET UNION {EvidenceOf[s] : s \in Subjects},
          r \in Results \union {None} : Send(k, evidence, r)
    \/ Return(k)

Spec == Init /\ [][Next]_vars
=============================================================================
