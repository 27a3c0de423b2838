------------------------------ MODULE TrustGate ------------------------------
(***************************************************************************)
(* What gateway trust publication promises its users, with no slots,       *)
(* generations, registry or pool: there is a set of trusted roots, every   *)
(* transport a request may use was authenticated by one of them, and a     *)
(* root leaves the set only while admission is closed and only once no     *)
(* usable transport depends on it.                                         *)
(***************************************************************************)
CONSTANTS Roots, Conns, NoRoot

VARIABLES
  admitting,  \* whether new gateway-to-mesh requests are admitted
  trusted,    \* the roots peers may have been authenticated by
  peer        \* for each usable transport the root that authenticated it

gateVars == <<admitting, trusted, peer>>

Init ==
  /\ admitting = TRUE
  /\ trusted \in SUBSET Roots
  /\ peer = [c \in Conns |-> NoRoot]

Authenticate(c) ==
  /\ peer[c] = NoRoot
  /\ \E r \in trusted : peer' = [peer EXCEPT ![c] = r]
  /\ UNCHANGED <<admitting, trusted>>

Drop(c) ==
  /\ peer' = [peer EXCEPT ![c] = NoRoot]
  /\ UNCHANGED <<admitting, trusted>>

Fence ==
  /\ admitting' = FALSE
  /\ UNCHANGED <<trusted, peer>>

Lift ==
  /\ admitting' = TRUE
  /\ UNCHANGED <<trusted, peer>>

Extend ==
  /\ trusted \subseteq trusted'
  /\ trusted' \subseteq Roots
  /\ UNCHANGED <<admitting, peer>>

Withdraw ==
  /\ ~admitting
  /\ trusted' \subseteq trusted
  /\ \A c \in Conns : peer[c] # NoRoot => peer[c] \in trusted'
  /\ UNCHANGED <<admitting, peer>>

Next ==
  \/ \E c \in Conns : Authenticate(c) \/ Drop(c)
  \/ Fence \/ Lift \/ Extend \/ Withdraw

Spec == Init /\ [][Next]_gateVars
=============================================================================
