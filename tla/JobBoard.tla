------------------------------ MODULE JobBoard ------------------------------
(***************************************************************************)
(* What the marketplace promises about its jobs, with no network, no pages *)
(* and no stale lists: a job is posted once, is taken from the board once, *)
(* by one provider, or withdrawn; a dispatcher may hand any job to any     *)
(* provider at any time; a job somebody holds never returns to the board.  *)
(***************************************************************************)
CONSTANTS Booking, Provider, NoProvider

VARIABLES phase,    \* phase[b]: where the job is
          holder,   \* holder[b]: who holds it
          winners   \* winners[b]: who took it from the board, if anybody did

boardVars == <<phase, holder, winners>>

Phase == {"none", "open", "held", "withdrawn"}

BoardInit ==
    /\ phase = [b \in Booking |-> "none"]
    /\ holder = [b \in Booking |-> NoProvider]
    /\ winners = [b \in Booking |-> {}]

Post(b) ==
    /\ phase[b] = "none"
    /\ phase' = [phase EXCEPT ![b] = "open"]
    /\ UNCHANGED <<holder, winners>>

Take(b, p) ==
    /\ phase[b] = "open"
    /\ phase' = [phase EXCEPT ![b] = "held"]
    /\ holder' = [holder EXCEPT ![b] = p]
    /\ winners' = [winners EXCEPT ![b] = {p}]

Withdraw(b) ==
    /\ phase[b] = "open"
    /\ phase' = [phase EXCEPT ![b] = "withdrawn"]
    /\ UNCHANGED <<holder, winners>>

Dispatch(b, p) ==
    /\ phase[b] # "none"
    /\ phase' = [phase EXCEPT ![b] = "held"]
    /\ holder' = [holder EXCEPT ![b] = p]
    /\ UNCHANGED winners

BoardNext ==
    \E b \in Booking :
        \/ Post(b) \/ Withdraw(b)
        \/ \E p \in Provider : Take(b, p) \/ Dispatch(b, p)

BoardSpec == BoardInit /\ [][BoardNext]_boardVars
=============================================================================
