-------------------------------- MODULE PinSet --------------------------------
(***************************************************************************)
(* What the Pins trait of s5_core promises its callers: a set of pin       *)
(* contexts per blob, changed by atomic operations.  A task calls an       *)
(* operation, which takes effect at one instant before it answers.         *)
(***************************************************************************)
CONSTANTS
    Blob,      \* blob hashes
    Context,   \* PinContext values
    Task,      \* concurrent callers
    None       \* no operation, no answer

VARIABLES
    pins,   \* the contexts that pin each blob
    req,    \* the operation each task has called
    ret     \* the answer to its last one

vars == <<pins, req, ret>>

Op == [kind : {"pin_hash", "unpin_hash", "unpin_hash_all", "get_pinners"},
       blob : Blob, context : Context]

\* Ok(()), Ok(orphaned), Ok(set of pinners), Err
Answer == [ok : {"unit"}] \cup [orphaned : BOOLEAN]
              \cup [pinners : SUBSET Context] \cup [err : {"registry"}]

Ok == [ok |-> "unit"]
Err == [err |-> "registry"]

\* The pin set of op's blob after op.
Effect(op, s) ==
    CASE op.kind = "pin_hash"       -> s \cup {op.context}
      [] op.kind = "unpin_hash"     -> s \ {op.context}
      [] op.kind = "unpin_hash_all" -> {}
      [] op.kind = "get_pinners"    -> s

\* unpin_hash "returns true if the blob is now orphaned (no more pinners)".
Reply(op, s) ==
    CASE op.kind = "unpin_hash"  -> [orphaned |-> Effect(op, s) = {}]
      [] op.kind = "get_pinners" -> [pinners |-> s]
      [] OTHER                   -> Ok

Init ==
    /\ pins = [b \in Blob |-> {}]
    /\ req = [t \in Task |-> None]
    /\ ret = [t \in Task |-> None]

Call(t, op) ==
    /\ req[t] = None
    /\ req' = [req EXCEPT ![t] = op]
    /\ ret' = [ret EXCEPT ![t] = None]
    /\ UNCHANGED pins

\* The operation takes effect and answers.
Perform(t) ==
    /\ req[t] # None
    /\ pins' = [pins EXCEPT ![req[t].blob] = Effect(req[t], @)]
    /\ ret' = [ret EXCEPT ![t] = Reply(req[t], pins[req[t].blob])]
    /\ req' = [req EXCEPT ![t] = None]

\* The registry fails; whether the change was made is not known.
Fail(t) ==
    /\ req[t] # None
    /\ pins' \in {pins, [pins EXCEPT ![req[t].blob] = Effect(req[t], @)]}
    /\ ret' = [ret EXCEPT ![t] = Err]
    /\ req' = [req EXCEPT ![t] = None]

Next ==
    \E t \in Task :
        \/ \E op \in Op : Call(t, op)
        \/ Perform(t)
        \/ Fail(t)

Spec == Init /\ [][Next]_vars
=============================================================================
