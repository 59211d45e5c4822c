------------------------------- MODULE EnvStore -------------------------------
(* What the key-value store of efd_kv.c promises its callers: a call that     *)
(* returns success took effect, once and at one instant; a call that reports  *)
(* "full" or "missing" had none; a reset falls before or after that instant.  *)

CONSTANTS Key, Value, NoValue, DefaultKey, DefaultValue

VARIABLES store,    \* the value of each key, NoValue if it is not on file
          call,     \* the call in progress: kind, key and value
          taken,    \* it has taken effect
          result    \* what the last call returned

vars == <<store, call, taken, result>>

NoCall == [kind |-> "none"]

Calls == [kind : {"set"}, key : Key, val : Value]
           \cup [kind : {"delete"}, key : Key]

Begin == /\ call = NoCall
         /\ call' \in Calls
         /\ taken' = FALSE
         /\ UNCHANGED <<store, result>>

TakeEffect ==
  /\ call # NoCall /\ ~taken
  /\ taken' = TRUE
  /\ store' = [store EXCEPT ![call.key] =
                 IF call.kind = "set" THEN call.val ELSE NoValue]
  /\ UNCHANGED <<call, result>>

Return ==
  /\ call # NoCall
  /\ \/ result' = "ok" /\ taken
     \/ result' = "full" /\ call.kind = "set" /\ ~taken
     \/ result' = "missing" /\ call.kind = "delete"
                            /\ store[call.key] = NoValue
  /\ call' = NoCall
  /\ taken' = FALSE
  /\ UNCHANGED store

Reset == /\ call' = NoCall
         /\ taken' = FALSE
         /\ UNCHANGED <<store, result>>

\* The first start fills an empty store.
Defaults == /\ call = NoCall
            /\ \A k \in Key : store[k] = NoValue
            /\ store' = [store EXCEPT ![DefaultKey] = DefaultValue]
            /\ UNCHANGED <<call, taken, result>>

Init == /\ store = [k \in Key |-> NoValue]
        /\ call = NoCall
        /\ taken = FALSE
        /\ result = "ok"

Next == Begin \/ TakeEffect \/ Return \/ Reset \/ Defaults

Spec == Init /\ [][Next]_vars
=============================================================================
