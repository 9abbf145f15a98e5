---------------------------- MODULE ObjectStore ----------------------------
(***************************************************************************)
(* What a storage driver promises its callers, whatever the provider: a    *)
(* map from keys to objects, changed only by the effects of calls somebody *)
(* made, each effect at most once and in order, with an answer that says   *)
(* what happened:                                                          *)
(*   - "ok": every effect of the call has happened;                        *)
(*   - an error: any prefix of the effects has happened, and the next one  *)
(*     may still happen later (the answer was lost, the request was not).  *)
(* The class of an error tells no more: "conflict" is what any rejection   *)
(* with status 409 or 412 becomes (normalizeError), also one that comes    *)
(* after the write, from a retried request, a second request or a hook.    *)
(* A move promises no atomicity, only that the copy precedes the removal.  *)
(***************************************************************************)
EXTENDS StorageRequests, Naturals

CONSTANT Callers

VARIABLES
    store,      \* key -> object, or None
    asked,      \* caller -> the call in progress
    done,       \* caller -> how many effects of that call have happened
    answer,     \* caller -> how the call ended, or "none"
    late        \* effects of failed calls that may still happen

vars == <<store, asked, done, answer, late>>

\* A StorageConflictError, or any other error.
Errors == {"conflict", "failed"}


Init ==
    /\ store \in [Keys -> MaybeBody]
    /\ asked = [c \in Callers |-> NoRequest]
    /\ done = [c \in Callers |-> 0]
    /\ answer = [c \in Callers |-> "none"]
    /\ late = {}

Running(c) == asked[c] # NoRequest /\ answer[c] = "none"

Ask(c) ==
    /\ asked[c] = NoRequest
    /\ \E r \in Requests : asked' = [asked EXCEPT ![c] = r]
    /\ UNCHANGED <<store, done, answer, late>>

\* A call that is rejected before anything is asked of the provider.
Refuse(c) ==
    /\ asked[c] = NoRequest
    /\ \E r \in Requests : asked' = [asked EXCEPT ![c] = r]
    /\ \E a \in Errors : answer' = [answer EXCEPT ![c] = a]
    /\ UNCHANGED <<store, done, late>>

\* The next effect of a call happens, and the call goes on.
Perform(c) ==
    /\ Running(c)
    /\ done[c] < EffectCount(asked[c])
    /\ LET e == EffectOf(asked[c], done[c] + 1)
       IN  Possible(store, e) /\ store' = After(store, e)
    /\ done' = [done EXCEPT ![c] = @ + 1]
    /\ UNCHANGED <<asked, answer, late>>

\* The call's last effect happens and the call is answered "ok" for it.
Complete(c) ==
    /\ Running(c)
    /\ done[c] + 1 = EffectCount(asked[c])
    /\ LET e == EffectOf(asked[c], done[c] + 1)
       IN  Possible(store, e) /\ store' = After(store, e)
    /\ done' = [done EXCEPT ![c] = @ + 1]
    /\ answer' = [answer EXCEPT ![c] = "ok"]
    /\ UNCHANGED <<asked, late>>

AnswerOk(c) ==
    /\ Running(c)
    /\ done[c] = EffectCount(asked[c])
    /\ answer' = [answer EXCEPT ![c] = "ok"]
    /\ UNCHANGED <<store, asked, done, late>>

AnswerError(c) ==
    /\ Running(c)
    /\ \E a \in Errors : answer' = [answer EXCEPT ![c] = a]
    /\ \/ late' = late
       \/ /\ done[c] < EffectCount(asked[c])
          /\ late' = late \cup {EffectOf(asked[c], done[c] + 1)}
    /\ UNCHANGED <<store, asked, done>>

Leave(c) ==
    /\ answer[c] # "none"
    /\ asked' = [asked EXCEPT ![c] = NoRequest]
    /\ done' = [done EXCEPT ![c] = 0]
    /\ answer' = [answer EXCEPT ![c] = "none"]
    /\ UNCHANGED <<store, late>>

\* A left-over effect happens after all, or never will.
Late(e) ==
    /\ late' = late \ {e}
    /\ store' \in {store} \cup {After(store, e) : x \in {y \in {e} : Possible(store, y)}}
    /\ UNCHANGED <<asked, done, answer>>

Next ==
    \/ \E c \in Callers :
          \/ Ask(c) \/ Refuse(c) \/ Perform(c) \/ Complete(c)
          \/ AnswerOk(c) \/ AnswerError(c) \/ Leave(c)
    \/ \E e \in late : Late(e)

Spec == Init /\ [][Next]_vars
=============================================================================
