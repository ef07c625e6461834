------------------------------- MODULE Notify -------------------------------
(***************************************************************************)
(* DispatchNotify, the one-shot callback of a DispatchWorkItem or of a     *)
(* DispatchGroup.  state_ guards next_: whoever moves it to "notifying"    *)
(* owns next_ until it moves it on.                                        *)
(*                                                                         *)
(* Group and WorkItem extend this module with the calls they make.         *)
(***************************************************************************)
EXTENDS ThreadSet, Naturals

CONSTANTS Callbacks,   \* callbacks passed to notify(), each at most once
          NoCallback   \* no callback

ASSUME NotifyAssumption == NoCallback \notin Callbacks

VARIABLES
  state,       \* state_
  next,        \* next_
  npc,         \* where a thread is inside DispatchNotify, "out" if it is not
  arg,         \* the callback a thread is setting
  posted,      \* callbacks passed to queue->async() and not yet begun
  calling,     \* the callback a thread executes
  registered,  \* auxiliary: callbacks that notify() accepted
  called,      \* auxiliary: callbacks that have begun
  dropped      \* auxiliary: callbacks that were cancelled or had nowhere to run

notifyVars == <<state, next, npc, arg, posted, calling, registered, called, dropped>>

NotifyInit == /\ state = "none"
              /\ next = NoCallback
              /\ npc = [t \in Threads |-> "out"]
              /\ arg = [t \in Threads |-> NoCallback]
              /\ posted = {}
              /\ calling = [t \in Threads |-> NoCallback]
              /\ registered = {} /\ called = {} /\ dropped = {}

At(t, from, to) == npc[t] = from /\ npc' = [npc EXCEPT ![t] = to]
-----------------------------------------------------------------------------
(* Mistakes a change of the code could make.  They are no part of the      *)
(* specification: each takes the place of the definition it resembles to   *)
(* see that a property notices.                                            *)

\* Win() with an exchange that does not compare
WinUnchecked(t, to) ==
  /\ At(t, "out", to)
  /\ state' = "notifying"
  /\ UNCHANGED <<next, arg, posted, calling, registered, called, dropped>>

\* Post() that copies next_ instead of moving it
PostCopy(t) == /\ At(t, "post", "reset")
               /\ posted' = posted \cup {next}
               /\ UNCHANGED <<state, next, arg, calling, registered, called, dropped>>
-----------------------------------------------------------------------------
(* notify(): checkAndSetNotify() claims next_, or throws and changes       *)
(* nothing; then next_ is written and published.                           *)

Claim(t, f) == /\ At(t, "out", "fill")
               /\ f \in Callbacks \ registered
               /\ state = "none"
               /\ state' = "notifying"
               /\ arg' = [arg EXCEPT ![t] = f]
               /\ registered' = registered \cup {f}
               /\ UNCHANGED <<next, posted, calling, called, dropped>>

Fill(t) == /\ At(t, "fill", "publish")
           /\ next' = arg[t]
           /\ arg' = [arg EXCEPT ![t] = NoCallback]
           /\ UNCHANGED <<state, posted, calling, registered, called, dropped>>

Publish(t) == /\ At(t, "publish", "out")
              /\ state' = "notified"
              /\ UNCHANGED <<next, arg, posted, calling, registered, called, dropped>>
-----------------------------------------------------------------------------
(* doNotify() and cancel(): the thread that wins the compare-exchange      *)
(* posts or drops the callback and only then frees state_.                 *)

Win(t, to) == /\ At(t, "out", to)
              /\ state = "notified"
              /\ state' = "notifying"
              /\ UNCHANGED <<next, arg, posted, calling, registered, called, dropped>>

\* Without the queue, or the work item that is the callback, there is nothing to post.
Post(t) == /\ At(t, "post", "reset")
           /\ \/ posted' = posted \cup {next} /\ UNCHANGED dropped
              \/ dropped' = dropped \cup {next} /\ UNCHANGED posted
           /\ next' = NoCallback
           /\ UNCHANGED <<state, arg, calling, registered, called>>

Drop(t) == /\ At(t, "drop", "reset")
           /\ dropped' = dropped \cup {next}
           /\ next' = NoCallback
           /\ UNCHANGED <<state, arg, posted, calling, registered, called>>

Reset(t) == /\ At(t, "reset", "out")
            /\ state' = "none"
            /\ UNCHANGED <<next, arg, posted, calling, registered, called, dropped>>

\* A worker of the queue executes a posted callback.
BeginCallback(t) == /\ npc[t] = "out" /\ calling[t] = NoCallback
                    /\ \E f \in posted : /\ calling' = [calling EXCEPT ![t] = f]
                                         /\ posted' = posted \ {f}
                                         /\ called' = called \cup {f}
                    /\ UNCHANGED <<state, next, npc, arg, registered, dropped>>

EndCallback(t) == /\ npc[t] = "out" /\ calling[t] # NoCallback
                  /\ calling' = [calling EXCEPT ![t] = NoCallback]
                  /\ UNCHANGED <<state, next, npc, arg, posted, registered, called, dropped>>
-----------------------------------------------------------------------------
(* Properties                                                              *)

NotifyTypeOK == /\ state \in {"none", "notifying", "notified"}
                /\ next \in Callbacks \cup {NoCallback}
                /\ npc \in [Threads -> {"out", "fill", "publish", "post", "drop", "reset"}]
                /\ arg \in [Threads -> Callbacks \cup {NoCallback}]
                /\ posted \subseteq Callbacks
                /\ calling \in [Threads -> Callbacks \cup {NoCallback}]
                /\ registered \subseteq Callbacks
                /\ called \subseteq Callbacks
                /\ dropped \subseteq Callbacks

\* next_ and the queue reference are plain fields: exactly one thread is at work on
\* them while state_ is "notifying", none otherwise, and a published one is set.
NextExclusive ==
  /\ \A t, u \in Threads : npc[t] # "out" /\ npc[u] # "out" => t = u
  /\ (state = "notifying") = (\E t \in Threads : npc[t] # "out")
  /\ state = "notified" => next # NoCallback

\* Each accepted callback is in exactly one place until it is called or cancelled:
\* it is never lost, never posted twice, and never both cancelled and called.
CallbackOnce ==
  /\ registered \ (called \cup dropped)
       = ({arg[t] : t \in Threads} \cup {next} \cup posted) \ {NoCallback}
  /\ next \notin posted
  /\ \A t \in Threads : calling[t] # NoCallback => calling[t] \in called \ dropped
=============================================================================
