----------------------------- MODULE Dispatcher -----------------------------
(***************************************************************************)
(* MessageDispatcher of the C++ library, with callbacks that use the       *)
(* dispatcher themselves: they may unpack another message, add callbacks,  *)
(* or throw.  One thread.                                                  *)
(*                                                                         *)
(* A type has a vector of callbacks.  Unpack walks it between the          *)
(* iterators it took at the start; they die, and so do the functions they  *)
(* point to, when the vector moves to a larger allocation.  What happens   *)
(* after a dead function was used is not defined, and the model stops.     *)
(***************************************************************************)
EXTENDS Naturals, Sequences, SequencesExt

CONSTANTS
  Msg,          \* message types
  Callback,     \* functions
  MaxAdded,     \* bound: callbacks added
  MaxDepth      \* bound: calls of Unpack inside one another

ASSUME DispatcherAssumption ==
  /\ Msg # {} /\ Callback # {}
  /\ MaxAdded \in Nat /\ MaxDepth \in Nat

VARIABLES
  callbacks,    \* callbacks[t]: the vector for messages of type t
  capacity,     \* capacity[t]: how many fit into its allocation
  active,       \* the calls of Unpack that are in progress, the innermost last
  result,       \* how the latest call of Unpack ended
  undefined     \* a function was used that has been destroyed

dispVars == <<callbacks, capacity, active, result, undefined>>

\* at and end: the iterators.  dead: they point to the allocation before.
\* list: the vector at the start, calls: the functions called so far.
Loop(t) ==
  [type |-> t, at |-> 1, end |-> Len(callbacks[t]), dead |-> FALSE,
   list |-> callbacks[t], calls |-> SubSeq(callbacks[t], 1, 1)]

Top == Last(active)
InCallback == active # <<>>
NumAdded == FoldLeft(LAMBDA sum, t : sum + Len(callbacks[t]), 0, SetToSeq(Msg))

Ended(status, list, calls) == [status |-> status, list |-> list, calls |-> calls]
NoResult == Ended("none", <<>>, <<>>)

DispInit ==
  /\ callbacks = [t \in Msg |-> <<>>]
  /\ capacity = [t \in Msg |-> 0]
  /\ active = <<>>
  /\ result = NoResult
  /\ undefined = FALSE

-----------------------------------------------------------------------------
\* Vectors grow to twice their capacity.
Grown(n) == IF n = 0 THEN 1 ELSE 2 * n

\* Mutant: the vectors of all types are moved.
KilledAll(t, u) == Len(callbacks[t]) = capacity[t]

\* An emplace_back to type t moves the vector that a loop over u walks.
Killed(t, u) == u = t /\ Len(callbacks[t]) = capacity[t]

\* By the application, or by a callback.
AddCallback(t, func) ==
  /\ ~undefined /\ NumAdded < MaxAdded
  /\ callbacks' = [callbacks EXCEPT ![t] = Append(@, func)]
  /\ capacity' = [capacity EXCEPT ![t] = IF Len(callbacks[t]) = @ THEN Grown(@) ELSE @]
  /\ active' = [k \in DOMAIN active |->
       [active[k] EXCEPT !.dead = @ \/ Killed(t, active[k].type)]]
  /\ UNCHANGED <<result, undefined>>

\* UnpackMessage reports success: the first callback is called, if there is one.
Unpack(t) ==
  /\ ~undefined /\ Len(active) < MaxDepth
  /\ IF callbacks[t] = <<>>
     THEN active' = active /\ result' = Ended("success", <<>>, <<>>)
     ELSE active' = Append(active, Loop(t)) /\ result' = result
  /\ UNCHANGED <<callbacks, capacity, undefined>>

UnpackFails ==
  /\ ~undefined
  /\ \E status \in {"invalid_uid", "invalid_len"} : result' = Ended(status, <<>>, <<>>)
  /\ UNCHANGED <<callbacks, capacity, active, undefined>>

\* Mutant: the end of the vector is looked up again.
AtEndNow(loop) == loop.at >= Len(callbacks[loop.type])

AtEnd(loop) == loop.at = loop.end

NextCallback ==
  /\ ~AtEnd(Top) /\ ~Top.dead
  /\ active' = [active EXCEPT ![Len(active)] =
       [Top EXCEPT !.at = @ + 1, !.calls = Append(@, callbacks[Top.type][Top.at + 1])]]
  /\ UNCHANGED <<result, undefined>>

LoopEnds ==
  /\ AtEnd(Top)
  /\ active' = Front(active)
  /\ result' = Ended("success", Top.list, Top.calls)
  /\ UNCHANGED undefined

\* The next iterator points to freed memory.
NextIsDead ==
  /\ ~AtEnd(Top) /\ Top.dead
  /\ undefined' = TRUE
  /\ UNCHANGED <<active, result>>

\* The callback that runs returns to Unpack.
CallbackReturns ==
  /\ ~undefined /\ InCallback
  /\ NextCallback \/ LoopEnds \/ NextIsDead
  /\ UNCHANGED <<callbacks, capacity>>

\* Mutant: Unpack catches the exception and returns its status.
CallbackThrowsCaught ==
  /\ ~undefined /\ InCallback
  /\ active' = Front(active)
  /\ result' = Ended("success", Top.list, Top.calls)
  /\ UNCHANGED <<callbacks, capacity, undefined>>

\* The callback that runs throws, which ends Unpack; the caller of Unpack may
\* be a callback, and may catch the exception or throw it on.
CallbackThrows ==
  /\ ~undefined /\ InCallback
  /\ active' = Front(active)
  /\ result' = Ended("threw", Top.list, Top.calls)
  /\ UNCHANGED <<callbacks, capacity, undefined>>

\* The callback that runs uses what it captured.
CallbackUsesItself ==
  /\ ~undefined /\ InCallback
  /\ Top.dead
  /\ undefined' = TRUE
  /\ UNCHANGED <<callbacks, capacity, active, result>>

DispNext ==
  \/ \E t \in Msg, func \in Callback : AddCallback(t, func)
  \/ \E t \in Msg : Unpack(t)
  \/ UnpackFails
  \/ CallbackReturns
  \/ CallbackThrows
  \/ CallbackUsesItself

DispSpec == DispInit /\ [][DispNext]_dispVars

-----------------------------------------------------------------------------
(* Properties.                                                             *)

\* Vectors fit into their allocations; a loop that walks one has begun and is
\* within the functions there were when it began.
DispTypeOK ==
  /\ callbacks \in [Msg -> Seq(Callback)]
  /\ \A t \in Msg : capacity[t] \in Nat /\ Len(callbacks[t]) <= capacity[t]
  /\ \A k \in DOMAIN active : /\ active[k].type \in Msg
                              /\ active[k].at \in 1 .. active[k].end
                              /\ active[k].end <= Len(callbacks[active[k].type])
  /\ undefined \in BOOLEAN

\* A call of Unpack that returns success has called every callback there was for
\* its message when it began, in the order they were added and each of them
\* once, and none that was added while it ran, whatever the callbacks did.  One
\* that fails has called none; one that a callback ended by throwing, only
\* those up to that callback.
AllCalledInOrder ==
  /\ result.status = "success" => result.calls = result.list
  /\ result.status \in {"invalid_uid", "invalid_len"} => result.calls = <<>>
  /\ result.status = "threw" => result.calls # <<>> /\ IsPrefix(result.calls, result.list)

\* Only a callback that was added for a type of message, while a message of that
\* type was being dispatched, can lead to a destroyed function, and only if there
\* were one, two, four... callbacks for that type before it.
UndefinedOnlyByGrowth ==
  undefined =>
    \E k \in DOMAIN active :
      \E n \in Len(active[k].list) .. (Len(callbacks[active[k].type]) - 1) :
        \E j \in 0 .. n : n = 2 ^ j
=============================================================================
