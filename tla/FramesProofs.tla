--------------------------- MODULE FramesProofs -----------------------------
(***************************************************************************)
(* Coroutine frames on the scheduler, for any number of tasks, Asyncs,     *)
(* wait lists, priorities and blocks: every step is a step of the          *)
(* scheduler, every frame has one owner, what is resumed is the innermost  *)
(* coroutine, the way back is alive, and no slot of sync_wait() dies before*)
(* it is written.                                                          *)
(***************************************************************************)
EXTENDS Frames, KernelProofs

-----------------------------------------------------------------------------
(* The inductive invariant *)

\* A task stands in a body, except before its first resumption, and a task of
\* sync_wait() after its last co_await.
Standing ==
    \A t \in Tasks :
        /\ state[t] # "Created" =>
              \/ at[Stands(t)] = "body"
              \/ Stands(t) = t /\ at[t] = "initial" /\ state[t] = "Ready"
              \/ Stands(t) = t /\ at[t] = "final" /\ state[t] = "Running" /\ t \in SyncTasks
        /\ state[t] = "Created" => at[t] \in {"none", "initial"}

\* Only a coroutine in the middle of its body, or a task of sync_wait(), holds
\* Task and Async objects.
Holding ==
    \A c \in Coroutines \ SyncTasks, d \in Coroutines : owner[d] = c => at[c] = "body"

\* A task of sync_wait() exists exactly while it serves a caller, who starts it
\* at once; it calls no sync_wait() itself.
Serving ==
    \A w \in SyncTasks :
        /\ at[w] = "none" <=> serves[w] = Nobody
        /\ slot[w] = "none"
        /\ at[w] # "none" /\ state[w] = "Created" =>
              owner[w] = serves[w] /\ slot[serves[w]] = "starting"
        /\ at[w] # "none" /\ at[w] # "final" /\ state[w] # "Created" => slot[serves[w]] = "open"

FrameInv ==
    /\ FrameTypeOK
    /\ FramesOwned
    /\ ResumesInnermost
    /\ WayBack
    /\ SlotOutlives
    /\ Standing
    /\ Holding
    /\ Serving

\* The names are different from one another.
LEMMA Names ==
    /\ Outside \notin Coroutines /\ Scheduler \notin Coroutines /\ Nobody \notin Coroutines
    /\ Outside # Scheduler /\ Outside # Nobody /\ Scheduler # Nobody
    /\ Tasks \subseteq Coroutines /\ Asyncs \subseteq Coroutines
    /\ SyncTasks \subseteq Tasks /\ Tasks \cap Asyncs = {}
    /\ Coroutines \subseteq Callers /\ Outside \in Callers
    /\ \A c \in Coroutines : c \in Tasks \/ c \in Asyncs
  BY FramesAssumption, KernelAssumption DEF Coroutines, Outside, Callers

\* Who has the processor, is not waiting for an Async, and no other task
\* stands there.
LEMMA Here ==
    ASSUME IInv, FrameInv, HasProcessor
    PROVE  /\ stack = <<>> => here = Outside
           /\ stack # <<>> => /\ current \in Tasks /\ state[current] = "Running"
                              /\ here \in Coroutines /\ here = inner[current]
                              /\ here = Stands(current) /\ RootOf(here) = current
                              /\ \A t \in Tasks \ {current} :
                                    state[t] # "Created" => Stands(t) # here
           /\ here \in Callers
           /\ \A a \in Asyncs : ~Awaits(here, a)
<1>1. CASE stack = <<>>
  <2>1. here = Outside
    BY <1>1 DEF here
  <2>2. \A a \in Asyncs : ~Awaits(here, a)
    BY <2>1, Names DEF FrameInv, WayBack, Awaits
  <2> QED BY <1>1, <2>1, <2>2, Names
<1>2. CASE stack # <<>>
  <2>1. current \in Tasks /\ state[current] = "Running"
    <3>1. Executing
      BY <1>2 DEF HasProcessor, Executing
    <3> QED BY <3>1, Executes
  <2>2. here = inner[current] /\ here = Stands(current)
    BY <1>2, <2>1 DEF here, Stands
  <2>3. /\ here \in Coroutines /\ RootOf(here) = current /\ \A a \in Asyncs : ~Awaits(here, a)
        /\ \A t \in Tasks : state[t] # "Created" => RootOf(Stands(t)) = t
    BY <2>1, <2>2 DEF FrameInv, ResumesInnermost
  <2>4. \A t \in Tasks \ {current} : state[t] # "Created" => Stands(t) # here
    BY <2>3
  <2> QED BY <1>2, <2>1, <2>2, <2>3, <2>4, Names
<1> QED BY <1>1, <1>2

\* A step that leaves the frames alone and at most makes waiting tasks ready
LEMMA CalmStep ==
    ASSUME FrameInv, UNCHANGED <<frames, resume_point, inner, calls>>,
           \A t \in Tasks : \/ state'[t] = state[t]
                            \/ state[t] = "Blocked" /\ state'[t] = "Ready"
    PROVE  FrameInv'
<1> USE DEF frames, calls
<1>1. UNCHANGED <<at, owner, continuation, root, resume_point, inner, serves, slot>>
  OBVIOUS
<1>2. \A t \in Tasks : /\ Stands(t)' = Stands(t)
                       /\ state[t] = "Created" <=> state'[t] = "Created"
                       /\ state[t] = "Ready" => state'[t] = "Ready"
                       /\ state[t] = "Running" => state'[t] = "Running"
  BY <1>1 DEF Stands
<1>3. FrameTypeOK'
  BY <1>1 DEF FrameInv, FrameTypeOK
<1>4. FramesOwned' /\ Holding'
  BY <1>1, <1>2 DEF FrameInv, FramesOwned, Holding
<1>5. WayBack'
  BY <1>1 DEF FrameInv, WayBack, Awaits, RootOf
<1>6. ResumesInnermost'
  BY <1>1, <1>2 DEF FrameInv, ResumesInnermost, Awaits, RootOf
<1>7. Standing'
  BY <1>1, <1>2 DEF FrameInv, Standing
<1>8. SlotOutlives' /\ Serving'
  <2>1. SlotOutlives'
    BY <1>1 DEF FrameInv, SlotOutlives
  <2>2. Serving'
    BY <1>1, <1>2, Names DEF FrameInv, Serving
  <2> QED BY <2>1, <2>2
<1> QED BY <1>3, <1>4, <1>5, <1>6, <1>7, <1>8 DEF FrameInv

-----------------------------------------------------------------------------
(* Frames come and go *)

\* A new frame, owned by the code that has the processor; it may serve a
\* caller.
LEMMA CreateStep ==
    ASSUME IInv, FrameInv, NEW c \in Coroutines \ SyncTasks, Create(c)
    PROVE  FrameInv'
<1>1. /\ HasProcessor /\ slot[here] = "none" /\ (stack # <<>> => at[here] = "body")
      /\ at[c] = "none"
      /\ at' = [at EXCEPT ![c] = "initial"] /\ owner' = [owner EXCEPT ![c] = here]
      /\ UNCHANGED <<continuation, root, resume_point, inner, serves, slot, state>>
  BY DEF Create, InBody, calls, kernelVars
<1>2. /\ here \in Callers /\ here # Scheduler /\ here # Nobody /\ here # c
      /\ here \in Coroutines => at[here] = "body"
      /\ here \in Coroutines \/ here = Outside
  BY <1>1, Here, Names
<1>3. /\ at'[c] = "initial" /\ \A d \in Coroutines : d # c => at'[d] = at[d]
      /\ owner'[c] = here /\ \A d \in Coroutines : d # c => owner'[d] = owner[d]
  BY <1>1 DEF FrameInv, FrameTypeOK
<1>4. owner[c] = Nobody /\ (c \in Tasks => state[c] = "Created")
  BY <1>1, Names DEF FrameInv, FramesOwned
<1>5. \A t \in Tasks : Stands(t)' = Stands(t) /\ state'[t] = state[t]
  BY <1>1 DEF Stands
<1>6. FrameTypeOK'
  BY <1>1, <1>2 DEF FrameInv, FrameTypeOK
<1>7. FramesOwned'
  BY <1>2, <1>3, <1>4, <1>5, Names DEF FrameInv, FramesOwned
<1>8. \A a \in Asyncs : \A d : Awaits(d, a)' <=> Awaits(d, a)
  BY <1>1, <1>3, Names DEF Awaits
<1>9. \A d : RootOf(d)' = RootOf(d)
  BY <1>1 DEF RootOf
<1>10. ResumesInnermost'
  <2> SUFFICES ASSUME NEW t \in Tasks, state[t] # "Created"
               PROVE  /\ Stands(t) \in Coroutines /\ RootOf(Stands(t)) = t
                      /\ at'[Stands(t)] = "body" \/ (Stands(t) = t /\ at'[t] # "none")
                      /\ ~\E a \in Asyncs : Awaits(Stands(t), a)
    BY <1>5, <1>8, <1>9 DEF ResumesInnermost
  <2> QED BY <1>1, <1>3, Names DEF FrameInv, ResumesInnermost
<1>11. WayBack'
  <2> SUFFICES ASSUME NEW a \in Asyncs, at'[a] = "body"
               PROVE  /\ continuation[a] \in Coroutines /\ at'[continuation[a]] = "body"
                      /\ owner'[a] = continuation[a]
                      /\ root[a] \in Tasks /\ RootOf(continuation[a]) = root[a]
    <3>1. \A a, b \in Asyncs, d \in Coroutines : Awaits(d, a)' /\ Awaits(d, b)' => a = b
      BY <1>8 DEF FrameInv, WayBack
    <3> QED BY <1>1, <1>9, <3>1 DEF WayBack
  <2> QED BY <1>1, <1>3, Names DEF FrameInv, WayBack
<1>12. SlotOutlives'
  BY <1>1, <1>3, Names DEF FrameInv, SlotOutlives
<1>13. Standing'
  BY <1>1, <1>3, <1>4, <1>5, Names DEF FrameInv, Standing, ResumesInnermost
<1>14. Holding'
  <2> SUFFICES ASSUME NEW e \in Coroutines \ SyncTasks, NEW d \in Coroutines, owner'[d] = e
               PROVE  at'[e] = "body"
    BY DEF Holding
  <2>1. CASE d = c
    BY <1>2, <1>3, <2>1
  <2>2. CASE d # c
    <3>1. at[e] = "body"
      BY <1>3, <2>2 DEF FrameInv, Holding
    <3> QED BY <1>1, <1>3, <3>1
  <2> QED BY <2>1, <2>2
<1>15. Serving'
  BY <1>1, <1>3, <1>5, Names DEF FrameInv, Serving
<1> QED BY <1>6, <1>7, <1>10, <1>11, <1>12, <1>13, <1>14, <1>15 DEF FrameInv

\* A frame is destroyed that holds nothing, that no Async will go back to, in
\* which no task stands, and whose task, if any, is not known to the scheduler.
LEMMA DestroyKeeps ==
    ASSUME FrameInv, NEW c \in Coroutines, at[c] # "none", Destroy(c), slot' = slot,
           \A d \in Coroutines : owner[d] # c,
           \A a \in Asyncs : ~Awaits(c, a),
           slot[c] = "none", c \in SyncTasks => at[c] = "final",
           \A t \in Tasks : t # c => /\ state'[t] = state[t]
                                     /\ state[t] # "Created" => Stands(t) # c,
           c \in Tasks => state'[c] = "Created"
    PROVE  FrameInv'
<1>1. /\ at'[c] = "none" /\ \A d \in Coroutines : d # c => at'[d] = at[d]
      /\ owner'[c] = Nobody /\ \A d \in Coroutines : d # c => owner'[d] = owner[d]
      /\ \A a \in Asyncs : a # c => continuation'[a] = continuation[a] /\ root'[a] = root[a]
      /\ \A t \in Tasks : t # c => resume_point'[t] = resume_point[t] /\ inner'[t] = inner[t]
      /\ \A w \in SyncTasks : serves'[w] = IF w = c THEN Nobody ELSE serves[w]
  BY DEF Destroy, FrameInv, FrameTypeOK
<1>2. \A t \in Tasks : t # c => Stands(t)' = Stands(t)
  BY <1>1 DEF Stands
<1>3. FrameTypeOK'
  <2>1. Nobody \in Callers \union {Scheduler, Nobody}
    OBVIOUS
  <2> QED BY <2>1 DEF Destroy, FrameInv, FrameTypeOK
<1>4. FramesOwned'
  BY <1>1, Names DEF FrameInv, FramesOwned
<1>5. \A a \in Asyncs : \A d : Awaits(d, a)' => Awaits(d, a) /\ a # c /\ d # c
  BY <1>1, Names DEF Awaits
<1>6. ResumesInnermost'
  <2> SUFFICES ASSUME NEW t \in Tasks, state'[t] # "Created"
               PROVE  /\ Stands(t)' \in Coroutines /\ RootOf(Stands(t))' = t
                      /\ at'[Stands(t)'] = "body" \/ (Stands(t)' = t /\ at'[t] # "none")
                      /\ ~\E a \in Asyncs : Awaits(Stands(t), a)'
    BY DEF ResumesInnermost
  <2>1. t # c /\ state[t] # "Created" /\ Stands(t)' = Stands(t) /\ Stands(t) # c
    BY <1>2
  <2>2. /\ Stands(t) \in Coroutines /\ RootOf(Stands(t)) = t
        /\ at[Stands(t)] = "body" \/ (Stands(t) = t /\ at[t] # "none")
        /\ ~\E a \in Asyncs : Awaits(Stands(t), a)
    BY <2>1 DEF FrameInv, ResumesInnermost
  <2>3. RootOf(Stands(t))' = t
    BY <1>1, <2>1, <2>2 DEF RootOf
  <2>4. ~\E a \in Asyncs : Awaits(Stands(t), a)'
    BY <1>1, <2>1, <2>2, Names DEF Awaits
  <2> QED BY <1>1, <2>1, <2>2, <2>3, <2>4, Names
<1>7. WayBack'
  <2>1. ASSUME NEW a \in Asyncs, at'[a] = "body"
        PROVE  /\ continuation'[a] \in Coroutines /\ at'[continuation'[a]] = "body"
               /\ owner'[a] = continuation'[a]
               /\ root'[a] \in Tasks /\ RootOf(continuation[a])' = root'[a]
    <3>1. a # c /\ at[a] = "body" /\ continuation'[a] = continuation[a] /\ root'[a] = root[a]
      BY <1>1, <2>1, Names
    <3>2. /\ continuation[a] \in Coroutines /\ at[continuation[a]] = "body"
          /\ owner[a] = continuation[a]
          /\ root[a] \in Tasks /\ RootOf(continuation[a]) = root[a]
      BY <3>1 DEF FrameInv, WayBack
    <3>3. continuation[a] # c
      BY <3>1 DEF Awaits
    <3>4. RootOf(continuation[a])' = RootOf(continuation[a])
      BY <1>1, <3>1, <3>2, <3>3 DEF RootOf
    <3> QED BY <1>1, <3>1, <3>2, <3>3, <3>4, Names
  <2>2. ASSUME NEW a \in Asyncs, NEW b \in Asyncs, NEW d \in Coroutines,
               Awaits(d, a)', Awaits(d, b)'
        PROVE  a = b
    <3>1. Awaits(d, a) /\ Awaits(d, b)
      BY <1>1, <2>2, Names DEF Awaits
    <3> QED BY <3>1 DEF FrameInv, WayBack
  <2> QED BY <2>1, <2>2 DEF WayBack
<1>8. SlotOutlives'
  BY <1>1, Names DEF FrameInv, SlotOutlives
<1>9. Standing'
  BY <1>1, <1>2, Names DEF FrameInv, Standing, ResumesInnermost
<1>10. Holding'
  BY <1>1, Names DEF FrameInv, Holding
<1>11. Serving'
  BY <1>1, Names DEF FrameInv, Serving
<1> QED BY <1>3, <1>4, <1>6, <1>7, <1>8, <1>9, <1>10, <1>11 DEF FrameInv

\* What the code that has the processor holds, and did not just make for a
\* sync_wait(), is not in the middle of its body, holds nothing, and nothing
\* leads there.
LEMMA HeldAtRest ==
    ASSUME IInv, FrameInv, HasProcessor, NEW c \in Coroutines, owner[c] = here,
           slot[here] = "none" \/ c \in Asyncs
    PROVE  /\ at[c] \notin {"none", "body"} /\ c \notin SyncTasks
           /\ \A d \in Coroutines : owner[d] # c
           /\ \A a \in Asyncs : ~Awaits(c, a)
           /\ slot[c] = "none"
           /\ c \in Tasks => state[c] = "Created"
           /\ \A t \in Tasks : t # c => (state[t] # "Created" => Stands(t) # c)
<1>1. here \in Callers /\ here # Scheduler /\ here # Nobody /\ \A a \in Asyncs : ~Awaits(here, a)
  BY Here, Names
<1>2. at[c] # "none"
  BY <1>1 DEF FrameInv, FramesOwned
<1>3. c \in Tasks => state[c] = "Created"
  BY <1>1 DEF FrameInv, FramesOwned
<1>4. c \notin SyncTasks
  BY <1>2, <1>3, Names DEF FrameInv, Serving
<1>5. at[c] # "body"
  <2>1. CASE c \in Tasks
    BY <1>3, <2>1 DEF FrameInv, Standing
  <2>2. CASE c \in Asyncs
    BY <1>1, <2>2 DEF FrameInv, WayBack, Awaits
  <2> QED BY <2>1, <2>2, Names
<1>6. \A d \in Coroutines : owner[d] # c
  BY <1>4, <1>5 DEF FrameInv, Holding
<1>7. \A a \in Asyncs : ~Awaits(c, a)
  BY <1>5 DEF FrameInv, WayBack, Awaits
<1>8. slot[c] = "none"
  BY <1>5 DEF FrameInv, SlotOutlives
<1>9. \A t \in Tasks : t # c => (state[t] # "Created" => Stands(t) # c)
  BY <1>5 DEF FrameInv, ResumesInnermost
<1> QED BY <1>2, <1>3, <1>4, <1>5, <1>6, <1>7, <1>8, <1>9

LEMMA DropStep ==
    ASSUME IInv, FrameInv, NEW c \in Coroutines, Drop(c)
    PROVE  FrameInv'
<1>1. /\ HasProcessor /\ slot[here] = "none" /\ owner[c] = here /\ Destroy(c)
      /\ slot' = slot /\ state' = state
  BY DEF Drop, InBody, kernelVars
<1> QED BY <1>1, HeldAtRest, DestroyKeeps

LEMMA DropArgumentStep ==
    ASSUME IInv, FrameInv, NEW a \in Asyncs, DropArgument(a)
    PROVE  FrameInv'
<1>1. HasProcessor /\ owner[a] = here /\ Destroy(a) /\ slot' = slot /\ state' = state
  BY DEF DropArgument, kernelVars
<1>2. a \in Coroutines
  BY Names
<1> QED BY <1>1, <1>2, HeldAtRest, DestroyKeeps

LEMMA FinishTaskStep ==
    ASSUME IInv, FrameInv, FinishTask
    PROVE  FrameInv'
<1>1. /\ Executing /\ here = current /\ slot[here] = "none" /\ Owned(here) = {}
      /\ at[here] = IF here \in SyncTasks THEN "final" ELSE "body"
      /\ state' = [state EXCEPT ![current] = "Created"]
      /\ Destroy(here) /\ slot' = slot
  BY DEF FinishTask, Finish
<1>2. HasProcessor /\ stack # <<>>
  BY <1>1 DEF Executing, HasProcessor, TopIs
<1>3. /\ here \in Coroutines /\ current \in Tasks /\ \A a \in Asyncs : ~Awaits(here, a)
      /\ \A t \in Tasks \ {current} : state[t] # "Created" => Stands(t) # here
  BY <1>2, Here
<1>4. /\ state'[current] = "Created"
      /\ \A t \in Tasks : t # current => state'[t] = state[t]
  BY <1>1, <1>3 DEF IInv, TypeOK
<1>5. \A d \in Coroutines : owner[d] # here
  BY <1>1 DEF Owned
<1> QED BY <1>1, <1>3, <1>4, <1>5, DestroyKeeps

-----------------------------------------------------------------------------
(* Tasks are started *)

\* The scheduler takes a frame from its holder, who may be in sync_wait().
LEMMA StartKeeps ==
    ASSUME FrameInv, NEW t \in Tasks, state[t] = "Created", at[t] = "initial",
           state' = [state EXCEPT ![t] = "Ready"], state \in [Tasks -> {"Created", "Ready", "Running", "Blocked"}],
           owner' = [owner EXCEPT ![t] = Scheduler],
           resume_point' = [resume_point EXCEPT ![t] = t],
           UNCHANGED <<at, continuation, root, inner, serves>>,
           IF t \in SyncTasks
           THEN /\ serves[t] \in Callers /\ slot[serves[t]] = "starting"
                /\ slot' = [slot EXCEPT ![serves[t]] = "open"]
           ELSE slot' = slot
    PROVE  FrameInv'
<1>1. /\ owner'[t] = Scheduler /\ \A d \in Coroutines : d # t => owner'[d] = owner[d]
      /\ resume_point'[t] = t
      /\ \A u \in Tasks : u # t => resume_point'[u] = resume_point[u]
      /\ state'[t] = "Ready" /\ \A u \in Tasks : u # t => state'[u] = state[u]
  BY Names DEF FrameInv, FrameTypeOK
<1>2. /\ Stands(t)' = t
      /\ \A u \in Tasks : u # t => Stands(u)' = Stands(u)
  BY <1>1 DEF Stands
<1>3. FrameTypeOK'
  <2>1. slot' \in [Callers -> {"none", "starting", "open", "done"}]
    BY DEF FrameInv, FrameTypeOK
  <2>2. owner' \in [Coroutines -> Callers \union {Scheduler, Nobody}]
    BY DEF FrameInv, FrameTypeOK
  <2>3. resume_point' \in [Tasks -> Coroutines \union {Nobody}]
    BY Names DEF FrameInv, FrameTypeOK
  <2> QED BY <2>1, <2>2, <2>3 DEF FrameInv, FrameTypeOK
<1>4. FramesOwned'
  BY <1>1, Names DEF FrameInv, FramesOwned
<1>5. ResumesInnermost'
  <2>1. \A u \in Tasks \ {t} : state[u] # "Created" => Stands(u) # t
    BY DEF FrameInv, ResumesInnermost
  <2>2. \A a \in Asyncs : ~Awaits(t, a)
    BY DEF FrameInv, WayBack, Awaits
  <2> SUFFICES ASSUME NEW u \in Tasks, state'[u] # "Created"
               PROVE  /\ Stands(u)' \in Coroutines /\ RootOf(Stands(u)') = u
                      /\ at[Stands(u)'] = "body" \/ (Stands(u)' = u /\ at[u] # "none")
                      /\ \A a \in Asyncs : ~(at[a] = "body" /\ continuation[a] = Stands(u)')
    BY DEF ResumesInnermost, Awaits, RootOf
  <2>3. CASE u = t
    BY <1>2, <2>2, <2>3, Names DEF Awaits, RootOf
  <2>4. CASE u # t
    BY <1>1, <1>2, <2>4 DEF FrameInv, ResumesInnermost, Awaits
  <2> QED BY <2>3, <2>4
<1>6. WayBack'
  <2>1. \A a \in Asyncs : owner'[a] = owner[a]
    BY <1>1, Names
  <2> QED BY <2>1 DEF FrameInv, WayBack, Awaits, RootOf
<1>7. SlotOutlives'
  <2>1. CASE t \in SyncTasks
    <3>1. slot'[serves[t]] = "open" /\ \A c \in Callers : c # serves[t] => slot'[c] = slot[c]
      BY <2>1 DEF FrameInv, FrameTypeOK
    <3>2. serves[t] # Nobody /\ \A w \in SyncTasks : serves[w] # Nobody => serves[w] \in Callers
      BY <2>1, Names DEF FrameInv, FrameTypeOK, Callers
    <3> QED BY <2>1, <3>1, <3>2, Names DEF FrameInv, SlotOutlives
  <2>2. CASE t \notin SyncTasks
    BY <2>2 DEF FrameInv, SlotOutlives
  <2> QED BY <2>1, <2>2
<1>8. Standing'
  BY <1>1, <1>2 DEF FrameInv, Standing
<1>9. Holding'
  <2>1. t \in Coroutines /\ Scheduler \notin Coroutines
    BY Names
  <2> QED BY <1>1, <2>1 DEF FrameInv, Holding
<1>10. Serving'
  <2>1. CASE t \in SyncTasks
    <3>1. slot'[serves[t]] = "open" /\ \A c \in Callers : c # serves[t] => slot'[c] = slot[c]
      BY <2>1 DEF FrameInv, FrameTypeOK
    <3>2. \A w \in SyncTasks : serves[w] # Nobody => serves[w] \in Callers
      BY Names DEF FrameInv, FrameTypeOK, Callers
    <3>3. \A w \in SyncTasks : w # t /\ serves[w] = serves[t] /\ at[w] # "none" => at[w] = "final"
      BY <2>1, Names DEF FrameInv, SlotOutlives, Serving
    <3>4. \A w \in SyncTasks : slot'[w] = "none"
      <4>1. \A w \in SyncTasks : slot[w] = "none" /\ w \in Callers
        BY Names DEF FrameInv, Serving
      <4> QED BY <2>1, <3>1, <4>1
    <3> SUFFICES ASSUME NEW w \in SyncTasks
                 PROVE  /\ at[w] = "none" <=> serves[w] = Nobody
                        /\ at[w] # "none" /\ state'[w] = "Created" =>
                              owner'[w] = serves[w] /\ slot'[serves[w]] = "starting"
                        /\ at[w] # "none" /\ at[w] # "final" /\ state'[w] # "Created" =>
                              slot'[serves[w]] = "open"
      BY <3>4 DEF Serving
    <3>5. CASE w = t
      BY <1>1, <2>1, <3>1, <3>5 DEF FrameInv, Serving
    <3>6. CASE w # t
      <4>1. w \in Tasks /\ w \in Coroutines /\ state'[w] = state[w] /\ owner'[w] = owner[w]
        BY <1>1, <3>6, Names
      <4>2. state[w] = "Created" => at[w] # "final"
        BY <4>1 DEF FrameInv, Standing
      <4>3. at[w] # "none" /\ at[w] # "final" => slot'[serves[w]] = slot[serves[w]]
        BY <2>1, <3>1, <3>2, <3>3, <3>6 DEF FrameInv, Serving
      <4> QED BY <4>1, <4>2, <4>3 DEF FrameInv, Serving
    <3> QED BY <3>5, <3>6
  <2>2. CASE t \notin SyncTasks
    <3>1. \A w \in SyncTasks : state'[w] = state[w] /\ owner'[w] = owner[w]
      BY <1>1, <2>2, Names
    <3> QED BY <2>2, <3>1 DEF FrameInv, Serving
  <2> QED BY <2>1, <2>2
<1> QED BY <1>3, <1>4, <1>5, <1>6, <1>7, <1>8, <1>9, <1>10 DEF FrameInv

LEMMA StartTaskStep ==
    ASSUME IInv, FrameInv, NEW t \in Tasks, NEW p, StartTask(t, p)
    PROVE  FrameInv'
<1>1. /\ HasProcessor /\ slot[here] = "none" /\ owner[t] = here /\ at[t] = "initial"
      /\ state[t] = "Created" /\ state' = [state EXCEPT ![t] = "Ready"]
      /\ owner' = [owner EXCEPT ![t] = Scheduler]
      /\ resume_point' = [resume_point EXCEPT ![t] = t]
      /\ UNCHANGED <<at, continuation, root, inner, serves, slot>>
  BY DEF StartTask, InBody, Start, MakeReady, calls
<1>2. t \notin SyncTasks
  BY <1>1, HeldAtRest, Names
<1>3. state \in [Tasks -> {"Created", "Ready", "Running", "Blocked"}]
  BY DEF IInv, TypeOK
<1> QED BY <1>1, <1>2, <1>3, StartKeeps

LEMMA SyncStartStep ==
    ASSUME IInv, FrameInv, NEW w \in SyncTasks, NEW p \in Priority, SyncStart(w, p)
    PROVE  FrameInv'
<1>1. /\ HasProcessor /\ slot[here] = "starting" /\ owner[w] = here /\ at[w] = "initial"
      /\ state[w] = "Created" /\ state' = [state EXCEPT ![w] = "Ready"]
      /\ owner' = [owner EXCEPT ![w] = Scheduler]
      /\ resume_point' = [resume_point EXCEPT ![w] = w]
      /\ slot' = [slot EXCEPT ![here] = "open"]
      /\ UNCHANGED <<at, continuation, root, inner, serves>>
  BY DEF SyncStart, Start, MakeReady
<1>2. serves[w] = here /\ here \in Callers /\ w \in Tasks
  BY <1>1, Here, Names DEF FrameInv, Serving
<1>3. state \in [Tasks -> {"Created", "Ready", "Running", "Blocked"}]
  BY DEF IInv, TypeOK
<1> QED BY <1>1, <1>2, <1>3, StartKeeps

-----------------------------------------------------------------------------
(* Control is transferred *)

\* co_await: the coroutine that had the processor waits for one Async, and the
\* task stands in it.
LEMMA AwaitStep ==
    ASSUME IInv, FrameInv, NEW a \in Asyncs, Await(a)
    PROVE  FrameInv'
<1>1. /\ HasProcessor /\ stack # <<>> /\ slot[here] = "none" /\ at[here] = "body"
      /\ owner[a] = here /\ at[a] = "initial"
      /\ continuation' = [continuation EXCEPT ![a] = here]
      /\ root' = [root EXCEPT ![a] = current]
      /\ at' = [at EXCEPT ![a] = "body"]
      /\ inner' = [inner EXCEPT ![current] = a]
      /\ UNCHANGED <<state, current, owner, resume_point, serves, slot>>
  BY DEF Await, InBody, calls, kernelVars, cpu
<1>2. /\ current \in Tasks /\ state[current] = "Running" /\ here \in Coroutines
      /\ RootOf(here) = current /\ \A b \in Asyncs : ~Awaits(here, b)
      /\ \A t \in Tasks \ {current} : state[t] # "Created" => Stands(t) # here
  BY <1>1, Here
<1>3. /\ at'[a] = "body" /\ continuation'[a] = here /\ root'[a] = current /\ a \in Coroutines
      /\ a # here /\ a \notin Tasks
      /\ \A d \in Coroutines : d # a => at'[d] = at[d]
      /\ \A b \in Asyncs : b # a => continuation'[b] = continuation[b] /\ root'[b] = root[b]
      /\ inner'[current] = a /\ \A t \in Tasks : t # current => inner'[t] = inner[t]
  BY <1>1, <1>2, Names DEF FrameInv, FrameTypeOK
<1>4. /\ Stands(current)' = a
      /\ \A t \in Tasks : t # current => Stands(t)' = Stands(t)
  <2>1. \A t \in Tasks : Stands(t)' = IF state[t] = "Running" THEN inner'[t] ELSE resume_point[t]
    BY <1>1 DEF Stands
  <2>2. Stands(current)' = IF state[current] = "Running" THEN inner'[current] ELSE resume_point[current]
    BY <1>1 DEF Stands
  <2> QED BY <1>2, <1>3, <2>1, <2>2 DEF Stands
<1>5. \A t \in Tasks : state[t] # "Created" => Stands(t) # a
  BY <1>1, <1>3 DEF FrameInv, ResumesInnermost
<1>6. \A b \in Asyncs : ~(at'[b] = "body" /\ continuation'[b] = a)
  <2> TAKE b \in Asyncs
  <2>1. CASE b = a
    BY <1>3, <2>1
  <2>2. CASE b # a
    BY <1>1, <1>3, <2>2, Names DEF FrameInv, WayBack
  <2> QED BY <2>1, <2>2
<1>7. FrameTypeOK'
  BY <1>1, <1>2, <1>3 DEF FrameInv, FrameTypeOK
<1>8. FramesOwned'
  BY <1>1, <1>3 DEF FrameInv, FramesOwned
<1>9. ResumesInnermost'
  <2> SUFFICES ASSUME NEW t \in Tasks, state[t] # "Created"
               PROVE  /\ Stands(t)' \in Coroutines /\ RootOf(Stands(t))' = t
                      /\ at'[Stands(t)'] = "body" \/ (Stands(t)' = t /\ at'[t] # "none")
                      /\ \A b \in Asyncs : ~(at'[b] = "body" /\ continuation'[b] = Stands(t)')
    BY <1>1 DEF ResumesInnermost, Awaits
  <2>1. CASE t = current
    <3>1. Stands(t)' = a
      BY <1>1, <1>4, <2>1
    <3>2. RootOf(Stands(t))' = t
      BY <1>3, <2>1, <3>1 DEF RootOf
    <3> QED BY <1>3, <1>6, <3>1, <3>2
  <2>2. CASE t # current
    <3>1. /\ Stands(t) \in Coroutines /\ RootOf(Stands(t)) = t /\ Stands(t) # a /\ Stands(t) # here
          /\ at[Stands(t)] = "body" \/ (Stands(t) = t /\ at[t] # "none")
          /\ \A b \in Asyncs : ~(at[b] = "body" /\ continuation[b] = Stands(t))
      BY <1>2, <1>5, <2>2 DEF FrameInv, ResumesInnermost, Awaits
    <3>2. RootOf(Stands(t))' = t
      BY <1>3, <1>4, <2>2, <3>1 DEF RootOf
    <3> QED BY <1>3, <1>4, <2>2, <3>1, <3>2, Names
  <2> QED BY <2>1, <2>2
<1>10. WayBack'
  <2>1. ASSUME NEW b \in Asyncs, at'[b] = "body"
        PROVE  /\ continuation'[b] \in Coroutines /\ at'[continuation'[b]] = "body"
               /\ owner'[b] = continuation'[b]
               /\ root'[b] \in Tasks /\ RootOf(continuation[b])' = root'[b]
    <3>1. CASE b = a
      <4>1. (IF here \in Asyncs THEN root'[here] ELSE here) = current
        BY <1>2, <1>3 DEF RootOf
      <4>2. RootOf(continuation[b])' = current
        BY <1>3, <3>1, <4>1 DEF RootOf
      <4> QED BY <1>1, <1>2, <1>3, <3>1, <4>2
    <3>2. CASE b # a
      <4>1. /\ at[b] = "body" /\ continuation'[b] = continuation[b] /\ root'[b] = root[b]
        BY <1>3, <2>1, <3>2, Names
      <4>2. /\ continuation[b] \in Coroutines /\ at[continuation[b]] = "body"
            /\ owner[b] = continuation[b]
            /\ root[b] \in Tasks /\ RootOf(continuation[b]) = root[b]
        BY <4>1 DEF FrameInv, WayBack
      <4>3. continuation[b] # a
        BY <1>1, <4>2
      <4>4. RootOf(continuation[b])' = root[b]
        BY <1>3, <4>1, <4>2, <4>3 DEF RootOf
      <4> QED BY <1>1, <1>3, <4>1, <4>2, <4>3, <4>4
    <3> QED BY <3>1, <3>2
  <2>2. ASSUME NEW b \in Asyncs, NEW e \in Asyncs, NEW d \in Coroutines,
               Awaits(d, b)', Awaits(d, e)'
        PROVE  b = e
    <3>1. b # a => Awaits(d, b)
      BY <1>3, <2>2, Names DEF Awaits
    <3>2. e # a => Awaits(d, e)
      BY <1>3, <2>2, Names DEF Awaits
    <3>3. b = a \/ e = a => d = here
      BY <1>3, <2>2 DEF Awaits
    <3> QED BY <1>2, <3>1, <3>2, <3>3 DEF FrameInv, WayBack
  <2> QED BY <2>1, <2>2 DEF WayBack
<1>11. \A w \in SyncTasks : w # a /\ at'[w] = at[w]
  BY <1>3, Names
<1>12. SlotOutlives'
  BY <1>1, <1>3, <1>11 DEF FrameInv, SlotOutlives
<1>13. Standing'
  <2> SUFFICES ASSUME NEW t \in Tasks
               PROVE  /\ state[t] # "Created" =>
                            \/ at'[Stands(t)'] = "body"
                            \/ Stands(t)' = t /\ at'[t] = "initial" /\ state[t] = "Ready"
                            \/ Stands(t)' = t /\ at'[t] = "final" /\ state[t] = "Running"
                               /\ t \in SyncTasks
                      /\ state[t] = "Created" => at'[t] \in {"none", "initial"}
    BY <1>1 DEF Standing
  <2>1. at'[t] = at[t]
    BY <1>3, Names
  <2>2. CASE t = current
    <3>1. Stands(t)' = a
      BY <1>1, <1>4, <2>2
    <3> QED BY <1>2, <1>3, <2>2, <3>1
  <2>3. CASE t # current
    BY <1>3, <1>4, <2>1, <2>3 DEF FrameInv, Standing, ResumesInnermost
  <2> QED BY <2>2, <2>3
<1>14. Holding'
  BY <1>1, <1>3 DEF FrameInv, Holding
<1>15. Serving'
  BY <1>1, <1>11 DEF FrameInv, Serving
<1> QED BY <1>7, <1>8, <1>9, <1>10, <1>12, <1>13, <1>14, <1>15 DEF FrameInv

\* The end of an Async: the task stands in the coroutine that awaited it, and
\* nothing else has changed there.
LEMMA CoReturnStep ==
    ASSUME IInv, FrameInv, CoReturn
    PROVE  FrameInv'
<1>1. /\ HasProcessor /\ stack # <<>> /\ slot[here] = "none" /\ at[here] = "body"
      /\ here \in Asyncs /\ Owned(here) = {}
      /\ at' = [at EXCEPT ![here] = "final"]
      /\ inner' = [inner EXCEPT ![current] = continuation[here]]
      /\ UNCHANGED <<state, current, owner, continuation, root, resume_point, serves, slot>>
  BY DEF CoReturn, InBody, calls, kernelVars, cpu
<1>2. /\ current \in Tasks /\ state[current] = "Running" /\ here \in Coroutines
      /\ RootOf(here) = current /\ \A b \in Asyncs : ~Awaits(here, b)
      /\ \A t \in Tasks \ {current} : state[t] # "Created" => Stands(t) # here
  BY <1>1, Here
<1>3. PICK h : h = here
  OBVIOUS
<1>4. PICK c : c = continuation[h]
  OBVIOUS
<1>5. /\ h \in Asyncs /\ h \in Coroutines /\ h \notin Tasks /\ at[h] = "body"
      /\ c \in Coroutines /\ at[c] = "body" /\ owner[h] = c /\ RootOf(c) = current
      /\ c # h
  <2>1. h \in Asyncs /\ h \in Coroutines /\ h \notin Tasks /\ at[h] = "body"
    BY <1>1, <1>2, <1>3, Names
  <2>2. c \in Coroutines /\ at[c] = "body" /\ owner[h] = c /\ RootOf(c) = root[h] /\ c # h
    BY <1>2, <1>3, <1>4, <2>1 DEF FrameInv, WayBack, Awaits
  <2>3. root[h] = current
    BY <1>2, <1>3, <2>1 DEF RootOf
  <2> QED BY <2>1, <2>2, <2>3
<1>6. /\ at'[h] = "final" /\ \A d \in Coroutines : d # h => at'[d] = at[d]
      /\ inner'[current] = c /\ \A t \in Tasks : t # current => inner'[t] = inner[t]
      /\ \A d \in Coroutines : owner[d] # h
  BY <1>1, <1>2, <1>3, <1>4 DEF FrameInv, FrameTypeOK, Owned
<1>7. /\ Stands(current)' = c
      /\ \A t \in Tasks : t # current => Stands(t)' = Stands(t)
  BY <1>1, <1>2, <1>6 DEF Stands
<1>8. \A d : RootOf(d)' = RootOf(d)
  BY <1>1 DEF RootOf
<1>9. \A b \in Asyncs : \A d : at'[b] = "body" /\ continuation'[b] = d =>
         b # h /\ Awaits(d, b)
  BY <1>1, <1>6, Names DEF Awaits
<1>10. \A b \in Asyncs : ~(at'[b] = "body" /\ continuation'[b] = c)
  BY <1>4, <1>5, <1>9 DEF FrameInv, WayBack, Awaits
<1>11. FrameTypeOK'
  <2>1. at' \in [Coroutines -> {"none", "initial", "body", "final"}]
    BY <1>1 DEF FrameInv, FrameTypeOK
  <2>2. inner' \in [Tasks -> Coroutines \union {Nobody}]
    BY <1>1, <1>3, <1>4, <1>5 DEF FrameInv, FrameTypeOK
  <2> QED BY <1>1, <2>1, <2>2 DEF FrameInv, FrameTypeOK
<1>12. FramesOwned'
  BY <1>1, <1>5, <1>6 DEF FrameInv, FramesOwned
<1>13. ResumesInnermost'
  <2> SUFFICES ASSUME NEW t \in Tasks, state[t] # "Created"
               PROVE  /\ Stands(t)' \in Coroutines /\ RootOf(Stands(t)') = t
                      /\ at'[Stands(t)'] = "body" \/ (Stands(t)' = t /\ at'[t] # "none")
                      /\ \A b \in Asyncs : ~(at'[b] = "body" /\ continuation'[b] = Stands(t)')
    BY <1>1 DEF ResumesInnermost, Awaits, RootOf
  <2>1. CASE t = current
    <3>1. Stands(t)' = c
      BY <1>1, <1>7, <2>1
    <3> QED BY <1>5, <1>6, <1>10, <2>1, <3>1
  <2>2. CASE t # current
    <3>1. /\ Stands(t) \in Coroutines /\ RootOf(Stands(t)) = t /\ Stands(t) # h
          /\ at[Stands(t)] = "body" \/ (Stands(t) = t /\ at[t] # "none")
          /\ \A b \in Asyncs : ~Awaits(Stands(t), b)
      BY <1>2, <1>3, <2>2 DEF FrameInv, ResumesInnermost
    <3>2. \A b \in Asyncs : ~(at'[b] = "body" /\ continuation'[b] = Stands(t))
      BY <1>9, <3>1
    <3> QED BY <1>5, <1>6, <1>7, <2>2, <3>1, <3>2, Names
  <2> QED BY <2>1, <2>2
<1>14. WayBack'
  <2>1. ASSUME NEW b \in Asyncs, at'[b] = "body"
        PROVE  /\ continuation'[b] \in Coroutines /\ at'[continuation'[b]] = "body"
               /\ owner'[b] = continuation'[b]
               /\ root'[b] \in Tasks /\ RootOf(continuation[b])' = root'[b]
    <3>1. /\ at[b] = "body" /\ b # h
      BY <1>6, <2>1, Names
    <3>2. /\ continuation[b] \in Coroutines /\ at[continuation[b]] = "body"
          /\ owner[b] = continuation[b]
          /\ root[b] \in Tasks /\ RootOf(continuation[b]) = root[b]
      BY <3>1 DEF FrameInv, WayBack
    <3>3. continuation[b] # h
      BY <1>2, <1>3, <3>1 DEF Awaits
    <3>4. RootOf(continuation[b])' = RootOf(continuation[b])
      BY <1>1 DEF RootOf
    <3> QED BY <1>1, <1>6, <3>2, <3>3, <3>4
  <2>2. ASSUME NEW b \in Asyncs, NEW e \in Asyncs, NEW d \in Coroutines,
               Awaits(d, b)', Awaits(d, e)'
        PROVE  b = e
    <3>1. Awaits(d, b) /\ Awaits(d, e)
      BY <1>9, <2>2 DEF Awaits
    <3> QED BY <3>1 DEF FrameInv, WayBack
  <2> QED BY <2>1, <2>2 DEF WayBack
<1>15. \A w \in SyncTasks : w # h /\ at'[w] = at[w]
  BY <1>5, <1>6, Names
<1>16. SlotOutlives'
  BY <1>1, <1>3, <1>6, <1>15 DEF FrameInv, SlotOutlives
<1>17. Standing'
  <2> SUFFICES ASSUME NEW t \in Tasks
               PROVE  /\ state[t] # "Created" =>
                            \/ at'[Stands(t)'] = "body"
                            \/ Stands(t)' = t /\ at'[t] = "initial" /\ state[t] = "Ready"
                            \/ Stands(t)' = t /\ at'[t] = "final" /\ state[t] = "Running"
                               /\ t \in SyncTasks
                      /\ state[t] = "Created" => at'[t] \in {"none", "initial"}
    BY <1>1 DEF Standing
  <2>1. at'[t] = at[t]
    BY <1>5, <1>6, Names
  <2>2. CASE t = current
    <3>1. Stands(t)' = c
      BY <1>1, <1>7, <2>2
    <3> QED BY <1>2, <1>5, <1>6, <2>2, <3>1
  <2>3. CASE t # current
    <3>1. state[t] # "Created" => Stands(t) \in Coroutines /\ Stands(t) # h
      BY <1>2, <1>3, <2>3 DEF FrameInv, ResumesInnermost
    <3> QED BY <1>6, <1>7, <2>1, <2>3, <3>1 DEF FrameInv, Standing
  <2> QED BY <2>2, <2>3
<1>18. Holding'
  BY <1>1, <1>6 DEF FrameInv, Holding
<1>19. Serving'
  BY <1>1, <1>15 DEF FrameInv, Serving
<1> QED BY <1>11, <1>12, <1>13, <1>14, <1>16, <1>17, <1>18, <1>19 DEF FrameInv

-----------------------------------------------------------------------------
(* Tasks leave the processor and come back *)

\* A step that leaves the frames alone and moves no task to another coroutine
LEMMA SameStands ==
    ASSUME FrameInv, UNCHANGED <<owner, continuation, root, serves, slot>>,
           resume_point' \in [Tasks -> Coroutines \union {Nobody}],
           inner' \in [Tasks -> Coroutines \union {Nobody}],
           NEW r \in Coroutines, at' = [at EXCEPT ![r] = "body"],
           \/ at[r] = "body"
           \/ at[r] = "initial" /\ r \in Tasks /\ state[r] # "Created",
           \A t \in Tasks : /\ state'[t] = "Created" <=> state[t] = "Created"
                            /\ state[t] # "Created" => Stands(t)' = Stands(t)
                            /\ state[t] # "Created" =>
                                  state'[t] = state[t] \/ at'[Stands(t)] = "body"
    PROVE  FrameInv'
<1>1. /\ at'[r] = "body" /\ \A d \in Coroutines : d # r => at'[d] = at[d]
      /\ at[r] = "initial" => r \in Tasks /\ r \notin Asyncs /\ state[r] # "Created"
  BY Names DEF FrameInv, FrameTypeOK
<1>2. FrameTypeOK'
  BY DEF FrameInv, FrameTypeOK
<1>3. FramesOwned'
  BY <1>1 DEF FrameInv, FramesOwned
<1>4. \A a \in Asyncs : at'[a] = "body" <=> at[a] = "body"
  BY <1>1, Names
<1>5. \A d \in Coroutines : at[d] = "body" => at'[d] = "body"
  BY <1>1
<1>6. ResumesInnermost'
  <2> SUFFICES ASSUME NEW t \in Tasks, state[t] # "Created"
               PROVE  /\ Stands(t)' \in Coroutines /\ RootOf(Stands(t)') = t
                      /\ at'[Stands(t)'] = "body" \/ (Stands(t)' = t /\ at'[t] # "none")
                      /\ \A b \in Asyncs : ~(at'[b] = "body" /\ continuation'[b] = Stands(t)')
    BY DEF ResumesInnermost, Awaits, RootOf
  <2>1. /\ Stands(t)' = Stands(t) /\ Stands(t) \in Coroutines /\ RootOf(Stands(t)) = t
        /\ at[Stands(t)] = "body" \/ (Stands(t) = t /\ at[t] # "none")
        /\ \A b \in Asyncs : ~(at[b] = "body" /\ continuation[b] = Stands(t))
    BY DEF FrameInv, ResumesInnermost, Awaits
  <2> QED BY <1>1, <1>4, <2>1
<1>7. WayBack'
  BY <1>4, <1>5 DEF FrameInv, WayBack, Awaits, RootOf
<1>8. \A w \in SyncTasks : /\ at'[w] = "none" <=> at[w] = "none"
                           /\ at'[w] = "final" <=> at[w] = "final"
  BY <1>1, Names
<1>9. SlotOutlives'
  BY <1>5, <1>8 DEF FrameInv, SlotOutlives
<1>10. Standing'
  <2> SUFFICES ASSUME NEW t \in Tasks
               PROVE  /\ state'[t] # "Created" =>
                            \/ at'[Stands(t)'] = "body"
                            \/ Stands(t)' = t /\ at'[t] = "initial" /\ state'[t] = "Ready"
                            \/ Stands(t)' = t /\ at'[t] = "final" /\ state'[t] = "Running"
                               /\ t \in SyncTasks
                      /\ state'[t] = "Created" => at'[t] \in {"none", "initial"}
    BY DEF Standing
  <2>1. t \in Coroutines
    BY Names
  <2>2. CASE state[t] = "Created"
    BY <1>1, <2>1, <2>2 DEF FrameInv, Standing
  <2>3. CASE state[t] # "Created"
    <3>1. Stands(t) \in Coroutines /\ Stands(t)' = Stands(t)
      BY <2>3 DEF FrameInv, ResumesInnermost
    <3>2. CASE at'[Stands(t)] = "body"
      BY <2>3, <3>1, <3>2
    <3>3. CASE at'[Stands(t)] # "body"
      <4>1. state'[t] = state[t] /\ Stands(t) # r
        BY <1>1, <2>3, <3>3
      <4> QED BY <1>1, <2>3, <3>1, <3>3, <4>1 DEF FrameInv, Standing
    <3> QED BY <3>2, <3>3
  <2> QED BY <2>2, <2>3
<1>11. Holding'
  BY <1>5 DEF FrameInv, Holding
<1>12. Serving'
  BY <1>8, Names DEF FrameInv, Serving
<1> QED BY <1>2, <1>3, <1>6, <1>7, <1>9, <1>10, <1>11, <1>12 DEF FrameInv

LEMMA SuspendStep ==
    ASSUME IInv, FrameInv, Suspend
    PROVE  FrameInv'
<1>1. /\ Executing /\ HasProcessor /\ stack # <<>> /\ at[here] = "body"
      /\ UNCHANGED <<current, at, owner, continuation, root, inner, serves, slot>>
      /\ resume_point' = [resume_point EXCEPT ![current] = here]
  <2>1. Executing /\ current' = current
    BY DEF Suspend, Yield, Block, BlockCurrent
  <2> QED BY <2>1 DEF Suspend, InBody, Executing, TopIs, frames, calls
<1>2. /\ current \in Tasks /\ state[current] = "Running" /\ here \in Coroutines
      /\ here = Stands(current)
  BY <1>1, Here
<1>3. \/ state' = [state EXCEPT ![current] = "Blocked"]
      \/ state' = [state EXCEPT ![current] = "Ready"]
  BY <1>2 DEF Suspend, Yield, Block, BlockCurrent, MakeReady
<1>4. /\ state'[current] \in {"Blocked", "Ready"}
      /\ \A t \in Tasks : t # current => state'[t] = state[t]
  BY <1>2, <1>3 DEF IInv, TypeOK
<1>5. PICK r : r = here
  OBVIOUS
<1>6. /\ resume_point'[current] = r
      /\ \A t \in Tasks : t # current => resume_point'[t] = resume_point[t]
  BY <1>1, <1>2, <1>5 DEF FrameInv, FrameTypeOK
<1>7. \A t \in Tasks : Stands(t)' = Stands(t)
  BY <1>1, <1>2, <1>4, <1>5, <1>6 DEF Stands
<1>8. /\ resume_point' \in [Tasks -> Coroutines \union {Nobody}]
      /\ inner' \in [Tasks -> Coroutines \union {Nobody}]
      /\ r \in Coroutines /\ at[r] = "body" /\ at' = [at EXCEPT ![r] = "body"]
  BY <1>1, <1>2, <1>5 DEF FrameInv, FrameTypeOK
<1>9. \A t \in Tasks : /\ state'[t] = "Created" <=> state[t] = "Created"
                       /\ state[t] # "Created" => state'[t] = state[t] \/ at'[Stands(t)] = "body"
  BY <1>1, <1>2, <1>4
<1> QED BY <1>1, <1>7, <1>8, <1>9, SameStands

LEMMA FrameDispatchStep ==
    ASSUME IInv, FrameInv, FrameDispatch
    PROVE  FrameInv'
<1>1. PICK t : t = current'
  OBVIOUS
<1>2. PICK r : r = resume_point[t]
  OBVIOUS
<1>3. /\ t \in Tasks /\ state[t] = "Ready" /\ state' = [state EXCEPT ![t] = "Running"]
  <2>1. Dispatch
    BY DEF FrameDispatch, Dispatch
  <2> QED BY <1>1, <2>1, DispatchRuns
<1>4. /\ inner' = [inner EXCEPT ![t] = r] /\ at' = [at EXCEPT ![r] = "body"]
      /\ UNCHANGED <<owner, continuation, root, resume_point, serves, slot>>
  BY <1>1, <1>2 DEF FrameDispatch, calls
<1>5. /\ r = Stands(t)
      /\ r \in Coroutines
      /\ at[r] = "body" \/ (at[r] = "initial" /\ r \in Tasks /\ state[r] # "Created")
  <2>1. r = Stands(t)
    BY <1>2, <1>3 DEF Stands
  <2>2. Stands(t) \in Coroutines
    BY <1>3 DEF FrameInv, ResumesInnermost
  <2>3. at[Stands(t)] = "body" \/ (Stands(t) = t /\ at[t] = "initial")
    BY <1>3 DEF FrameInv, Standing
  <2>4. r \in Coroutines
    BY <2>1, <2>2
  <2>5. at[r] = "body" \/ (r = t /\ at[t] = "initial")
    BY <2>1, <2>3
  <2>6. state[t] # "Created"
    BY <1>3
  <2>7. at[r] = "body" \/ (at[r] = "initial" /\ r \in Tasks /\ state[r] # "Created")
    BY <1>3, <2>5, <2>6
  <2> QED BY <2>1, <2>4, <2>7
<1>6. /\ state'[t] = "Running" /\ \A u \in Tasks : u # t => state'[u] = state[u]
      /\ inner'[t] = r /\ \A u \in Tasks : u # t => inner'[u] = inner[u]
      /\ at'[r] = "body"
  BY <1>3, <1>4, <1>5 DEF IInv, TypeOK, FrameInv, FrameTypeOK
<1>7. \A u \in Tasks : Stands(u)' = Stands(u)
  <2> TAKE u \in Tasks
  <2>1. CASE u = t
    BY <1>5, <1>6, <2>1 DEF Stands
  <2>2. CASE u # t
    BY <1>4, <1>6, <2>2 DEF Stands
  <2> QED BY <2>1, <2>2
<1>8. /\ resume_point' \in [Tasks -> Coroutines \union {Nobody}]
      /\ inner' \in [Tasks -> Coroutines \union {Nobody}]
  BY <1>4, <1>5 DEF FrameInv, FrameTypeOK
<1>9. \A u \in Tasks : /\ state'[u] = "Created" <=> state[u] = "Created"
                       /\ state[u] # "Created" => state'[u] = state[u] \/ at'[Stands(u)] = "body"
  BY <1>3, <1>5, <1>6
<1> QED BY <1>4, <1>5, <1>7, <1>8, <1>9, SameStands

-----------------------------------------------------------------------------
(* sync_wait *)

\* The Async moves into the frame of a new task that serves the caller.
LEMMA SyncWaitStep ==
    ASSUME IInv, FrameInv, NEW a \in Asyncs, NEW w \in SyncTasks, SyncWait(a, w),
           here \notin SyncTasks
    PROVE  FrameInv'
<1>1. /\ HasProcessor /\ slot[here] = "none" /\ (stack # <<>> => at[here] = "body")
      /\ owner[a] = here /\ at[a] = "initial" /\ at[w] = "none"
      /\ at' = [at EXCEPT ![w] = "initial"]
      /\ owner' = [owner EXCEPT ![w] = here, ![a] = w]
      /\ serves' = [serves EXCEPT ![w] = here]
      /\ slot' = [slot EXCEPT ![here] = "starting"]
      /\ UNCHANGED <<state, continuation, root, resume_point, inner>>
  BY DEF SyncWait, InBody, kernelVars
<1>2. PICK h : h = here
  OBVIOUS
<1>3. /\ h \in Callers /\ h # Scheduler /\ h # Nobody /\ h # w /\ h \notin SyncTasks
      /\ slot[h] = "none"
      /\ h \in Coroutines => at[h] = "body"
      /\ h \in Coroutines \/ h = Outside
      /\ w \in Tasks /\ w \in Coroutines /\ a \in Coroutines /\ a # w
  BY <1>1, <1>2, Here, Names
<1>4. /\ at'[w] = "initial" /\ \A d \in Coroutines : d # w => at'[d] = at[d]
      /\ owner'[w] = h /\ owner'[a] = w
      /\ \A d \in Coroutines : d # w /\ d # a => owner'[d] = owner[d]
      /\ serves'[w] = h /\ \A v \in SyncTasks : v # w => serves'[v] = serves[v]
      /\ slot'[h] = "starting" /\ \A c \in Callers : c # h => slot'[c] = slot[c]
  BY <1>1, <1>2, <1>3 DEF FrameInv, FrameTypeOK
<1>5. owner[w] = Nobody /\ state[w] = "Created"
  BY <1>1, <1>3, Names DEF FrameInv, FramesOwned
<1>6. \A t \in Tasks : Stands(t)' = Stands(t) /\ state'[t] = state[t]
  BY <1>1 DEF Stands
<1>7. FrameTypeOK'
  <2>1. at' \in [Coroutines -> {"none", "initial", "body", "final"}]
    BY <1>1 DEF FrameInv, FrameTypeOK
  <2>2. owner' \in [Coroutines -> Callers \union {Scheduler, Nobody}]
    BY <1>1, <1>2, <1>3, Names DEF FrameInv, FrameTypeOK
  <2>3. serves' \in [SyncTasks -> Callers \union {Nobody}]
    BY <1>1, <1>2, <1>3 DEF FrameInv, FrameTypeOK
  <2>4. slot' \in [Callers -> {"none", "starting", "open", "done"}]
    BY <1>1 DEF FrameInv, FrameTypeOK
  <2> QED BY <1>1, <2>1, <2>2, <2>3, <2>4 DEF FrameInv, FrameTypeOK
<1>8. FramesOwned'
  <2>1. ASSUME NEW t \in Tasks
        PROVE  state'[t] # "Created" <=> owner'[t] = Scheduler
    <3>1. t # a /\ state'[t] = state[t]
      BY <1>1, <1>6, Names
    <3>2. CASE t = w
      BY <1>3, <1>4, <1>5, <3>1, <3>2
    <3>3. CASE t # w
      BY <1>4, <3>1, <3>3, Names DEF FrameInv, FramesOwned
    <3> QED BY <3>2, <3>3
  <2>2. ASSUME NEW d \in Coroutines
        PROVE  IF at'[d] = "none" THEN owner'[d] = Nobody
               ELSE \/ owner'[d] \in {Outside, Scheduler}
                    \/ owner'[d] \in Coroutines /\ at'[owner'[d]] # "none"
    <3>1. CASE d = w
      BY <1>3, <1>4, <3>1
    <3>2. CASE d = a
      BY <1>1, <1>3, <1>4, <3>2
    <3>3. CASE d # w /\ d # a
      BY <1>4, <3>3 DEF FrameInv, FramesOwned
    <3> QED BY <3>1, <3>2, <3>3
  <2> QED BY <2>1, <2>2 DEF FramesOwned
<1>9. \A b \in Asyncs : at'[b] = at[b] /\ (at[b] = "body" => owner'[b] = owner[b])
  BY <1>1, <1>4, Names
<1>10. \A d \in Coroutines : at[d] = "body" => at'[d] = "body"
  BY <1>1, <1>4
<1>11. ResumesInnermost'
  <2> SUFFICES ASSUME NEW t \in Tasks, state[t] # "Created"
               PROVE  /\ Stands(t) \in Coroutines /\ RootOf(Stands(t)) = t
                      /\ at'[Stands(t)] = "body" \/ (Stands(t) = t /\ at'[t] # "none")
                      /\ \A b \in Asyncs : ~(at[b] = "body" /\ continuation[b] = Stands(t))
    BY <1>1, <1>6, <1>9 DEF ResumesInnermost, Awaits, RootOf
  <2> QED BY <1>4, <1>5, <1>10, Names DEF FrameInv, ResumesInnermost, Awaits
<1>12. WayBack'
  <2>1. ASSUME NEW b \in Asyncs, at[b] = "body"
        PROVE  /\ continuation[b] \in Coroutines /\ at'[continuation[b]] = "body"
               /\ owner'[b] = continuation[b]
               /\ root[b] \in Tasks /\ RootOf(continuation[b]) = root[b]
    BY <1>9, <1>10, <2>1 DEF FrameInv, WayBack
  <2>2. \A b, e \in Asyncs, d \in Coroutines : Awaits(d, b) /\ Awaits(d, e) => b = e
    BY DEF FrameInv, WayBack
  <2>3. ASSUME NEW b \in Asyncs, NEW e \in Asyncs, NEW d \in Coroutines,
               Awaits(d, b)', Awaits(d, e)'
        PROVE  b = e
    <3>1. Awaits(d, b) /\ Awaits(d, e)
      BY <1>1, <1>9, <2>3 DEF Awaits
    <3> QED BY <2>2, <3>1
  <2>4. \A b \in Asyncs : at'[b] = "body" <=> at[b] = "body"
    BY <1>9
  <2>5. \A d : RootOf(d)' = RootOf(d)
    BY <1>1 DEF RootOf
  <2> QED BY <1>1, <2>1, <2>3, <2>4, <2>5 DEF WayBack
<1>13. \A v \in SyncTasks : v # w => at'[v] = at[v] /\ v # h /\ v \in Callers
  BY <1>3, <1>4, Names
<1>14. \A v \in SyncTasks : at[v] # "final" /\ serves[v] # Nobody => serves[v] # h
  BY <1>3 DEF FrameInv, SlotOutlives
<1>15. SlotOutlives'
  <2>1. ASSUME NEW v \in SyncTasks, serves'[v] # Nobody, at'[v] # "final"
        PROVE  slot'[serves'[v]] \in {"starting", "open"}
    <3>1. CASE v = w
      BY <1>4, <3>1
    <3>2. CASE v # w
      <4>1. serves[v] \in Callers /\ serves[v] # h
        BY <1>4, <1>13, <1>14, <2>1, <3>2 DEF FrameInv, FrameTypeOK
      <4> QED BY <1>4, <1>13, <2>1, <3>2, <4>1 DEF FrameInv, SlotOutlives
    <3> QED BY <3>1, <3>2
  <2>2. ASSUME NEW u \in SyncTasks, NEW v \in SyncTasks, serves'[u] # Nobody,
               serves'[u] = serves'[v], at'[u] # "final", at'[v] # "final"
        PROVE  u = v
    BY <1>4, <1>13, <1>14, <1>3, <2>2 DEF FrameInv, SlotOutlives
  <2>3. ASSUME NEW c \in Callers, slot'[c] \in {"starting", "open"}
        PROVE  \E v \in SyncTasks : serves'[v] = c /\ at'[v] # "final"
    <3>1. CASE c = h
      BY <1>4, <3>1
    <3>2. CASE c # h
      <4>1. PICK v \in SyncTasks : serves[v] = c /\ at[v] # "final"
        BY <1>4, <2>3, <3>2 DEF FrameInv, SlotOutlives
      <4>2. v # w
        BY <1>1, <4>1, Names DEF FrameInv, Serving, Callers
      <4> QED BY <1>4, <1>13, <4>1, <4>2
    <3> QED BY <3>1, <3>2
  <2>4. ASSUME NEW c \in Coroutines, slot'[c] # "none"  PROVE at'[c] = "body"
    BY <1>3, <1>4, <1>10, <2>4, Names DEF FrameInv, SlotOutlives
  <2> QED BY <2>1, <2>2, <2>3, <2>4 DEF SlotOutlives
<1>16. Standing'
  <2>1. ASSUME NEW t \in Tasks, state[t] # "Created"
        PROVE  \/ at'[Stands(t)] = "body"
               \/ Stands(t) = t /\ at'[t] = "initial" /\ state[t] = "Ready"
               \/ Stands(t) = t /\ at'[t] = "final" /\ state[t] = "Running" /\ t \in SyncTasks
    <3>1. t # w /\ t \in Coroutines /\ Stands(t) \in Coroutines
      BY <1>5, <2>1, Names DEF FrameInv, ResumesInnermost
    <3> QED BY <1>4, <1>10, <2>1, <3>1 DEF FrameInv, Standing
  <2>2. ASSUME NEW t \in Tasks, state[t] = "Created"  PROVE at'[t] \in {"none", "initial"}
    BY <1>4, <2>2, Names DEF FrameInv, Standing
  <2> QED BY <1>6, <2>1, <2>2 DEF Standing
<1>17. Holding'
  <2> SUFFICES ASSUME NEW e \in Coroutines \ SyncTasks, NEW d \in Coroutines, owner'[d] = e
               PROVE  at'[e] = "body"
    BY DEF Holding
  <2>1. CASE d = w
    BY <1>3, <1>4, <1>10, <2>1
  <2>2. CASE d = a
    BY <1>4, <2>2
  <2>3. CASE d # w /\ d # a
    BY <1>4, <1>10, <2>3 DEF FrameInv, Holding
  <2> QED BY <2>1, <2>2, <2>3
<1>18. Serving'
  <2> SUFFICES ASSUME NEW v \in SyncTasks
               PROVE  /\ at'[v] = "none" <=> serves'[v] = Nobody
                      /\ slot'[v] = "none"
                      /\ at'[v] # "none" /\ state[v] = "Created" =>
                            owner'[v] = serves'[v] /\ slot'[serves'[v]] = "starting"
                      /\ at'[v] # "none" /\ at'[v] # "final" /\ state[v] # "Created" =>
                            slot'[serves'[v]] = "open"
    BY <1>1 DEF Serving
  <2>1. v \in Callers /\ v # h /\ v \in Tasks /\ v # a
    BY <1>3, Names
  <2>2. slot'[v] = "none"
    BY <1>4, <2>1 DEF FrameInv, Serving
  <2>3. CASE v = w
    BY <1>3, <1>4, <1>5, <2>2, <2>3
  <2>4. CASE v # w
    <3>1. v \in Coroutines /\ at'[v] = at[v] /\ serves'[v] = serves[v] /\ owner'[v] = owner[v]
      BY <1>4, <1>13, <2>1, <2>4, Names
    <3>2. state[v] = "Created" => at[v] # "final"
      BY <2>1 DEF FrameInv, Standing
    <3>3. at[v] # "none" /\ at[v] # "final" =>
             /\ serves[v] # h /\ serves[v] \in Callers
      BY <1>14 DEF FrameInv, FrameTypeOK, Serving
    <3> QED BY <1>4, <2>2, <3>1, <3>2, <3>3 DEF FrameInv, Serving
  <2> QED BY <2>3, <2>4
<1> QED BY <1>7, <1>8, <1>11, <1>12, <1>15, <1>16, <1>17, <1>18 DEF FrameInv

\* The value is written for the caller that is still there.
LEMMA WriteSlotStep ==
    ASSUME IInv, FrameInv, NEW w \in SyncTasks, WriteSlot(w)
    PROVE  FrameInv'
<1>1. /\ HasProcessor /\ stack # <<>> /\ here = w /\ at[w] = "body"
      /\ slot' = [slot EXCEPT ![serves[w]] = "done"]
      /\ at' = [at EXCEPT ![w] = "final"]
      /\ UNCHANGED <<state, owner, continuation, root, resume_point, inner, serves>>
  BY DEF WriteSlot, kernelVars
<1>2. /\ current \in Tasks /\ state[current] = "Running" /\ w = Stands(current)
      /\ RootOf(w) = current /\ \A b \in Asyncs : ~Awaits(w, b)
      /\ \A t \in Tasks \ {current} : state[t] # "Created" => Stands(t) # w
      /\ w \in Tasks /\ w \in Coroutines /\ w \notin Asyncs
  BY <1>1, Here, Names
<1>3. current = w
  BY <1>2 DEF RootOf
<1>4. PICK c : c = serves[w]
  OBVIOUS
<1>5. c \in Callers /\ slot[c] = "open" /\ (c \in Coroutines => at[c] = "body")
      /\ c # w /\ c \notin SyncTasks
  <2>1. c # Nobody /\ slot[c] = "open"
    BY <1>1, <1>2, <1>3, <1>4 DEF FrameInv, Serving
  <2>2. c \in Callers
    BY <1>4, <2>1 DEF FrameInv, FrameTypeOK
  <2> QED BY <2>1, <2>2 DEF FrameInv, SlotOutlives, Serving
<1>6. /\ at'[w] = "final" /\ \A d \in Coroutines : d # w => at'[d] = at[d]
      /\ slot'[c] = "done" /\ \A d \in Callers : d # c => slot'[d] = slot[d]
  BY <1>1, <1>2, <1>4, <1>5 DEF FrameInv, FrameTypeOK
<1>7. \A t \in Tasks : Stands(t)' = Stands(t)
  BY <1>1 DEF Stands
<1>8. \A b \in Asyncs : at'[b] = at[b]
  BY <1>2, <1>6, Names
<1>9. FrameTypeOK'
  BY <1>1 DEF FrameInv, FrameTypeOK
<1>10. FramesOwned'
  BY <1>1, <1>2, <1>6 DEF FrameInv, FramesOwned
<1>11. ResumesInnermost'
  <2> SUFFICES ASSUME NEW t \in Tasks, state[t] # "Created"
               PROVE  /\ Stands(t) \in Coroutines /\ RootOf(Stands(t)) = t
                      /\ at'[Stands(t)] = "body" \/ (Stands(t) = t /\ at'[t] # "none")
                      /\ \A b \in Asyncs : ~(at[b] = "body" /\ continuation[b] = Stands(t))
    BY <1>1, <1>7, <1>8 DEF ResumesInnermost, Awaits, RootOf
  <2>1. /\ Stands(t) \in Coroutines /\ RootOf(Stands(t)) = t
        /\ at[Stands(t)] = "body" \/ (Stands(t) = t /\ at[t] # "none")
        /\ \A b \in Asyncs : ~(at[b] = "body" /\ continuation[b] = Stands(t))
    BY DEF FrameInv, ResumesInnermost, Awaits
  <2> QED BY <1>2, <1>3, <1>6, <2>1, Names
<1>12. WayBack'
  <2>1. ASSUME NEW b \in Asyncs, at[b] = "body"
        PROVE  /\ continuation[b] \in Coroutines /\ at'[continuation[b]] = "body"
               /\ owner[b] = continuation[b]
               /\ root[b] \in Tasks /\ RootOf(continuation[b]) = root[b]
    <3>1. continuation[b] # w
      BY <1>2, <2>1 DEF Awaits
    <3> QED BY <1>6, <2>1, <3>1 DEF FrameInv, WayBack
  <2>2. \A b, e \in Asyncs, d \in Coroutines : Awaits(d, b) /\ Awaits(d, e) => b = e
    BY DEF FrameInv, WayBack
  <2> QED BY <1>1, <1>8, <2>1, <2>2 DEF WayBack, Awaits, RootOf
<1>13. \A v \in SyncTasks : /\ v # w => at'[v] = at[v]
                            /\ v \in Callers /\ v \in Tasks
  BY <1>6, Names
<1>14. \A v \in SyncTasks : v # w /\ serves[v] = c => at[v] = "final"
  BY <1>1, <1>4, <1>5, Names DEF FrameInv, SlotOutlives, Callers
<1>15. SlotOutlives'
  <2>1. ASSUME NEW v \in SyncTasks, serves[v] # Nobody, at'[v] # "final"
        PROVE  slot'[serves[v]] \in {"starting", "open"}
    <3>1. v # w /\ at[v] # "final" /\ serves[v] # c /\ serves[v] \in Callers
      BY <1>6, <1>13, <1>14, <2>1 DEF FrameInv, FrameTypeOK
    <3> QED BY <1>6, <2>1, <3>1 DEF FrameInv, SlotOutlives
  <2>2. ASSUME NEW u \in SyncTasks, NEW v \in SyncTasks, serves[u] # Nobody,
               serves[u] = serves[v], at'[u] # "final", at'[v] # "final"
        PROVE  u = v
    BY <1>6, <1>13, <2>2 DEF FrameInv, SlotOutlives
  <2>3. ASSUME NEW d \in Callers, slot'[d] \in {"starting", "open"}
        PROVE  \E v \in SyncTasks : serves[v] = d /\ at'[v] # "final"
    <3>1. d # c
      BY <1>6, <2>3
    <3>2. PICK v \in SyncTasks : serves[v] = d /\ at[v] # "final"
      BY <1>6, <2>3, <3>1 DEF FrameInv, SlotOutlives
    <3> QED BY <1>4, <1>13, <3>1, <3>2
  <2>4. ASSUME NEW d \in Coroutines, slot'[d] # "none"  PROVE at'[d] = "body"
    <3>1. slot[d] # "none" /\ d \in Callers
      BY <1>5, <1>6, <2>4, Names
    <3>2. d # w
      BY <3>1 DEF FrameInv, Serving
    <3> QED BY <1>6, <3>1, <3>2 DEF FrameInv, SlotOutlives
  <2> QED BY <1>1, <2>1, <2>2, <2>3, <2>4 DEF SlotOutlives
<1>16. Standing'
  <2>1. ASSUME NEW t \in Tasks
        PROVE  /\ state[t] # "Created" =>
                     \/ at'[Stands(t)] = "body"
                     \/ Stands(t) = t /\ at'[t] = "initial" /\ state[t] = "Ready"
                     \/ Stands(t) = t /\ at'[t] = "final" /\ state[t] = "Running"
                        /\ t \in SyncTasks
               /\ state[t] = "Created" => at'[t] \in {"none", "initial"}
    <3>1. t \in Coroutines /\ (state[t] # "Created" => Stands(t) \in Coroutines)
      BY Names DEF FrameInv, ResumesInnermost
    <3>2. CASE t = w
      BY <1>2, <1>3, <1>6, <3>2
    <3>3. CASE t # w
      BY <1>2, <1>3, <1>6, <3>1, <3>3 DEF FrameInv, Standing
    <3> QED BY <3>2, <3>3
  <2> QED BY <1>1, <1>7, <2>1 DEF Standing
<1>17. Holding'
  BY <1>1, <1>6 DEF FrameInv, Holding
<1>18. Serving'
  <2> SUFFICES ASSUME NEW v \in SyncTasks
               PROVE  /\ at'[v] = "none" <=> serves[v] = Nobody
                      /\ slot'[v] = "none"
                      /\ at'[v] # "none" /\ state[v] = "Created" =>
                            owner[v] = serves[v] /\ slot'[serves[v]] = "starting"
                      /\ at'[v] # "none" /\ at'[v] # "final" /\ state[v] # "Created" =>
                            slot'[serves[v]] = "open"
    BY <1>1 DEF Serving
  <2>1. slot'[v] = "none"
    BY <1>5, <1>6, <1>13 DEF FrameInv, Serving
  <2>2. CASE v = w
    BY <1>1, <1>2, <1>3, <1>6, <2>1, <2>2 DEF FrameInv, Serving
  <2>3. CASE v # w
    <3>1. at'[v] = at[v] /\ v \in Tasks
      BY <1>13, <2>3
    <3>2. state[v] = "Created" => at[v] # "final"
      BY <3>1 DEF FrameInv, Standing
    <3>3. at[v] # "none" /\ at[v] # "final" => serves[v] # c /\ serves[v] \in Callers
      BY <1>14, <2>3 DEF FrameInv, FrameTypeOK, Serving
    <3> QED BY <1>6, <2>1, <3>1, <3>2, <3>3 DEF FrameInv, Serving
  <2> QED BY <2>2, <2>3
<1> QED BY <1>9, <1>10, <1>11, <1>12, <1>15, <1>16, <1>17, <1>18 DEF FrameInv

\* The caller takes the value: no task has the address of its slot any more.
LEMMA SyncReturnStep ==
    ASSUME IInv, FrameInv, SyncReturn
    PROVE  FrameInv'
<1>1. /\ HasProcessor /\ slot[here] = "done" /\ slot' = [slot EXCEPT ![here] = "none"]
      /\ UNCHANGED <<state, at, owner, continuation, root, resume_point, inner, serves>>
  BY DEF SyncReturn, frames, kernelVars
<1>2. PICK h : h = here
  OBVIOUS
<1>3. /\ h \in Callers /\ slot[h] = "done" /\ slot'[h] = "none"
      /\ \A c \in Callers : c # h => slot'[c] = slot[c]
  BY <1>1, <1>2, Here DEF FrameInv, FrameTypeOK
<1>4. \A t \in Tasks : Stands(t)' = Stands(t)
  BY <1>1 DEF Stands
<1>5. FrameTypeOK'
  BY <1>1 DEF FrameInv, FrameTypeOK
<1>6. FramesOwned' /\ Holding'
  BY <1>1 DEF FrameInv, FramesOwned, Holding
<1>7. WayBack'
  BY <1>1 DEF FrameInv, WayBack, Awaits, RootOf
<1>8. ResumesInnermost'
  BY <1>1, <1>4 DEF FrameInv, ResumesInnermost, Awaits, RootOf
<1>9. Standing'
  BY <1>1, <1>4 DEF FrameInv, Standing
<1>10. \A v \in SyncTasks : /\ serves[v] # Nobody => serves[v] \in Callers
                            /\ v \in Callers
  BY Names DEF FrameInv, FrameTypeOK
<1>11. SlotOutlives'
  <2>1. \A v \in SyncTasks : serves[v] # Nobody /\ at[v] # "final" =>
           slot'[serves[v]] \in {"starting", "open"}
    BY <1>3, <1>10 DEF FrameInv, SlotOutlives
  <2>2. \A c \in Callers : slot'[c] \in {"starting", "open"} => slot[c] \in {"starting", "open"}
    BY <1>3
  <2>3. \A c \in Coroutines : slot'[c] # "none" => slot[c] # "none"
    BY <1>3, Names
  <2> QED BY <1>1, <2>1, <2>2, <2>3 DEF FrameInv, SlotOutlives
<1>12. Serving'
  <2> SUFFICES ASSUME NEW v \in SyncTasks
               PROVE  /\ at[v] = "none" <=> serves[v] = Nobody
                      /\ slot'[v] = "none"
                      /\ at[v] # "none" /\ state[v] = "Created" =>
                            owner[v] = serves[v] /\ slot'[serves[v]] = "starting"
                      /\ at[v] # "none" /\ at[v] # "final" /\ state[v] # "Created" =>
                            slot'[serves[v]] = "open"
    BY <1>1 DEF Serving
  <2>1. \A c \in Callers : slot[c] # "done" => slot'[c] = slot[c]
    BY <1>3
  <2> QED BY <1>10, <2>1 DEF FrameInv, Serving
<1> QED BY <1>5, <1>6, <1>7, <1>8, <1>9, <1>11, <1>12 DEF FrameInv

-----------------------------------------------------------------------------
(* The frames and the scheduler together *)

\* Frames stay where they are while the processor changes hands.
LEMMA CalmLibraryStep ==
    ASSUME IInv, FrameInv, PendSV \/ ScanEmpty \/ Return,
           UNCHANGED <<frames, resume_point, inner, calls>>
    PROVE  FrameInv'
<1>1. \A t \in Tasks : state'[t] = state[t]
  BY DEF PendSV, ScanEmpty, Return
<1> QED BY <1>1, CalmStep

LEMMA EventStep ==
    ASSUME IInv, FrameInv, NEW t \in Tasks, Event(t)
    PROVE  FrameInv'
<1>1. PICK l \in Lists : WakeWaiter(l, t)
  BY DEF Event
<1>2. state[t] = "Blocked"
  BY <1>1, Waiting DEF IInv, WakeWaiter
<1>3. state' = [state EXCEPT ![t] = "Ready"]
  BY <1>1, <1>2 DEF WakeWaiter, Wake, MakeReady
<1>4. \A u \in Tasks : state'[u] = state[u] \/ (state[u] = "Blocked" /\ state'[u] = "Ready")
  BY <1>2, <1>3 DEF IInv, TypeOK
<1>5. UNCHANGED <<frames, resume_point, inner, calls>>
  BY DEF Event
<1> QED BY <1>4, <1>5, CalmStep

\* Every step of the frames is a step of the scheduler, or changes nothing of
\* it.
LEMMA StepsOfKernel ==
    ASSUME FrameNext
    PROVE  Next \/ UNCHANGED kernelVars
<1>1. CASE Client
  <2>1. CASE \E t \in Tasks, p \in Priority : StartTask(t, p)
    <3>1. PICK t \in Tasks, p \in Priority : Start(t, p)
      BY <2>1 DEF StartTask
    <3>2. p \in 0 .. NUM_PRIORITIES
      BY KernelAssumption DEF Priority
    <3> QED BY <3>1, <3>2 DEF Next, Background
  <2> QED BY <1>1, <2>1 DEF Client, Create, Drop, SyncWait, Await
<1>2. CASE \E c \in Coroutines \ SyncTasks : Ends(c) \/ Rests(c)
  <2>1. CoReturn \/ FinishTask \/ Suspend
    BY <1>2 DEF Ends, Rests
  <2>2. CoReturn => UNCHANGED kernelVars
    BY DEF CoReturn
  <2>3. FinishTask => Finish
    BY DEF FinishTask
  <2>4. ASSUME NEW l \in Lists, Block(l, NoTimeout)  PROVE Next
    BY <2>4 DEF Next, Timeouts
  <2> QED BY <2>1, <2>2, <2>3, <2>4 DEF Suspend, Next, Background
<1>3. CASE \E t \in Tasks : Event(t)
  BY <1>3 DEF Event, Next
<1>4. CASE Library
  <2>1. SyncTask => Finish \/ UNCHANGED kernelVars
    BY DEF SyncTask, Await, DropArgument, WriteSlot, FinishTask
  <2>2. ASSUME NEW w \in SyncTasks, NEW p \in Priority, SyncStart(w, p)  PROVE Next
    <3>1. Start(w, p) /\ w \in Tasks /\ p \in 0 .. NUM_PRIORITIES
      BY <2>2, Names, KernelAssumption DEF SyncStart, Priority
    <3> QED BY <3>1 DEF Next, Background
  <2>3. SyncReturn => UNCHANGED kernelVars
    BY DEF SyncReturn
  <2>4. FrameDispatch => RunOne \/ Scan
    BY DEF FrameDispatch
  <2> QED BY <1>4, <2>1, <2>2, <2>3, <2>4 DEF Library, Next, Background, Dispatch
<1> QED BY <1>1, <1>2, <1>3, <1>4 DEF FrameNext

LEMMA FrameInitInv == FrameInit => FrameInv
<1> SUFFICES ASSUME FrameInit  PROVE FrameInv
  OBVIOUS
<1>1. /\ at = [c \in Coroutines |-> "none"] /\ owner = [c \in Coroutines |-> Nobody]
      /\ continuation = [a \in Asyncs |-> Nobody] /\ root = [a \in Asyncs |-> Nobody]
      /\ resume_point = [t \in Tasks |-> Nobody] /\ inner = [t \in Tasks |-> Nobody]
      /\ serves = [w \in SyncTasks |-> Nobody] /\ slot = [c \in Callers |-> "none"]
      /\ state = [t \in Tasks |-> "Created"]
  BY DEF FrameInit, Init
<1>2. FrameTypeOK
  BY <1>1 DEF FrameTypeOK
<1>3. FramesOwned /\ Holding
  BY <1>1, Names DEF FramesOwned, Holding
<1>4. ResumesInnermost /\ WayBack
  BY <1>1, Names DEF ResumesInnermost, WayBack, Awaits
<1>5. SlotOutlives
  BY <1>1, Names DEF SlotOutlives
<1>6. Standing /\ Serving
  BY <1>1, Names DEF Standing, Serving
<1> QED BY <1>2, <1>3, <1>4, <1>5, <1>6 DEF FrameInv

LEMMA FrameNextInv ==
    ASSUME IInv, FrameInv, [FrameNext]_frameVars
    PROVE  FrameInv'
<1>1. CASE UNCHANGED frameVars
  <2>1. /\ UNCHANGED <<frames, resume_point, inner, calls>>
        /\ \A t \in Tasks : state'[t] = state[t]
    BY <1>1 DEF frameVars, kernelVars
  <2> QED BY <2>1, CalmStep
<1>2. CASE Client
  <2>1. ASSUME NEW c \in Coroutines \ SyncTasks, Create(c)  PROVE FrameInv'
    BY <2>1, CreateStep
  <2>2. ASSUME NEW c \in Coroutines, Drop(c)  PROVE FrameInv'
    BY <2>2, DropStep
  <2>3. ASSUME NEW t \in Tasks, NEW p \in Priority, StartTask(t, p)  PROVE FrameInv'
    BY <2>3, StartTaskStep
  <2>4. ASSUME NEW a \in Asyncs, NEW w \in SyncTasks, SyncWait(a, w)  PROVE FrameInv'
    BY <1>2, <2>4, SyncWaitStep DEF Client
  <2>5. ASSUME NEW a \in Asyncs, Await(a)  PROVE FrameInv'
    BY <2>5, AwaitStep
  <2> QED BY <1>2, <2>1, <2>2, <2>3, <2>4, <2>5 DEF Client
<1>3. CASE SyncTask
  <2>1. ASSUME NEW a \in Asyncs, Await(a)  PROVE FrameInv'
    BY <2>1, AwaitStep
  <2>2. ASSUME NEW a \in Asyncs, DropArgument(a)  PROVE FrameInv'
    BY <2>2, DropArgumentStep
  <2>3. ASSUME NEW w \in SyncTasks, WriteSlot(w)  PROVE FrameInv'
    BY <2>3, WriteSlotStep
  <2>4. CASE FinishTask
    BY <2>4, FinishTaskStep
  <2> QED BY <1>3, <2>1, <2>2, <2>3, <2>4 DEF SyncTask
<1>4. CASE Library
  <2>1. ASSUME NEW w \in SyncTasks, NEW p \in Priority, SyncStart(w, p)  PROVE FrameInv'
    BY <2>1, SyncStartStep
  <2>2. CASE SyncReturn
    BY <2>2, SyncReturnStep
  <2>3. CASE FrameDispatch
    BY <2>3, FrameDispatchStep
  <2>4. CASE (PendSV \/ ScanEmpty \/ Return) /\ UNCHANGED <<frames, resume_point, inner, calls>>
    BY <2>4, CalmLibraryStep
  <2> QED BY <1>3, <1>4, <2>1, <2>2, <2>3, <2>4 DEF Library
<1>5. CASE \E c \in Coroutines \ SyncTasks : Ends(c) \/ Rests(c)
  <2>1. CoReturn \/ FinishTask \/ Suspend
    BY <1>5 DEF Ends, Rests
  <2> QED BY <2>1, CoReturnStep, FinishTaskStep, SuspendStep
<1>6. ASSUME NEW t \in Tasks, Event(t)  PROVE FrameInv'
  BY <1>6, EventStep
<1> QED BY <1>1, <1>2, <1>4, <1>5, <1>6 DEF FrameNext

-----------------------------------------------------------------------------
(* Theorems *)

\* Tasks, Asyncs and sync_wait() drive the scheduler as its own specification
\* allows: every behaviour of the frames is one of module Kernel.
THEOREM FramesOnKernel == FrameSpec => Spec
<1>1. FrameInit => Init
  BY DEF FrameInit
<1>2. [FrameNext]_frameVars => [Next]_kernelVars
  BY StepsOfKernel DEF frameVars
<1> QED BY <1>1, <1>2, PTL DEF FrameSpec, Spec

\* The invariant of the frames and of the scheduler below them.
THEOREM FrameInvariance == FrameSpec => [](IInv /\ FrameInv)
<1>1. FrameInit => FrameInv
  BY FrameInitInv
<1>2. IInv /\ FrameInv /\ [FrameNext]_frameVars => FrameInv'
  BY FrameNextInv
<1> QED BY <1>1, <1>2, FramesOnKernel, Invariance, PTL DEF FrameSpec

\* No frame is destroyed while the scheduler or a coroutine still needs it, and
\* none is forgotten: each has one owner, who is there.
THEOREM EveryFrameIsOwned == FrameSpec => []FramesOwned
<1>1. FrameInv => FramesOwned
  BY DEF FrameInv
<1> QED BY <1>1, FrameInvariance, PTL

\* The scheduler resumes the innermost coroutine of the task that it took from
\* the ready list, however deep the task has awaited.
THEOREM InnermostIsResumed == FrameSpec => []ResumesInnermost
<1>1. FrameInv => ResumesInnermost
  BY DEF FrameInv
<1> QED BY <1>1, FrameInvariance, PTL

\* FinalAwaiter of an Async always finds a live coroutine of the same task that
\* waits for it.
THEOREM WayBackIsAlive == FrameSpec => []WayBack
<1>1. FrameInv => WayBack
  BY DEF FrameInv
<1> QED BY <1>1, FrameInvariance, PTL

\* The task that sync_wait() starts writes into a slot that is still there.
THEOREM SlotIsThere == FrameSpec => []SlotOutlives
<1>1. FrameInv => SlotOutlives
  BY DEF FrameInv
<1> QED BY <1>1, FrameInvariance, PTL
=============================================================================
