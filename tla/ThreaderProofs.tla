--------------------------- MODULE ThreaderProofs ---------------------------
(***************************************************************************)
(* Proofs about Threader, for any media, any queue sizes and any clients.  *)
(* Handover says which thread may touch what and holds for every setup,    *)
(* the failing ones included.  Control and Cached say, for the setups that *)
(* are Sound, how a call stands to the state of the worker, and what the   *)
(* cache holds: frames on the client's grid, with no gap between the       *)
(* client's frame and the one to be read next.                             *)
(***************************************************************************)
EXTENDS Threader, SequenceTheorems, FiniteSetTheorems, TLAPS

Steps == {"active", "start", "pause", "stop", "running", "paused", "dead",
          "queue", "destroyed"}

StateTypes ==
  /\ {state, newState} \subseteq {"dead", "running", "paused"}
  /\ error \in BOOLEAN

ClientTypes ==
  /\ main \in {"idle", "busy", "applying", "fetching", "destroyed"}
  /\ todo \in Seq(Steps)
  /\ signal \in BOOLEAN

SettingTypes ==
  /\ asked \in [active : {0} \cup setup.actives, queue : {setup.queue} \cup setup.queues]
  /\ active \in {0} \cup setup.actives /\ queue \in {setup.queue} \cup setup.queues
  /\ input \in {"safe"} \cup setup.inputs
  /\ safe \in BOOLEAN

PlaceTypes ==
  /\ position \in Int /\ speed \in Int /\ lastPosition \in Int
  /\ frames \in 0..Longest

MediaTypes ==
  /\ setup \in Setups
  /\ count \in 0..Longest
  /\ due \in BOOLEAN
  /\ length \in setup.lengths

ThreadTypes ==
  /\ worker \in {"none", "begin", "top", "look", "fill", "prefetch", "sync",
                 "fetch", "waiting", "woken", "ended", "two"}
  /\ cache \subseteq 0..Longest-1
  /\ local \in [position : Int, speed : Int, prefetch : Int, full : BOOLEAN]

Types ==
  /\ StateTypes /\ ClientTypes /\ SettingTypes
  /\ PlaceTypes /\ MediaTypes /\ ThreadTypes

\* The worker's pcs between accepting "running" and looking for a new state.
AtWork == {"sync", "look", "fill", "prefetch", "fetch"}

\* Who may touch what.
Handover ==
  /\ main \in {"idle", "fetching", "destroyed"} => todo = <<>>
  /\ \A i \in 1..Len(todo) : todo[i] \in {"running", "paused", "dead"} => safe
  /\ main # "applying" => (state = "running" <=> newState = "running")
  /\ ~safe => state # "running" /\ newState # "running"
  /\ worker \in AtWork => state = "running"
  /\ state = "running" /\ ~error => worker \notin {"none", "ended"}
  /\ worker = "waiting" /\ state = "running" => position \in cache
  /\ main = "fetching" => state = "running"
  /\ main = "fetching" /\ ~signal => position \notin cache /\ ~error
  /\ worker = "fetch" => local.prefetch \in 0..count-1

-----------------------------------------------------------------------------
(* Types and Handover, for every setup.                                    *)

\* The steps of a call: what is left of it after the first, and after a step
\* is replaced by others.
LEMMA Todo ==
  ASSUME todo \in Seq(Steps), todo # <<>>
  PROVE  /\ Head(todo) \in Steps /\ Head(todo) = todo[1]
         /\ Tail(todo) \in Seq(Steps)
         /\ Len(Tail(todo)) = Len(todo) - 1
         /\ \A i \in 1..Len(Tail(todo)) : Tail(todo)[i] = todo[i + 1]
         /\ \A s \in Steps :
              /\ <<s>> \o Tail(todo) \in Seq(Steps)
              /\ Len(<<s>> \o Tail(todo)) = Len(todo)
              /\ \A i \in 1..Len(todo) :
                   (<<s>> \o Tail(todo))[i] = IF i = 1 THEN s ELSE todo[i]
<1>1. /\ Head(todo) \in Steps /\ Head(todo) = todo[1]
      /\ Tail(todo) \in Seq(Steps)
      /\ Len(todo) \in Nat /\ Len(todo) # 0
      /\ Len(Tail(todo)) = Len(todo) - 1
      /\ \A i \in 1..Len(Tail(todo)) : Tail(todo)[i] = todo[i + 1]
  BY HeadTailProperties, EmptySeq, LenProperties
<1>2. ASSUME NEW s \in Steps
      PROVE  /\ <<s>> \o Tail(todo) \in Seq(Steps)
             /\ Len(<<s>> \o Tail(todo)) = Len(todo)
             /\ \A i \in 1..Len(todo) :
                  (<<s>> \o Tail(todo))[i] = IF i = 1 THEN s ELSE todo[i]
  <2>1. <<s>> \in Seq(Steps) /\ Len(<<s>>) = 1 /\ <<s>>[1] = s
    OBVIOUS
  <2> QED BY <1>1, <2>1, ConcatProperties
<1> QED BY <1>1, <1>2

\* A setup has the fields and the bounds of the assumption.
LEMMA SetupTypes ==
  ASSUME setup \in Setups
  PROVE  /\ Longest \in Nat
         /\ setup.targets \subseteq Int /\ setup.offsets \subseteq Int
         /\ setup.lengths \subseteq 1..Longest
         /\ {setup.queue} \cup setup.queues \subseteq 0..Longest
BY ThreaderAssumption

\* The initial state.
LEMMA HandoverInit == Init => Types /\ Handover
<1> SUFFICES ASSUME Init PROVE Types /\ Handover
  OBVIOUS
<1>1. Types
  <2>1. length \in 1..Longest /\ Longest \in Nat
    BY SetupTypes DEF Init
  <2>2. frames \in 0..Longest /\ count \in 0..Longest
    BY <2>1 DEF Init
  <2>3. local \in [position : Int, speed : Int, prefetch : Int, full : BOOLEAN]
    BY DEF Init, Fresh
  <2>4. todo \in Seq(Steps)
    BY EmptySeq DEF Init
  <2>5. asked \in [active : {0} \cup setup.actives, queue : {setup.queue} \cup setup.queues]
    BY DEF Init
  <2>6. error \in BOOLEAN /\ signal \in BOOLEAN /\ safe \in BOOLEAN /\ due \in BOOLEAN
    BY DEF Init
  <2>7. /\ setup \in Setups
        /\ length \in setup.lengths
        /\ active = 0 /\ queue = setup.queue /\ input = "safe"
        /\ state = "dead" /\ newState = "dead" /\ main = "idle" /\ worker = "none"
        /\ position = 0 /\ speed = 1 /\ lastPosition = -1 /\ cache = {}
    BY DEF Init
  <2> QED BY <2>2, <2>3, <2>4, <2>5, <2>6, <2>7 DEF Types, StateTypes,
       ClientTypes, SettingTypes, PlaceTypes, MediaTypes, ThreadTypes
<1>2. Handover
  BY DEF Init, Handover, AtWork
<1> QED BY <1>1, <1>2

\* Every step keeps the types, whatever fails.
LEMMA TypesStep ==
  ASSUME Types, Handover, [Next]_vars
  PROVE  Types'
<1>0. /\ <<"active">> \in Seq(Steps) /\ <<"pause", "queue", "active">> \in Seq(Steps)
      /\ <<"stop", "destroyed">> \in Seq(Steps) /\ <<>> \in Seq(Steps)
  BY EmptySeq DEF Steps
<1>a. ASSUME todo # <<>>
      PROVE  /\ Tail(todo) \in Seq(Steps)
             /\ \A s \in Steps : <<s>> \o Tail(todo) \in Seq(Steps)
  BY <1>a, Todo DEF Types, ClientTypes
\* what an action leaves alone keeps its type
<1>b. /\ UNCHANGED control => StateTypes'
      /\ UNCHANGED client => ClientTypes'
      /\ UNCHANGED <<setup, settings>> => SettingTypes'
      /\ UNCHANGED place => PlaceTypes'
      /\ UNCHANGED media => MediaTypes'
      /\ UNCHANGED thread => ThreadTypes'
  BY DEF Types, StateTypes, ClientTypes, SettingTypes, PlaceTypes, MediaTypes,
         ThreadTypes, control, client, settings, place, media, thread
<1>c. UNCHANGED media => UNCHANGED setup
  BY DEF media
<1>d. /\ StateTypes /\ ClientTypes /\ SettingTypes
      /\ PlaceTypes /\ MediaTypes /\ ThreadTypes
  BY DEF Types
<1>e. SUFFICES /\ StateTypes' /\ ClientTypes' /\ SettingTypes'
               /\ PlaceTypes' /\ MediaTypes' /\ ThreadTypes'
  BY DEF Types
<1>1. CASE \E p \in setup.targets : Seek(p, FALSE)
  <2>1. UNCHANGED <<control, client, settings, media>>
    BY <1>1 DEF Seek
  <2>2. PlaceTypes'
    BY <1>1, <1>d, SetupTypes DEF Seek, Clamped, NotifyWorker, PlaceTypes,
       MediaTypes
  <2>3. ThreadTypes'
    BY <1>1, <1>d DEF Seek, Clamped, NotifyWorker, ThreadTypes
  <2> QED BY <1>b, <1>c, <2>1, <2>2, <2>3
<1>2. CASE \E p \in setup.offsets : Seek(p, TRUE)
  <2>1. UNCHANGED <<control, client, settings, media>>
    BY <1>2 DEF Seek
  <2>2. PlaceTypes'
    BY <1>2, <1>d, SetupTypes DEF Seek, Clamped, NotifyWorker, PlaceTypes,
       MediaTypes
  <2>3. ThreadTypes'
    BY <1>2, <1>d DEF Seek, Clamped, NotifyWorker, ThreadTypes
  <2> QED BY <1>b, <1>c, <2>1, <2>2, <2>3
<1>3. CASE Rethrow
  <2>1. UNCHANGED <<client, settings, place, media>>
    BY <1>3 DEF Rethrow
  <2>2. StateTypes'
    BY <1>3, <1>d DEF Rethrow, ConsumeError, StateTypes
  <2>3. ThreadTypes'
    BY <1>3, <1>d DEF Rethrow, ConsumeError, ThreadTypes
  <2> QED BY <1>b, <1>c, <2>1, <2>2, <2>3
<1>4. CASE Sync
  <2>1. UNCHANGED <<control, client, settings, thread>> /\ UNCHANGED setup
    BY <1>4 DEF Sync
  <2>2. PlaceTypes'
    BY <1>4, <1>d, SetupTypes DEF Sync, PlaceTypes, MediaTypes
  <2>3. MediaTypes'
    BY <1>4, <1>d, SetupTypes DEF Sync, MediaTypes, PlaceTypes
  <2> QED BY <1>b, <2>1, <2>2, <2>3
<1>5. CASE Shrink
  <2>1. UNCHANGED <<control, client, settings, thread>> /\ UNCHANGED setup
    BY <1>5 DEF Shrink
  <2>2. PlaceTypes'
    BY <1>5, <1>d, SetupTypes DEF Shrink, PlaceTypes, MediaTypes
  <2>3. MediaTypes'
    BY <1>5, <1>d, SetupTypes DEF Shrink, MediaTypes, PlaceTypes
  <2> QED BY <1>b, <2>1, <2>2, <2>3
<1>6. CASE FetchDirectly
  <2>1. UNCHANGED <<control, settings, place, media, thread>>
    BY <1>6 DEF FetchDirectly
  <2>2. ClientTypes'
    BY <1>6, <1>d, <1>0 DEF FetchDirectly, ClientTypes
  <2> QED BY <1>b, <1>c, <2>1, <2>2
<1>7. CASE FetchAhead
  <2>1. UNCHANGED <<control, settings, place, media, thread>>
    BY <1>7 DEF FetchAhead
  <2>2. ClientTypes'
    BY <1>7, <1>d DEF FetchAhead, ClientTypes
  <2> QED BY <1>b, <1>c, <2>1, <2>2
<1>8. CASE \E i \in setup.inputs : Connect(i)
  <2>1. UNCHANGED <<control, client, place, media, thread>>
    BY <1>8 DEF Connect
  <2>2. SettingTypes'
    BY <1>8, <1>d DEF Connect, SettingTypes, media
  <2> QED BY <1>b, <2>1, <2>2
<1>9. CASE \E a \in setup.actives : SetActive(a)
  <2>1. UNCHANGED <<control, place, media, thread>>
    BY <1>9 DEF SetActive
  <2>2. ClientTypes'
    BY <1>9, <1>d, <1>0 DEF SetActive, ClientTypes
  <2>3. SettingTypes'
    BY <1>9, <1>d DEF SetActive, SettingTypes, media
  <2> QED BY <1>b, <2>1, <2>2, <2>3
<1>10. CASE \E q \in setup.queues : SetQueue(q)
  <2>1. UNCHANGED <<control, place, media, thread>>
    BY <1>10 DEF SetQueue
  <2>2. ClientTypes'
    BY <1>10, <1>d, <1>0 DEF SetQueue, ClientTypes
  <2>3. SettingTypes'
    BY <1>10, <1>d DEF SetQueue, SettingTypes, media
  <2> QED BY <1>b, <2>1, <2>2, <2>3
<1>11. CASE Destroy
  <2>1. UNCHANGED <<control, settings, place, media, thread>>
    BY <1>11 DEF Destroy
  <2>2. ClientTypes'
    BY <1>11, <1>d, <1>0 DEF Destroy, ClientTypes
  <2> QED BY <1>b, <1>c, <2>1, <2>2
<1>12. CASE UpdateActive
  <2>1. UNCHANGED <<place, media, thread>> /\ todo # <<>>
    BY <1>12 DEF UpdateActive, Busy
  <2>2. /\ Tail(todo) \in Seq(Steps)
        /\ <<"start">> \o Tail(todo) \in Seq(Steps)
        /\ <<"pause">> \o Tail(todo) \in Seq(Steps)
    BY <2>1, <1>a DEF Steps
  <2>3. todo' \in Seq(Steps)
    BY <1>12, <2>2 DEF UpdateActive
  <2>4. ClientTypes'
    BY <1>12, <1>d, <2>3 DEF UpdateActive, ClientTypes
  <2>5. StateTypes'
    BY <1>12, <1>d DEF UpdateActive, StateTypes
  <2>6. SettingTypes'
    BY <1>12, <1>d DEF UpdateActive, SettingTypes, media
  <2> QED BY <1>b, <2>1, <2>4, <2>5, <2>6
<1>13. CASE UpdateQueue
  <2>1. UNCHANGED <<control, place, media, thread>> /\ todo # <<>>
    BY <1>13 DEF UpdateQueue, Busy
  <2>2. todo' = Tail(todo) /\ UNCHANGED <<main, signal>>
    BY <1>13 DEF UpdateQueue
  <2>3. ClientTypes'
    BY <1>a, <1>d, <2>1, <2>2 DEF ClientTypes
  <2>4. SettingTypes'
    BY <1>13, <1>d DEF UpdateQueue, SettingTypes, media
  <2> QED BY <1>b, <2>1, <2>3, <2>4
<1>14. CASE CheckError
  <2>1. UNCHANGED <<client, settings, place, media>>
    BY <1>14 DEF CheckError
  <2>2. StateTypes'
    BY <1>14, <1>d DEF CheckError, ConsumeError, StateTypes
  <2>3. ThreadTypes'
    BY <1>14, <1>d DEF CheckError, ConsumeError, ThreadTypes
  <2> QED BY <1>b, <1>c, <2>1, <2>2, <2>3
<1>15. CASE NothingToChange
  <2>1. UNCHANGED <<control, settings, place, media, thread>> /\ todo # <<>>
    BY <1>15 DEF NothingToChange, Busy
  <2>2. todo' = Tail(todo) /\ UNCHANGED <<main, signal>>
    BY <1>15 DEF NothingToChange
  <2>3. ClientTypes'
    BY <1>a, <1>d, <2>1, <2>2 DEF ClientTypes
  <2> QED BY <1>b, <1>c, <2>1, <2>3
<1>16. CASE CreateThread
  <2>1. UNCHANGED <<control, settings, place, media>> /\ todo # <<>>
    BY <1>16 DEF CreateThread, Busy
  <2>2. /\ todo' = <<"running">> \o Tail(todo) \/ todo' = todo
        /\ UNCHANGED <<main, signal>>
    BY <1>16 DEF CreateThread
  <2>3. ClientTypes'
    BY <1>a, <1>d, <2>1, <2>2 DEF ClientTypes, Steps
  <2>4. ThreadTypes'
    BY <1>16, <1>d DEF CreateThread, ThreadTypes
  <2> QED BY <1>b, <1>c, <2>1, <2>3, <2>4
<1>17. CASE ChooseState
  <2>1. UNCHANGED <<control, settings, place, media, thread>> /\ todo # <<>>
    BY <1>17 DEF ChooseState, Busy
  <2>2. Tail(todo) \in Seq(Steps) /\ \A s \in Steps : <<s>> \o Tail(todo) \in Seq(Steps)
    BY <1>a, <2>1
  <2>3. todo' \in Seq(Steps)
    <3>1. CASE ~Busy("pause") \/ state # "dead"
      <4>1. \E s \in {"running", "paused", "dead"} : todo' = <<s>> \o Tail(todo)
        BY <1>17, <3>1 DEF ChooseState
      <4> QED BY <2>2, <4>1 DEF Steps
    <3>2. CASE Busy("pause") /\ state = "dead"
      <4>1. todo' = <<"start", "paused">> \o Tail(todo)
        BY <1>17, <3>2 DEF ChooseState, Busy
      <4>2. <<"start", "paused">> \in Seq(Steps)
        BY DEF Steps
      <4> QED BY <2>2, <4>1, <4>2, ConcatProperties
    <3> QED BY <3>1, <3>2
  <2>4. ClientTypes'
    BY <1>17, <1>d, <2>3 DEF ChooseState, ClientTypes
  <2> QED BY <1>b, <1>c, <2>1, <2>4
<1>18. CASE ApplyState
  <2>1. UNCHANGED <<settings, place, media>> /\ todo # <<>>
    BY <1>18 DEF ApplyState, Busy
  <2>2. todo' = Tail(todo) /\ main' = "applying" /\ signal' = FALSE
    BY <1>18 DEF ApplyState
  <2>3. ClientTypes'
    BY <1>a, <2>1, <2>2 DEF ClientTypes
  <2>4. StateTypes'
    BY <1>18, <1>d DEF ApplyState, StateTypes
  <2>5. ThreadTypes'
    BY <1>18, <1>d DEF ApplyState, NotifyWorker, ThreadTypes
  <2> QED BY <1>b, <1>c, <2>1, <2>3, <2>4, <2>5
<1>19. CASE ApplyAgain
  <2>1. UNCHANGED <<settings, place, media>>
    BY <1>19 DEF ApplyAgain
  <2>2. StateTypes'
    BY <1>19, <1>d DEF ApplyAgain, ConsumeError, StateTypes, control
  <2>3. ClientTypes'
    BY <1>19, <1>d DEF ApplyAgain, ConsumeError, ClientTypes
  <2>4. ThreadTypes'
    BY <1>19, <1>d DEF ApplyAgain, ConsumeError, ThreadTypes
  <2> QED BY <1>b, <1>c, <2>1, <2>2, <2>3, <2>4
<1>20. CASE FetchAgain
  <2>1. UNCHANGED <<settings, place, media>>
    BY <1>20 DEF FetchAgain
  <2>2. StateTypes'
    BY <1>20, <1>d DEF FetchAgain, ConsumeError, StateTypes, control
  <2>3. ClientTypes'
    BY <1>20, <1>d DEF FetchAgain, ConsumeError, ClientTypes
  <2>4. ThreadTypes'
    BY <1>20, <1>d DEF FetchAgain, ConsumeError, ThreadTypes
  <2> QED BY <1>b, <1>c, <2>1, <2>2, <2>3, <2>4
<1>21. CASE Destroyed
  <2>1. UNCHANGED <<control, settings, place, media, thread>>
    BY <1>21 DEF Destroyed
  <2>2. ClientTypes'
    BY <1>21, <1>d, <1>0 DEF Destroyed, ClientTypes
  <2> QED BY <1>b, <1>c, <2>1, <2>2
<1>22. CASE Return
  <2>1. UNCHANGED <<control, settings, place, media, thread>>
    BY <1>22 DEF Return
  <2>2. ClientTypes'
    BY <1>22, <1>d DEF Return, ClientTypes
  <2> QED BY <1>b, <1>c, <2>1, <2>2
<1>23. CASE Begin
  <2>1. UNCHANGED <<control, client, settings, place>> /\ UNCHANGED setup
    BY <1>23 DEF Begin
  <2>2. MediaTypes'
    BY <1>23, <1>d DEF Begin, MediaTypes
  <2>3. ThreadTypes'
    BY <1>23, <1>d DEF Begin, ThreadTypes, PlaceTypes
  <2> QED BY <1>b, <2>1, <2>2, <2>3
<1>24. CASE AcceptDead
  <2>1. UNCHANGED <<settings, place, media>>
    BY <1>24 DEF AcceptDead
  <2>2. StateTypes'
    BY <1>24, <1>d DEF AcceptDead, NotifyMain, Fresh, StateTypes
  <2>3. ClientTypes'
    BY <1>24, <1>d DEF AcceptDead, NotifyMain, Fresh, ClientTypes
  <2>4. ThreadTypes'
    BY <1>24, <1>d DEF AcceptDead, NotifyMain, Fresh, ThreadTypes
  <2> QED BY <1>b, <1>c, <2>1, <2>2, <2>3, <2>4
<1>25. CASE AcceptPaused
  <2>1. UNCHANGED <<settings, place, media>>
    BY <1>25 DEF AcceptPaused
  <2>2. StateTypes'
    BY <1>25, <1>d DEF AcceptPaused, NotifyMain, StateTypes
  <2>3. ClientTypes'
    BY <1>25, <1>d DEF AcceptPaused, NotifyMain, ClientTypes
  <2>4. ThreadTypes'
    BY <1>25, <1>d DEF AcceptPaused, NotifyMain, ThreadTypes
  <2> QED BY <1>b, <1>c, <2>1, <2>2, <2>3, <2>4
<1>26. CASE AcceptRunning
  <2>1. UNCHANGED <<settings, place, media>>
    BY <1>26 DEF AcceptRunning
  <2>2. StateTypes'
    BY <1>26, <1>d DEF AcceptRunning, NotifyMain, StateTypes
  <2>3. ClientTypes'
    BY <1>26, <1>d DEF AcceptRunning, NotifyMain, ClientTypes
  <2>4. ThreadTypes'
    BY <1>26, <1>d DEF AcceptRunning, NotifyMain, ThreadTypes
  <2> QED BY <1>b, <1>c, <2>1, <2>2, <2>3, <2>4
<1>27. CASE SyncDone
  <2>1. UNCHANGED <<control, client, settings, place>> /\ UNCHANGED setup
    BY <1>27 DEF SyncDone
  <2>2. MediaTypes'
    <3>1. setup \in Setups /\ length \in 1..Longest /\ Longest \in Nat
      BY <1>d, SetupTypes DEF MediaTypes
    <3>2. length \in 0..Longest
      BY <3>1
    <3>3. count' = length /\ due' = FALSE /\ UNCHANGED <<setup, length>>
      BY <1>27 DEF SyncDone
    <3> QED BY <1>d, <3>2, <3>3 DEF MediaTypes
  <2>3. ThreadTypes'
    BY <1>27, <1>d DEF SyncDone, ThreadTypes
  <2> QED BY <1>b, <2>1, <2>2, <2>3
<1>28. CASE FollowClient
  <2>1. UNCHANGED <<control, client, settings, place, media>>
    BY <1>28 DEF FollowClient
  <2>2. ThreadTypes'
    BY <1>28, <1>d DEF FollowClient, Scrub, ThreadTypes, PlaceTypes
  <2> QED BY <1>b, <1>c, <2>1, <2>2
<1>29. CASE GoOn
  <2>1. UNCHANGED <<control, client, settings, place, media>>
    BY <1>29 DEF GoOn
  <2>2. ThreadTypes'
    BY <1>29, <1>d DEF GoOn, ThreadTypes
  <2> QED BY <1>b, <1>c, <2>1, <2>2
<1>30. CASE Wait
  <2>1. UNCHANGED <<control, client, settings, place, media>>
    BY <1>30 DEF Wait
  <2>2. ThreadTypes'
    BY <1>30, <1>d DEF Wait, ThreadTypes
  <2> QED BY <1>b, <1>c, <2>1, <2>2
<1>31. CASE Fill
  <2>1. UNCHANGED <<control, client, settings, place, media>>
    BY <1>31 DEF Fill
  <2>2. ThreadTypes'
    BY <1>31, <1>d DEF Fill, ThreadTypes
  <2> QED BY <1>b, <1>c, <2>1, <2>2
<1>32. CASE Full
  <2>1. UNCHANGED <<control, client, settings, place, media>>
    BY <1>32 DEF Full
  <2>2. ThreadTypes'
    BY <1>32, <1>d DEF Full, ThreadTypes
  <2> QED BY <1>b, <1>c, <2>1, <2>2
<1>33. CASE PassCached
  <2>1. UNCHANGED <<control, client, settings, place, media>>
    BY <1>33 DEF PassCached
  <2>2. ThreadTypes'
    BY <1>33, <1>d DEF PassCached, ThreadTypes
  <2> QED BY <1>b, <1>c, <2>1, <2>2
<1>34. CASE EndOfMedia
  <2>1. UNCHANGED <<control, client, settings, place, media>>
    BY <1>34 DEF EndOfMedia
  <2>2. ThreadTypes'
    BY <1>34, <1>d DEF EndOfMedia, ThreadTypes
  <2> QED BY <1>b, <1>c, <2>1, <2>2
<1>35. CASE Prefetch
  <2>1. UNCHANGED <<control, client, settings, place, media>>
    BY <1>35 DEF Prefetch
  <2>2. ThreadTypes'
    BY <1>35, <1>d DEF Prefetch, ThreadTypes
  <2> QED BY <1>b, <1>c, <2>1, <2>2
<1>36. CASE Insert
  <2>1. UNCHANGED <<control, settings, place, media>>
    BY <1>36 DEF Insert
  <2>2. ClientTypes'
    BY <1>36, <1>d DEF Insert, NotifyMain, ClientTypes
  <2>3. local' \in [position : Int, speed : Int, prefetch : Int, full : BOOLEAN]
    BY <1>36, <1>d DEF Insert, ThreadTypes
  <2>4. cache' \subseteq 0..Longest-1
    BY <1>36, <1>d, SetupTypes DEF Insert, Handover, ThreadTypes, MediaTypes
  <2>5. ThreadTypes'
    BY <1>36, <2>3, <2>4 DEF Insert, ThreadTypes
  <2> QED BY <1>b, <1>c, <2>1, <2>2, <2>5
<1>37. CASE EnforceFails
  <2>1. UNCHANGED <<settings, place, media>>
    BY <1>37 DEF EnforceFails, Fail
  <2>2. StateTypes'
    BY <1>37, <1>d DEF EnforceFails, Fail, NotifyMain, Fresh, StateTypes
  <2>3. ClientTypes'
    BY <1>37, <1>d DEF EnforceFails, Fail, NotifyMain, Fresh, ClientTypes
  <2>4. ThreadTypes'
    BY <1>37, <1>d DEF EnforceFails, Fail, NotifyMain, Fresh, ThreadTypes
  <2> QED BY <1>b, <1>c, <2>1, <2>2, <2>3, <2>4
<1>38. CASE InputFails
  <2>1. UNCHANGED <<settings, place, media>>
    BY <1>38 DEF InputFails, Fail
  <2>2. StateTypes'
    BY <1>38, <1>d DEF InputFails, Fail, NotifyMain, Fresh, StateTypes
  <2>3. ClientTypes'
    BY <1>38, <1>d DEF InputFails, Fail, NotifyMain, Fresh, ClientTypes
  <2>4. ThreadTypes'
    BY <1>38, <1>d DEF InputFails, Fail, NotifyMain, Fresh, ThreadTypes
  <2> QED BY <1>b, <1>c, <2>1, <2>2, <2>3, <2>4
<1>39. CASE Awake
  <2>1. UNCHANGED <<control, client, settings, place, media>>
    BY <1>39 DEF Awake
  <2>2. ThreadTypes'
    BY <1>39, <1>d DEF Awake, ThreadTypes
  <2> QED BY <1>b, <1>c, <2>1, <2>2
<1>40. CASE WaitTimesOut
  <2>1. UNCHANGED <<control, client, settings, place, media>>
    BY <1>40 DEF WaitTimesOut
  <2>2. ThreadTypes'
    BY <1>40, <1>d DEF WaitTimesOut, ThreadTypes
  <2> QED BY <1>b, <1>c, <2>1, <2>2
<1>41. CASE Grow
  <2>1. UNCHANGED <<control, client, settings, place, thread>> /\ UNCHANGED setup
    BY <1>41 DEF Grow
  <2>2. MediaTypes'
    BY <1>41, <1>d DEF Grow, MediaTypes
  <2> QED BY <1>b, <2>1, <2>2
<1>42. CASE TimePasses
  <2>1. UNCHANGED <<control, client, settings, place, thread>> /\ UNCHANGED setup
    BY <1>42 DEF TimePasses
  <2>2. MediaTypes'
    BY <1>42, <1>d DEF TimePasses, MediaTypes
  <2> QED BY <1>b, <2>1, <2>2
<1>43. CASE UNCHANGED vars
  BY <1>43, <1>b, <1>c DEF vars
<1> QED
  BY <1>1, <1>2, <1>3, <1>4, <1>5, <1>6, <1>7, <1>8, <1>9, <1>10, <1>11,
     <1>12, <1>13, <1>14, <1>15, <1>16, <1>17, <1>18, <1>19, <1>20, <1>21,
     <1>22, <1>23, <1>24, <1>25, <1>26, <1>27, <1>28, <1>29, <1>30, <1>31,
     <1>32, <1>33, <1>34, <1>35, <1>36, <1>37, <1>38, <1>39, <1>40, <1>41,
     <1>42, <1>43
     DEF Next, Client, Proceed, Worker, Terminated

\* Every step keeps the hand-over of the input between the two threads,
\* whatever fails.
LEMMA HandoverStep ==
  ASSUME Types, Handover, [Next]_vars
  PROVE  Handover'
<1> USE DEF Types, StateTypes, ClientTypes, SettingTypes, PlaceTypes,
     MediaTypes, ThreadTypes, Handover, AtWork, control, client, settings,
     place, media, thread
<1>1. CASE \E p \in setup.targets : Seek(p, FALSE)
  BY <1>1 DEF Seek, Clamped, NotifyWorker, Enter, WorkerFree
<1>2. CASE \E p \in setup.offsets : Seek(p, TRUE)
  BY <1>2 DEF Seek, Clamped, NotifyWorker, Enter, WorkerFree
<1>3. CASE Rethrow
  BY <1>3 DEF Rethrow, ConsumeError, Enter, WorkerFree
<1>4. CASE Sync
  BY <1>4 DEF Sync, Enter, WorkerFree
<1>5. CASE Shrink
  BY <1>5 DEF Shrink, Enter, WorkerFree
<1>6. CASE FetchDirectly
  BY <1>6 DEF FetchDirectly, Enter, WorkerFree
<1>7. CASE FetchAhead
  BY <1>7 DEF FetchAhead, Enter, WorkerFree
<1>8. CASE \E i \in setup.inputs : Connect(i)
  BY <1>8 DEF Connect, Enter, WorkerFree
<1>9. CASE \E a \in setup.actives : SetActive(a)
  BY <1>9 DEF SetActive, Enter, WorkerFree
<1>10. CASE \E q \in setup.queues : SetQueue(q)
  BY <1>10 DEF SetQueue, Enter, WorkerFree
<1>11. CASE Destroy
  BY <1>11 DEF Destroy, Enter, WorkerFree
<1>12. CASE UpdateActive
  <2>1. todo # <<>>
    BY <1>12 DEF UpdateActive, Busy
  <2>2. \A i \in 1..Len(todo') : todo'[i] \in {"running", "paused", "dead"} => safe
    <3>1. CASE ~safe
      <4>1. todo' = Tail(todo)
        BY <1>12, <3>1 DEF UpdateActive
      <4> QED BY <2>1, <4>1, Todo
    <3>2. CASE safe
      BY <3>2
    <3> QED BY <3>1, <3>2
  <2> QED BY <1>12, <2>2 DEF UpdateActive, Busy
<1>13. CASE UpdateQueue
  BY <1>13 DEF UpdateQueue, Busy
<1>14. CASE CheckError
  BY <1>14 DEF CheckError, ConsumeError
<1>15. CASE NothingToChange
  BY <1>15 DEF NothingToChange, Busy
<1>16. CASE CreateThread
  BY <1>16 DEF CreateThread, Busy
<1>17. CASE ChooseState
  BY <1>17 DEF ChooseState, Busy
<1>18. CASE ApplyState
  BY <1>18 DEF ApplyState, Busy, NotifyWorker
<1>19. CASE ApplyAgain
  BY <1>19 DEF ApplyAgain, ConsumeError, WorkerFree
<1>20. CASE FetchAgain
  BY <1>20 DEF FetchAgain, ConsumeError, WorkerFree
<1>21. CASE Destroyed
  BY <1>21 DEF Destroyed, Busy
<1>22. CASE Return
  BY <1>22 DEF Return
<1>23. CASE Begin
  BY <1>23 DEF Begin, MainFree
<1>24. CASE AcceptDead
  BY <1>24 DEF AcceptDead, Locked, MainFree, NotifyMain, Fresh
<1>25. CASE AcceptPaused
  BY <1>25 DEF AcceptPaused, Locked, MainFree, NotifyMain
<1>26. CASE AcceptRunning
  BY <1>26 DEF AcceptRunning, Locked, MainFree, NotifyMain
<1>27. CASE SyncDone
  BY <1>27 DEF SyncDone, MainFree
<1>28. CASE FollowClient
  BY <1>28 DEF FollowClient, Locked, MainFree, Scrub
<1>29. CASE GoOn
  BY <1>29 DEF GoOn, Locked, MainFree
<1>30. CASE Wait
  BY <1>30 DEF Wait, Locked, MainFree, Moved
<1>31. CASE Fill
  BY <1>31 DEF Fill, Locked, MainFree
<1>32. CASE Full
  BY <1>32 DEF Full, Locked, MainFree
<1>33. CASE PassCached
  BY <1>33 DEF PassCached, Locked, MainFree
<1>34. CASE EndOfMedia
  BY <1>34 DEF EndOfMedia, Locked, MainFree
<1>35. CASE Prefetch
  BY <1>35 DEF Prefetch, Locked, MainFree, InMedia
<1>36. CASE Insert
  BY <1>36 DEF Insert, MainFree, NotifyMain
<1>37. CASE EnforceFails
  BY <1>37 DEF EnforceFails, MainFree, Fail, NotifyMain, Fresh
<1>38. CASE InputFails
  BY <1>38 DEF InputFails, MainFree, Fail, NotifyMain, Fresh
<1>39. CASE Awake
  BY <1>39 DEF Awake, MainFree
<1>40. CASE WaitTimesOut
  BY <1>40 DEF WaitTimesOut
<1>41. CASE Grow
  BY <1>41 DEF Grow
<1>42. CASE TimePasses
  BY <1>42 DEF TimePasses
<1>43. CASE UNCHANGED vars
  BY <1>43 DEF vars
<1> QED
  BY <1>1, <1>2, <1>3, <1>4, <1>5, <1>6, <1>7, <1>8, <1>9, <1>10, <1>11, <1>12,
       <1>13, <1>14, <1>15, <1>16, <1>17, <1>18, <1>19, <1>20, <1>21, <1>22,
       <1>23, <1>24, <1>25, <1>26, <1>27, <1>28, <1>29, <1>30, <1>31, <1>32,
       <1>33, <1>34, <1>35, <1>36, <1>37, <1>38, <1>39, <1>40, <1>41, <1>42,
       <1>43 DEF Next, Client, Proceed, Worker, Terminated

-----------------------------------------------------------------------------
(* Control, for the sound setups.                                          *)

\* What may come after a step in a call.
May(step, next) ==
  \/ step \in {"pause", "paused"} /\ next = "queue"
  \/ step \in {"start", "running"} /\ next = "paused"
  \/ step = "queue" /\ next = "active"
  \/ step \in {"stop", "dead"} /\ next = "destroyed"

\* The client is in a call with this step to do next.
Doing(step) == main \in {"busy", "applying"} /\ todo # <<>> /\ todo[1] = step

\* The state the worker has, or will have when the client wakes.
Target == IF main = "applying" THEN newState ELSE state

\* What is left of a call fits the state of the worker.
CallFits ==
  /\ \A i \in 1..Len(todo) - 1 : May(todo[i], todo[i + 1])
  /\ Doing("queue") => Target = "paused"
  /\ Doing("paused") => Target = "running"
  /\ Doing("dead") => Target # "dead" /\ main = "busy"
  /\ Doing("running") =>
       main = "busy" /\ (state = "paused" \/ (state = "dead" /\ worker = "begin"))
  /\ Doing("destroyed") => Target = "dead"

\* The worker is there when it is asked for something, and sleeps only when
\* nothing is asked of it.
ThreadFits ==
  /\ worker = "begin" =>
       /\ state = "dead"
       /\ (main = "busy" /\ Doing("running")) \/ (main = "applying" /\ newState = "running")
  /\ worker = "none" => state = "dead" /\ main # "applying"
  /\ worker = "ended" => state = "dead" /\ main = "applying" /\ newState = "dead"
  /\ state = "dead" =>
       \/ worker \in {"none", "begin", "ended"}
       \/ worker = "top" /\ main = "applying" /\ newState = "running"
  /\ worker = "waiting" => state = "running" \/ newState = state
  /\ main # "applying" => newState = state
  /\ main = "applying" /\ ~signal => newState # state
  /\ worker # "two"

Control == ~error /\ safe /\ CallFits /\ ThreadFits

\* The steps that are left follow one another as before, and the first of
\* them is one that may follow the step that was done.
LEMMA Left ==
  ASSUME todo \in Seq(Steps), todo # <<>>, todo' = Tail(todo),
         \A i \in 1..Len(todo) - 1 : May(todo[i], todo[i + 1])
  PROVE  /\ \A i \in 1..Len(todo') - 1 : May(todo'[i], todo'[i + 1])
         /\ todo' # <<>> => May(todo[1], todo'[1])
<1>1. /\ Len(todo) \in Nat /\ Len(todo) # 0 /\ Len(todo') = Len(todo) - 1
      /\ \A i \in 1..Len(todo) - 1 : todo'[i] = todo[i + 1]
  BY Todo, LenProperties, EmptySeq
<1>2. ASSUME NEW i \in 1..Len(todo') - 1
      PROVE  May(todo'[i], todo'[i + 1])
  <2>1. /\ i \in 1..Len(todo) - 1 /\ i + 1 \in 1..Len(todo) - 1
    BY <1>1
  <2>2. todo'[i] = todo[i + 1] /\ todo'[i + 1] = todo[(i + 1) + 1]
    BY <1>1, <2>1
  <2> QED BY <2>1, <2>2
<1>3. ASSUME todo' # <<>>
      PROVE  May(todo[1], todo'[1])
  <2>1. Tail(todo) \in Seq(Steps)
    BY Todo
  <2>2. Len(todo') # 0
    BY <1>3, <2>1, EmptySeq
  <2>3. 1 \in 1..Len(todo) - 1
    BY <1>1, <2>2
  <2>4. May(todo[1], todo[1 + 1]) /\ todo'[1] = todo[1 + 1]
    BY <1>1, <2>3
  <2> QED BY <2>4
<1> QED BY <1>2, <1>3

\* Each step keeps the call in step with the worker.
LEMMA CallStep ==
  ASSUME Types, Handover, Sound, Control, ~EnforceFails, [Next]_vars
  PROVE  CallFits'
<1> USE DEF Types, StateTypes, ClientTypes, SettingTypes, PlaceTypes,
     MediaTypes, ThreadTypes, Handover, Control, CallFits, ThreadFits, Doing,
     Target, May, control, client, settings, place, media, thread
<1>1. CASE \E p \in setup.targets : Seek(p, FALSE)
  BY <1>1 DEF Seek, Clamped, NotifyWorker, Enter, WorkerFree
<1>2. CASE \E p \in setup.offsets : Seek(p, TRUE)
  BY <1>2 DEF Seek, Clamped, NotifyWorker, Enter, WorkerFree
<1>3. CASE Rethrow
  BY <1>3 DEF Rethrow, ConsumeError, Enter, WorkerFree
<1>4. CASE Sync
  BY <1>4 DEF Sync, Enter, WorkerFree
<1>5. CASE Shrink
  BY <1>5 DEF Shrink, Enter, WorkerFree
<1>6. CASE FetchDirectly
  BY <1>6 DEF FetchDirectly, Enter, WorkerFree
<1>7. CASE FetchAhead
  BY <1>7 DEF FetchAhead, Enter, WorkerFree
<1>8. CASE \E i \in setup.inputs : Connect(i)
  BY <1>8 DEF Connect, Enter, WorkerFree
<1>9. CASE \E a \in setup.actives : SetActive(a)
  BY <1>9 DEF SetActive, Enter, WorkerFree
<1>10. CASE \E q \in setup.queues : SetQueue(q)
  BY <1>10 DEF SetQueue, Enter, WorkerFree
<1>11. CASE Destroy
  BY <1>11 DEF Destroy, Enter, WorkerFree
<1>12. CASE UpdateActive
  <2>1. todo # <<>> /\ todo[1] = "active" /\ Len(todo) \in Nat
    BY <1>12, Todo, LenProperties DEF UpdateActive, Busy
  <2>2. \E s \in {"start", "pause"} : todo' = <<s>> \o Tail(todo)
    BY <1>12 DEF UpdateActive
  <2>3. /\ Len(todo') = Len(todo) /\ todo' # <<>>
        /\ \A i \in 2..Len(todo) : todo'[i] = todo[i]
        /\ todo'[1] \in {"start", "pause"}
    BY <2>1, <2>2, Todo DEF Steps
  <2>4. Len(todo) <= 1
    <3> SUFFICES ASSUME Len(todo) > 1 PROVE FALSE
      BY <2>1
    <3>1. 1 \in 1..Len(todo) - 1
      BY <2>1
    <3>2. May(todo[1], todo[1 + 1])
      BY <3>1
    <3> QED BY <2>1, <3>2
  <2>5. 1..Len(todo') - 1 = {}
    BY <2>1, <2>3, <2>4
  <2> HIDE DEF Types, Handover, May
  <2> QED BY <2>3, <2>5
<1>13. CASE UpdateQueue
  <2>1. todo # <<>> /\ todo[1] = "queue" /\ todo' = Tail(todo) /\ todo \in Seq(Steps)
    BY <1>13, Todo DEF UpdateQueue, Busy
  <2>2. /\ \A i \in 1..Len(todo') - 1 : May(todo'[i], todo'[i + 1])
        /\ todo' # <<>> => May(todo[1], todo'[1])
    BY <2>1, Left
  <2>3. todo' # <<>> => todo'[1] = "active"
    BY <2>1, <2>2
  <2> HIDE DEF Types, Handover, May
  <2> QED BY <2>2, <2>3
<1>14. CASE CheckError
  BY <1>14 DEF CheckError, ConsumeError
<1>15. CASE NothingToChange
  <2>1. /\ todo # <<>> /\ todo' = Tail(todo) /\ todo \in Seq(Steps)
        /\ todo[1] \in {"start", "pause", "stop"} /\ main = "busy"
        /\ UNCHANGED <<main, state, newState>>
        /\ todo[1] = "start" => state = "running"
        /\ todo[1] = "pause" => state = "paused"
        /\ todo[1] = "stop" => state = "dead"
    BY <1>15, Todo DEF NothingToChange, Busy
  <2>2. /\ \A i \in 1..Len(todo') - 1 : May(todo'[i], todo'[i + 1])
        /\ todo' # <<>> => May(todo[1], todo'[1])
    BY <2>1, Left
  <2>3. todo' # <<>> => \/ todo[1] = "pause" /\ todo'[1] = "queue"
                        \/ todo[1] = "start" /\ todo'[1] = "paused"
                        \/ todo[1] = "stop" /\ todo'[1] = "destroyed"
    BY <2>1, <2>2
  <2> HIDE DEF Types, Handover, May
  <2> QED BY <2>1, <2>2, <2>3
<1>16. CASE CreateThread
  <2>1. worker = "none" /\ main = "busy" /\ state = "dead" /\ todo # <<>>
    BY <1>16 DEF CreateThread, Busy
  <2>2. /\ worker' = "begin" /\ todo' = <<"running">> \o Tail(todo)
        /\ UNCHANGED <<control, main, signal>> /\ Head(todo) = "start"
    BY <1>16, <2>1 DEF CreateThread, Busy
  <2> QED BY <2>1, <2>2
<1>17. CASE ChooseState
  <2>1. todo # <<>> /\ Len(todo) \in Nat /\ main = "busy" /\ Head(todo) = todo[1]
    BY <1>17, Todo, LenProperties DEF ChooseState, Busy
  <2>2. ASSUME NEW s \in Steps, todo' = <<s>> \o Tail(todo),
               \A t \in Steps : May(todo[1], t) => May(s, t)
        PROVE  /\ \A i \in 1..Len(todo') - 1 : May(todo'[i], todo'[i + 1])
               /\ todo' # <<>> /\ todo'[1] = s
    <3>1. /\ Len(todo') = Len(todo) /\ todo'[1] = s /\ todo' # <<>>
          /\ \A i \in 2..Len(todo) : todo'[i] = todo[i] /\ todo[i] \in Steps
      BY <2>1, <2>2, Todo, ElementOfSeq
    <3>2. ASSUME NEW i \in 1..Len(todo') - 1
          PROVE  May(todo'[i], todo'[i + 1])
      <4> HIDE DEF May
      <4>1. i \in 1..Len(todo) - 1 /\ i + 1 \in 2..Len(todo)
        BY <3>1, <2>1
      <4>2. May(todo[i], todo[i + 1]) /\ todo'[i + 1] = todo[i + 1] /\ todo[i + 1] \in Steps
        BY <4>1, <3>1
      <4>3. CASE i = 1
        BY <4>2, <4>3, <3>1, <2>2
      <4>4. CASE i # 1
        BY <4>1, <4>2, <4>4, <3>1, <2>1
      <4> QED BY <4>3, <4>4
    <3> QED BY <3>1, <3>2
  <2>3. CASE Busy("start") /\ state = "paused"
    BY <1>17, <2>1, <2>2, <2>3 DEF ChooseState, Busy, Steps
  <2>4. CASE Busy("pause") /\ state = "running"
    BY <1>17, <2>1, <2>2, <2>4 DEF ChooseState, Busy, Steps
  <2>5. CASE Busy("stop") /\ state # "dead"
    BY <1>17, <2>1, <2>2, <2>5 DEF ChooseState, Busy, Steps
  <2>6. CASE Busy("pause") /\ state = "dead"
    <3>1. todo' = <<"start", "paused">> \o Tail(todo)
      BY <1>17, <2>1, <2>6 DEF ChooseState, Busy
    <3>2. /\ Len(todo') = Len(todo) + 1 /\ todo'[1] = "start" /\ todo'[2] = "paused"
          /\ \A i \in 3..Len(todo) + 1 : todo'[i] = todo[i - 1]
      <4>1. <<"start", "paused">> \in Seq(Steps) /\ Len(<<"start", "paused">>) = 2
        BY DEF Steps
      <4>2. /\ Tail(todo) \in Seq(Steps) /\ Len(Tail(todo)) = Len(todo) - 1
            /\ \A i \in 1..Len(todo) - 1 : Tail(todo)[i] = todo[i + 1]
        BY <2>1, Todo
      <4> QED BY <3>1, <4>1, <4>2, <2>1, ConcatProperties
    <3>3. todo[1] = "pause"
      BY <2>1, <2>6 DEF Busy
    <3>4. ASSUME NEW i \in 1..Len(todo') - 1
          PROVE  May(todo'[i], todo'[i + 1])
      <4>1. CASE i = 1
        BY <4>1, <3>2
      <4>2. CASE i = 2
        BY <4>2, <3>2, <3>3, <2>1
      <4>3. CASE i > 2
        <5> HIDE DEF May
        <5>1. /\ i \in 3..Len(todo) + 1 /\ i + 1 \in 3..Len(todo) + 1
              /\ i - 1 \in 1..Len(todo) - 1 /\ i + 1 - 1 = (i - 1) + 1
          <6>1. Len(todo) \in Nat /\ i \in Int /\ 3 <= i /\ i <= Len(todo)
            BY <4>3, <3>2, <2>1
          <6> HIDE DEF Types, Handover, Control, CallFits, ThreadFits
          <6> QED BY <6>1
        <5>2. May(todo[i - 1], todo[(i - 1) + 1])
          BY <5>1
        <5>3. todo'[i] = todo[i - 1] /\ todo'[i + 1] = todo[i + 1 - 1]
          BY <5>1, <3>2
        <5> QED BY <5>1, <5>2, <5>3
      <4> QED BY <4>1, <4>2, <4>3
    <3>5. todo' # <<>> /\ main' = "busy" /\ todo'[1] = "start"
      BY <1>17, <2>1, <3>2, EmptySeq DEF ChooseState
    <3> QED BY <3>4, <3>5
  <2>7. \/ Busy("start") /\ state = "paused"
        \/ Busy("pause") /\ state \in {"running", "dead"}
        \/ Busy("stop") /\ state # "dead"
    BY <1>17 DEF ChooseState
  <2> HIDE DEF Types, Handover, Control, CallFits, ThreadFits
  <2> QED BY <2>3, <2>4, <2>5, <2>6, <2>7
<1>18. CASE ApplyState
  <2>1. /\ todo # <<>> /\ todo' = Tail(todo) /\ todo \in Seq(Steps)
        /\ todo[1] \in {"running", "paused", "dead"}
        /\ newState' = todo[1] /\ main' = "applying"
    BY <1>18, Todo DEF ApplyState, Busy
  <2>2. /\ \A i \in 1..Len(todo') - 1 : May(todo'[i], todo'[i + 1])
        /\ todo' # <<>> => May(todo[1], todo'[1])
    BY <2>1, Left
  <2>3. todo' # <<>> => \/ newState' = "paused" /\ todo'[1] = "queue"
                        \/ newState' = "running" /\ todo'[1] = "paused"
                        \/ newState' = "dead" /\ todo'[1] = "destroyed"
    BY <2>1, <2>2
  <2> HIDE DEF Types, Handover, May
  <2> QED BY <2>1, <2>2, <2>3
<1>19. CASE ApplyAgain
  BY <1>19 DEF ApplyAgain, ConsumeError, WorkerFree
<1>20. CASE FetchAgain
  BY <1>20 DEF FetchAgain, ConsumeError, WorkerFree
<1>21. CASE Destroyed
  BY <1>21 DEF Destroyed, Busy
<1>22. CASE Return
  BY <1>22 DEF Return
<1>23. CASE Begin
  BY <1>23 DEF Begin, MainFree
<1>24. CASE AcceptDead
  BY <1>24 DEF AcceptDead, Locked, MainFree, NotifyMain, Fresh
<1>25. CASE AcceptPaused
  BY <1>25 DEF AcceptPaused, Locked, MainFree, NotifyMain
<1>26. CASE AcceptRunning
  BY <1>26 DEF AcceptRunning, Locked, MainFree, NotifyMain
<1>27. CASE SyncDone
  BY <1>27 DEF SyncDone, MainFree
<1>28. CASE FollowClient
  BY <1>28 DEF FollowClient, Locked, MainFree, Scrub
<1>29. CASE GoOn
  BY <1>29 DEF GoOn, Locked, MainFree
<1>30. CASE Wait
  BY <1>30 DEF Wait, Locked, MainFree, Moved
<1>31. CASE Fill
  BY <1>31 DEF Fill, Locked, MainFree
<1>32. CASE Full
  BY <1>32 DEF Full, Locked, MainFree
<1>33. CASE PassCached
  BY <1>33 DEF PassCached, Locked, MainFree
<1>34. CASE EndOfMedia
  BY <1>34 DEF EndOfMedia, Locked, MainFree
<1>35. CASE Prefetch
  BY <1>35 DEF Prefetch, Locked, MainFree, InMedia
<1>36. CASE Insert
  BY <1>36 DEF Insert, MainFree, NotifyMain
<1>37. CASE InputFails
  BY <1>37 DEF InputFails, Sound
<1>38. CASE Awake
  BY <1>38 DEF Awake, MainFree
<1>39. CASE WaitTimesOut
  BY <1>39 DEF WaitTimesOut
<1>40. CASE Grow
  BY <1>40 DEF Grow
<1>41. CASE TimePasses
  BY <1>41 DEF TimePasses
<1>42. CASE UNCHANGED vars
  BY <1>42 DEF vars
<1> QED
  BY <1>1, <1>2, <1>3, <1>4, <1>5, <1>6, <1>7, <1>8, <1>9, <1>10, <1>11, <1>12,
       <1>13, <1>14, <1>15, <1>16, <1>17, <1>18, <1>19, <1>20, <1>21, <1>22,
       <1>23, <1>24, <1>25, <1>26, <1>27, <1>28, <1>29, <1>30, <1>31, <1>32,
       <1>33, <1>34, <1>35, <1>36, <1>37, <1>38, <1>39, <1>40, <1>41,
       <1>42 DEF Next, Client, Proceed, Worker, Terminated

\* Each step keeps the worker in step with the call.
LEMMA ThreadStep ==
  ASSUME Types, Handover, Sound, Control, ~EnforceFails, [Next]_vars
  PROVE  ThreadFits'
<1> USE DEF Types, StateTypes, ClientTypes, SettingTypes, PlaceTypes,
     MediaTypes, ThreadTypes, Handover, Control, CallFits, ThreadFits, Doing,
     Target, AtWork, control, client, settings, place, media, thread
<1>1. CASE \E p \in setup.targets : Seek(p, FALSE)
  BY <1>1 DEF Seek, Clamped, NotifyWorker, Enter, WorkerFree
<1>2. CASE \E p \in setup.offsets : Seek(p, TRUE)
  BY <1>2 DEF Seek, Clamped, NotifyWorker, Enter, WorkerFree
<1>3. CASE Rethrow
  BY <1>3 DEF Rethrow, ConsumeError, Enter, WorkerFree
<1>4. CASE Sync
  BY <1>4 DEF Sync, Enter, WorkerFree
<1>5. CASE Shrink
  BY <1>5 DEF Shrink, Enter, WorkerFree
<1>6. CASE FetchDirectly
  BY <1>6 DEF FetchDirectly, Enter, WorkerFree
<1>7. CASE FetchAhead
  BY <1>7 DEF FetchAhead, Enter, WorkerFree
<1>8. CASE \E i \in setup.inputs : Connect(i)
  BY <1>8 DEF Connect, Enter, WorkerFree
<1>9. CASE \E a \in setup.actives : SetActive(a)
  BY <1>9 DEF SetActive, Enter, WorkerFree
<1>10. CASE \E q \in setup.queues : SetQueue(q)
  BY <1>10 DEF SetQueue, Enter, WorkerFree
<1>11. CASE Destroy
  BY <1>11 DEF Destroy, Enter, WorkerFree
<1>12. CASE UpdateActive
  BY <1>12 DEF UpdateActive, Busy
<1>13. CASE UpdateQueue
  BY <1>13 DEF UpdateQueue, Busy
<1>14. CASE CheckError
  BY <1>14 DEF CheckError, ConsumeError
<1>15. CASE NothingToChange
  BY <1>15 DEF NothingToChange, Busy
<1>16. CASE CreateThread
  BY <1>16 DEF CreateThread, Busy
<1>17. CASE ChooseState
  BY <1>17 DEF ChooseState, Busy
<1>18. CASE ApplyState
  BY <1>18 DEF ApplyState, Busy, NotifyWorker
<1>19. CASE ApplyAgain
  BY <1>19 DEF ApplyAgain, ConsumeError, WorkerFree
<1>20. CASE FetchAgain
  BY <1>20 DEF FetchAgain, ConsumeError, WorkerFree
<1>21. CASE Destroyed
  BY <1>21 DEF Destroyed, Busy
<1>22. CASE Return
  BY <1>22 DEF Return
<1>23. CASE Begin
  BY <1>23 DEF Begin, MainFree
<1>24. CASE AcceptDead
  BY <1>24 DEF AcceptDead, Locked, MainFree, NotifyMain, Fresh
<1>25. CASE AcceptPaused
  BY <1>25 DEF AcceptPaused, Locked, MainFree, NotifyMain
<1>26. CASE AcceptRunning
  BY <1>26 DEF AcceptRunning, Locked, MainFree, NotifyMain
<1>27. CASE SyncDone
  BY <1>27 DEF SyncDone, MainFree
<1>28. CASE FollowClient
  BY <1>28 DEF FollowClient, Locked, MainFree, Scrub
<1>29. CASE GoOn
  BY <1>29 DEF GoOn, Locked, MainFree
<1>30. CASE Wait
  BY <1>30 DEF Wait, Locked, MainFree, Moved
<1>31. CASE Fill
  BY <1>31 DEF Fill, Locked, MainFree
<1>32. CASE Full
  BY <1>32 DEF Full, Locked, MainFree
<1>33. CASE PassCached
  BY <1>33 DEF PassCached, Locked, MainFree
<1>34. CASE EndOfMedia
  BY <1>34 DEF EndOfMedia, Locked, MainFree
<1>35. CASE Prefetch
  BY <1>35 DEF Prefetch, Locked, MainFree, InMedia
<1>36. CASE Insert
  BY <1>36 DEF Insert, MainFree, NotifyMain
<1>37. CASE InputFails
  BY <1>37 DEF InputFails, Sound
<1>38. CASE Awake
  BY <1>38 DEF Awake, MainFree
<1>39. CASE WaitTimesOut
  BY <1>39 DEF WaitTimesOut
<1>40. CASE Grow
  BY <1>40 DEF Grow
<1>41. CASE TimePasses
  BY <1>41 DEF TimePasses
<1>42. CASE UNCHANGED vars
  BY <1>42 DEF vars
<1> QED
  BY <1>1, <1>2, <1>3, <1>4, <1>5, <1>6, <1>7, <1>8, <1>9, <1>10, <1>11, <1>12,
       <1>13, <1>14, <1>15, <1>16, <1>17, <1>18, <1>19, <1>20, <1>21, <1>22,
       <1>23, <1>24, <1>25, <1>26, <1>27, <1>28, <1>29, <1>30, <1>31, <1>32,
       <1>33, <1>34, <1>35, <1>36, <1>37, <1>38, <1>39, <1>40, <1>41,
       <1>42 DEF Next, Client, Proceed, Worker, Terminated

-----------------------------------------------------------------------------
(* The cache: least and greatest frames.                                   *)

\* A set of naturals that is not empty has a least element.
LEMMA LeastNatural ==
  ASSUME NEW c \in SUBSET Nat, c # {}
  PROVE  Lowest(c) # {}
<1>1. IsWellFoundedOn(OpToRel(<, Nat), Nat)
  BY NatLessThanWellFounded
<1> DEFINE R == OpToRel(<, Nat)
<1>2. PICK x \in c : \A y \in c : ~ (<<y, x>> \in R)
  BY <1>1, WFMin
<1>3. \A z \in Nat, y \in Nat : y < z => <<y, z>> \in R
  BY DEF OpToRel
<1> HIDE DEF R
<1>4. ASSUME NEW y \in c
      PROVE  x <= y
  <2>1. x \in Nat /\ y \in Nat
    OBVIOUS
  <2>2. ~(y < x)
    BY <1>2, <1>3, <2>1
  <2> QED BY <2>1, <2>2
<1> QED BY <1>4 DEF Lowest

\* So has a bounded one a greatest.
LEMMA GreatestNatural ==
  ASSUME NEW n \in Nat, NEW c \in SUBSET (0..n), c # {}
  PROVE  Highest(c) # {}
<1> DEFINE d == {n - f : f \in c}
<1>1. d \subseteq Nat
  OBVIOUS
<1>5. d # {}
  <2>1. PICK f \in c : TRUE
    OBVIOUS
  <2>2. n - f \in d
    BY <2>1
  <2> QED BY <2>2
<1>2. PICK x \in d : \A y \in d : x <= y
  BY <1>1, <1>5, LeastNatural DEF Lowest
<1>3. PICK f \in c : x = n - f
  BY <1>2
<1>4. \A g \in c : n - f <= n - g
  BY <1>2, <1>3
<1> QED BY <1>4 DEF Highest


-----------------------------------------------------------------------------
(* The grid of the client: its position, and what is any number of steps   *)
(* from it.                                                                *)

At(p, s, k) == p + k * s

OnGrid(c, p, s) == \A f \in c : \E k \in Int : f = At(p, s, k)

\* No frame is missing in c among the n first ones from p on.
Unbroken(c, p, s, n) == \A k \in 0..n-1 : At(p, s, k) \in c

\* How the grid is counted.
LEMMA GridSteps ==
  ASSUME NEW p \in Int, NEW s \in Int
  PROVE  /\ \A k \in Int : At(p, s, k) \in Int
         /\ At(p, s, 0) = p
         /\ \A k \in Int : At(p, s, k) + s = At(p, s, k + 1)
         /\ \A k \in Int : At(p + s, s, k) = At(p, s, k + 1)
         /\ \A k \in Int : At(p + s, s, k - 1) = At(p, s, k)
BY DEF At

\* How it is ordered.
\* The same for one step.
Stepped(p, s, k) ==
  /\ At(p, s, k) \in Int
  /\ At(p, s, k) + s = At(p, s, k + 1)
  /\ At(p + s, s, k) = At(p, s, k + 1)
  /\ At(p + s, s, k - 1) = At(p, s, k)

\* One step further on the grid of positions.
LEMMA GridStep ==
  ASSUME NEW p \in Int, NEW s \in Int, NEW k \in Int
  PROVE  Stepped(p, s, k)
BY GridSteps DEF Stepped

\* j comes before k on it.
Ordered(p, s, j, k) ==
  /\ s > 0 => (j < k <=> At(p, s, j) < At(p, s, k))
  /\ s < 0 => (j < k <=> At(p, s, j) > At(p, s, k))
  /\ At(p, s, j) = At(p, s, k) => j = k

\* The grid is ordered as its indices are, or the other way round.
LEMMA GridOrder ==
  ASSUME NEW p \in Int, NEW s \in Int, s # 0, NEW j \in Int, NEW k \in Int
  PROVE  Ordered(p, s, j, k)
<1>1. ASSUME NEW i \in Int, NEW l \in Int, i < l
      PROVE  /\ s > 0 => i * s < l * s
             /\ s < 0 => i * s > l * s
  BY <1>1
<1> QED BY <1>1 DEF At, Ordered

\* What Scrub leaves is on the grid.
LEMMA ScrubbedIsOnGrid ==
  ASSUME NEW c \in SUBSET Int, NEW p \in Int, NEW s \in Int, s # 0
  PROVE  OnGrid(Scrub(c, p, s), p, s)
<1>1. ASSUME NEW a \in Int, NEW b \in Nat, b > 0, a % b = 0
      PROVE  \E k \in Int : a = k * b
  <2>1. a = (a \div b) * b /\ a \div b \in Int
    BY <1>1
  <2> QED BY <2>1
<1>2. ASSUME NEW f \in Scrub(c, p, s)
      PROVE  \E k \in Int : f = At(p, s, k)
  <2>1. f \in Int /\ (f - p) % Abs(s) = 0 /\ Abs(s) \in Nat /\ Abs(s) > 0
    BY DEF Scrub, Abs
  <2>2. PICK k \in Int : f - p = k * Abs(s)
    <3>1. f - p \in Int
      BY <2>1
    <3> QED BY <1>1, <2>1, <3>1
  <2>3. CASE s > 0
    BY <2>1, <2>2, <2>3 DEF Abs, At
  <2>4. CASE s < 0
    <3>1. f - p = k * (-s)
      BY <2>2, <2>4 DEF Abs
    <3>2. k * (-s) = (-k) * s
      OBVIOUS
    <3>3. f = At(p, s, -k)
      BY <3>1, <3>2, <2>1 DEF At
    <3> QED BY <3>3
  <2> QED BY <2>3, <2>4
<1> QED BY <1>2 DEF OnGrid

\* An unbroken run is not longer than the cache.
LEMMA RunFits ==
  ASSUME NEW c, IsFiniteSet(c), NEW p \in Int, NEW s \in Int, s # 0,
         NEW n \in Int, Unbroken(c, p, s, n)
  PROVE  n <= Cardinality(c)
<1>1. Cardinality(c) \in Nat
  BY FS_CardinalityType
<1>2. CASE n <= 0
  BY <1>1, <1>2
<1>3. CASE n > 0
  <2> DEFINE at == [k \in 0..n-1 |-> At(p, s, k)]
  <2>1. at \in [0..n-1 -> c]
    <3>1. \A k \in 0..n-1 : At(p, s, k) \in c
      BY DEF Unbroken
    <3> QED BY <3>1
  <2>2. ASSUME NEW j \in 0..n-1, NEW k \in 0..n-1, at[j] = at[k]  PROVE j = k
    <3>1. At(p, s, j) = At(p, s, k) /\ j \in Int /\ k \in Int
      BY <2>2
    <3> QED BY <3>1, GridOrder DEF Ordered
  <2> HIDE DEF at
  <2>3. at \in Injection(0..n-1, c)
    BY <2>1, <2>2 DEF Injection, IsInjective
  <2>4. Cardinality(0..n-1) <= Cardinality(c)
    BY <2>3, FS_Injection
  <2>5. Cardinality(0..n-1) = n
    BY <1>3, FS_Interval
  <2> QED BY <2>4, <2>5
<1> QED BY <1>2, <1>3

\* A cache between two points of the grid that has as many frames as there
\* are points, or more, has all of them.
LEMMA GridIsFull ==
  ASSUME NEW c \in SUBSET Int, IsFiniteSet(c), NEW p \in Int, NEW s \in Int, s # 0,
         NEW m \in Nat, OnGrid(c, p, s), m + 1 <= Cardinality(c),
         \A f \in c : IF s > 0 THEN p <= f /\ f <= At(p, s, m)
                               ELSE At(p, s, m) <= f /\ f <= p
  PROVE  \A k \in 0..m : At(p, s, k) \in c
<1> DEFINE at == [k \in 0..m |-> At(p, s, k)]
           G == {at[k] : k \in 0..m}
<1>1. \A f \in c : \E k \in 0..m : f = At(p, s, k)
  <2> SUFFICES ASSUME NEW f \in c PROVE \E k \in 0..m : f = At(p, s, k)
    OBVIOUS
  <2>1. PICK k \in Int : f = At(p, s, k)
    BY DEF OnGrid
  <2>2. /\ At(p, s, 0) = p
        /\ s > 0 => (k < 0 <=> f < p) /\ (m < k <=> At(p, s, m) < f)
        /\ s < 0 => (k < 0 <=> f > p) /\ (m < k <=> At(p, s, m) > f)
    <3>1. At(p, s, 0) = p
      BY GridSteps
    <3>2. Ordered(p, s, k, 0)
      <4>1. 0 \in Int
        OBVIOUS
      <4> QED BY <4>1, GridOrder
    <3>3. Ordered(p, s, m, k)
      <4>1. m \in Int
        OBVIOUS
      <4> QED BY <4>1, GridOrder
    <3> QED BY <2>1, <3>1, <3>2, <3>3 DEF Ordered
  <2>3. f \in Int /\ At(p, s, m) \in Int
    BY GridSteps
  <2>4. 0 <= k /\ k <= m
    BY <2>2, <2>3
  <2> QED BY <2>1, <2>4
<1>2. c \subseteq G
  BY <1>1
<1>3. at \in Surjection(0..m, G)
  BY DEF Surjection
<1>4. IsFiniteSet(0..m) /\ Cardinality(0..m) = m + 1
  BY FS_Interval
<1>5. IsFiniteSet(G) /\ Cardinality(G) <= m + 1
  BY <1>3, <1>4, FS_Surjection
<1>6. Cardinality(c) <= Cardinality(G) /\ (Cardinality(G) = Cardinality(c) => G = c)
  BY <1>2, <1>5, FS_Subset
<1>7. Cardinality(c) \in Nat /\ Cardinality(G) \in Nat
  BY <1>5, FS_CardinalityType
<1>8. G = c
  BY <1>5, <1>6, <1>7
<1> QED BY <1>8

-----------------------------------------------------------------------------
(* Making room.                                                            *)

Spare == queue \div 4
Core == queue - 1 - Spare

\* The ends of the required and the permitted range are on the grid.
LEMMA Ranges ==
  ASSUME queue \in Nat, queue > 0, NEW p \in Int, NEW s \in Int, s # 0
  PROVE  /\ Spare \in Nat /\ Core \in Nat /\ Core < queue
         /\ s > 0 => /\ Required(p, s) = <<p, At(p, s, Core)>>
                     /\ Permitted(p, s) = <<At(p, s, -Spare), At(p, s, queue - 1)>>
         /\ s < 0 => /\ Required(p, s) = <<At(p, s, Core), p>>
                     /\ Permitted(p, s) = <<At(p, s, queue - 1), At(p, s, -Spare)>>
<1>1. Spare \in Nat /\ Core \in Nat /\ Core < queue
  BY DEF Spare, Core
<1>2. ASSUME NEW t \in Int, NEW a \in Int
      PROVE  p + t * a = p - (-t) * a /\ p - t * a = p + t * (-a) /\ p - t * a = p + (-t) * a
  OBVIOUS
<1>3. ASSUME NEW t \in Int, NEW u \in Int, NEW a \in Int
      PROVE  /\ p + u * a - t * a = p + (u - t) * a
             /\ p - (u * a - t * a) = p + (u - t) * (-a)
  OBVIOUS
<1>4. CASE s > 0
  <2>1. Abs(s) = s
    BY <1>4 DEF Abs
  <2>2. /\ p + (queue - 1) * s - Spare * s = p + Core * s
        /\ p - Spare * s = p + (-Spare) * s
    BY <1>1, <1>2, <1>3 DEF Core
  <2> QED BY <1>1, <1>4, <2>1, <2>2 DEF Required, Permitted, Ahead, Behind, Spare, At
<1>5. CASE s < 0
  <2>1. Abs(s) = -s /\ -s \in Int /\ -(-s) = s
    BY <1>5 DEF Abs
  <2>2. /\ p - ((queue - 1) * (-s) - Spare * (-s)) = p + Core * s
        /\ p - (queue - 1) * (-s) = p + (queue - 1) * s
        /\ p + Spare * (-s) = p + (-Spare) * s
    BY <1>1, <1>2, <1>3, <2>1 DEF Core
  <2> QED BY <1>1, <1>5, <2>1, <2>2 DEF Required, Permitted, Ahead, Behind, Spare, At
<1> QED BY <1>1, <1>4, <1>5

\* The victim is the first choice that is not empty.
LEMMA VictimIsFirst ==
  ASSUME NEW c, NEW p, NEW s
  PROVE  LET b1 == Below(c, Permitted(p, s)[1])
             a1 == Above(c, Permitted(p, s)[2])
             b2 == Below(c, Required(p, s)[1])
             a2 == Above(c, Required(p, s)[2])
         IN  Victim(c, p, s) = IF b1 # {} THEN b1 ELSE IF a1 # {} THEN a1
                               ELSE IF b2 # {} THEN b2 ELSE a2
<1> DEFINE b1 == Below(c, Permitted(p, s)[1])
           a1 == Above(c, Permitted(p, s)[2])
           b2 == Below(c, Required(p, s)[1])
           a2 == Above(c, Required(p, s)[2])
           choices == <<b1, a1, b2, a2>>
           chosen == {i \in 1..4 : choices[i] # {} /\ \A k \in 1..i-1 : choices[k] = {}}
<1>1. Victim(c, p, s) = UNION {choices[i] : i \in chosen}
  BY DEF Victim
<1>2. /\ choices[1] = b1 /\ choices[2] = a1 /\ choices[3] = b2 /\ choices[4] = a2
  OBVIOUS
<1> HIDE DEF choices, b1, a1, b2, a2
<1>3. chosen = IF b1 # {} THEN {1} ELSE IF a1 # {} THEN {2} ELSE IF b2 # {} THEN {3}
               ELSE IF a2 # {} THEN {4} ELSE {}
  BY <1>2
<1> HIDE DEF chosen
<1>4. Victim(c, p, s) = IF b1 # {} THEN b1 ELSE IF a1 # {} THEN a1
                        ELSE IF b2 # {} THEN b2 ELSE a2
  BY <1>1, <1>2, <1>3
<1> QED BY <1>4 DEF b1, a1, b2, a2

\* A full cache that is not good has a frame to give up.
LEMMA VictimExists ==
  ASSUME queue \in Nat, queue > 0, NEW h \in Nat, NEW c \in SUBSET (0..h),
         Cardinality(c) = queue, NEW p \in Int, NEW s \in Int, s # 0,
         OnGrid(c, p, s), ~GoodFor(c, p, s)
  PROVE  Victim(c, p, s) # {}
<1> SUFFICES ASSUME Victim(c, p, s) = {} PROVE FALSE
  OBVIOUS
<1>1. /\ Below(c, Permitted(p, s)[1]) = {} /\ Above(c, Permitted(p, s)[2]) = {}
      /\ Below(c, Required(p, s)[1]) = {} /\ Above(c, Required(p, s)[2]) = {}
  BY VictimIsFirst
<1>2. c # {} /\ IsFiniteSet(c)
  <2>1. IsFiniteSet(0..h)
    BY FS_Interval
  <2>2. IsFiniteSet(c)
    BY <2>1, FS_Subset
  <2>3. Cardinality({}) = 0
    BY FS_EmptySet
  <2> QED BY <2>2, <2>3
<1>3. PICK lo \in c : \A g \in c : lo <= g
  <2>1. c \in SUBSET Nat
    OBVIOUS
  <2> QED BY <1>2, <2>1, LeastNatural DEF Lowest
<1>4. PICK hi \in c : \A g \in c : hi >= g
  BY <1>2, GreatestNatural DEF Highest
<1>5. /\ Core \in Nat /\ Core + 1 <= queue
      /\ s > 0 => Required(p, s) = <<p, At(p, s, Core)>>
      /\ s < 0 => Required(p, s) = <<At(p, s, Core), p>>
      /\ At(p, s, Core) \in Int
  <2>1. /\ Core \in Nat /\ Core < queue
        /\ s > 0 => Required(p, s) = <<p, At(p, s, Core)>>
        /\ s < 0 => Required(p, s) = <<At(p, s, Core), p>>
    BY Ranges
  <2>2. Core \in Int
    BY <2>1
  <2> QED BY <2>1, <2>2, GridSteps
<1>6. ~(lo < Required(p, s)[1]) /\ ~(hi > Required(p, s)[2])
  BY <1>1, <1>3, <1>4 DEF Below, Above, Lowest, Highest
<1>7. \A f \in c : IF s > 0 THEN p <= f /\ f <= At(p, s, Core)
                            ELSE At(p, s, Core) <= f /\ f <= p
  BY <1>3, <1>4, <1>5, <1>6
<1>8. \A k \in 0..Core : At(p, s, k) \in c
  BY <1>2, <1>5, <1>7, GridIsFull
<1>9. At(p, s, 0) \in c /\ At(p, s, Core) \in c /\ At(p, s, 0) = p
  BY <1>5, <1>8, GridSteps
<1> QED BY <1>1, <1>5, <1>9 DEF GoodFor

\* It is none of the run of frames that the client will ask for next.
LEMMA VictimIsSpare ==
  ASSUME queue \in Nat, queue > 0, NEW c \in SUBSET Int, IsFiniteSet(c),
         Cardinality(c) = queue, NEW p \in Int, NEW s \in Int, s # 0,
         ~GoodFor(c, p, s), NEW n \in Int, Unbroken(c, p, s, n)
  PROVE  Unbroken(c \ Victim(c, p, s), p, s, n)
<1> SUFFICES ASSUME NEW k \in 0..n-1, At(p, s, k) \in Victim(c, p, s) PROVE FALSE
  BY DEF Unbroken
<1> DEFINE v == At(p, s, k)
<1>1. /\ Spare \in Nat /\ Core \in Nat /\ Core < queue
      /\ s > 0 => /\ Required(p, s) = <<p, At(p, s, Core)>>
                  /\ Permitted(p, s) = <<At(p, s, -Spare), At(p, s, queue - 1)>>
      /\ s < 0 => /\ Required(p, s) = <<At(p, s, Core), p>>
                  /\ Permitted(p, s) = <<At(p, s, queue - 1), At(p, s, -Spare)>>
  BY Ranges
<1>2. k <= queue - 1
  BY RunFits
<1>3. /\ Ordered(p, s, k, -Spare) /\ Ordered(p, s, k, 0)
      /\ Ordered(p, s, queue - 1, k) /\ Ordered(p, s, Core, k)
  <2>1. -Spare \in Int /\ 0 \in Int /\ queue - 1 \in Int /\ Core \in Int /\ k \in Int
    BY <1>1
  <2> QED BY <2>1, GridOrder
<1>4. /\ At(p, s, 0) = p /\ v \in Int /\ At(p, s, -Spare) \in Int
      /\ At(p, s, queue - 1) \in Int /\ At(p, s, Core) \in Int
  <2>1. -Spare \in Int /\ queue - 1 \in Int /\ Core \in Int /\ k \in Int
    BY <1>1
  <2> QED BY <2>1, GridSteps
<1> HIDE DEF v
<1>5. /\ s > 0 => ~(v < At(p, s, -Spare)) /\ ~(v > At(p, s, queue - 1)) /\ ~(v < p)
      /\ s < 0 => ~(v > At(p, s, -Spare)) /\ ~(v < At(p, s, queue - 1)) /\ ~(v > p)
  BY <1>1, <1>2, <1>3, <1>4 DEF Ordered, v
<1>6. v \notin Below(c, Permitted(p, s)[1]) /\ v \notin Above(c, Permitted(p, s)[2])
  BY <1>1, <1>5 DEF Below, Above
<1>7. /\ Below(c, Permitted(p, s)[1]) = {} /\ Above(c, Permitted(p, s)[2]) = {}
      /\ v \in Below(c, Required(p, s)[1]) \/ v \in Above(c, Required(p, s)[2])
  BY <1>6, VictimIsFirst DEF v
<1>8. /\ s > 0 => v > At(p, s, Core)
      /\ s < 0 => v < At(p, s, Core)
  BY <1>1, <1>5, <1>7 DEF Below, Above
<1>9. Core < k
  BY <1>3, <1>8 DEF Ordered, v
<1>10. 0 \in 0..n-1 /\ Core \in 0..n-1
  BY <1>1, <1>9
<1>11. p \in c /\ At(p, s, Core) \in c
  BY <1>4, <1>10 DEF Unbroken
<1> QED BY <1>1, <1>7, <1>11 DEF GoodFor

\* There is one victim at most, and it is in the cache.
LEMMA OneVictim ==
  ASSUME NEW c \in SUBSET Int, NEW p \in Int, NEW s \in Int, Victim(c, p, s) # {}
  PROVE  \E v \in c : Victim(c, p, s) = {v}
<1>1. \A m : \A f, g \in Below(c, m) : f \in c /\ f = g
  BY DEF Below, Lowest
<1>2. \A m : \A f, g \in Above(c, m) : f \in c /\ f = g
  BY DEF Above, Highest
<1>3. \A f, g \in Victim(c, p, s) : f \in c /\ f = g
  BY <1>1, <1>2, VictimIsFirst
<1> QED BY <1>3

\* So a full cache that is not good gets room for one frame, and no frame of
\* the run is missed.
LEMMA RoomIsMade ==
  ASSUME queue \in Nat, queue > 0, NEW h \in Nat, NEW c \in SUBSET (0..h),
         Cardinality(c) = queue, NEW p \in Int, NEW s \in Int, s # 0,
         ~GoodFor(c, p, s), Victim(c, p, s) # {}
  PROVE  /\ Cardinality(c \ Victim(c, p, s)) < queue
         /\ \A n \in Int : Unbroken(c, p, s, n) => Unbroken(c \ Victim(c, p, s), p, s, n)
<1>1. IsFiniteSet(c) /\ c \subseteq Int
  <2>1. IsFiniteSet(0..h)
    BY FS_Interval
  <2>2. IsFiniteSet(c)
    BY <2>1, FS_Subset
  <2> QED BY <2>2
<1>2. PICK v \in c : Victim(c, p, s) = {v}
  BY <1>1, OneVictim
<1>3. Cardinality(c \ {v}) = queue - 1
  BY <1>1, FS_RemoveElement
<1>4. \A n \in Int : Unbroken(c, p, s, n) => Unbroken(c \ Victim(c, p, s), p, s, n)
  BY <1>1, VictimIsSpare
<1>5. Cardinality(c \ Victim(c, p, s)) < queue
  BY <1>2, <1>3
<1> QED BY <1>4, <1>5

-----------------------------------------------------------------------------
(* Cached, for the sound setups.                                           *)

\* What the worker, reading ahead in n frames with a cache of q, has done so
\* far: the frames from its position up to prefetch are there, and prefetch
\* left the media on the far side only.
Fits(c, l, n, q) ==
  /\ l.position \in 0..n-1 /\ l.speed # 0
  /\ OnGrid(c, l.position, l.speed)
  /\ \E k \in Int : /\ l.prefetch = At(l.position, l.speed, k)
                    /\ Unbroken(c, l.position, l.speed, k)
  /\ IF l.speed > 0 THEN l.prefetch >= 0 ELSE l.prefetch <= n - 1
  /\ l.full => l.position \in c
  /\ Cardinality(c) <= q

PlaceFits ==
  /\ 1 <= frames /\ frames <= count /\ count <= length
  /\ position \in 0..frames-1 /\ speed # 0
  /\ queue > 0
  /\ state = "paused" => cache = {}

CacheFits ==
  /\ worker \notin {"none", "begin", "ended"} => Fits(cache, local, count, queue)
  /\ worker \in {"fill", "prefetch", "fetch"} => ~local.full
  /\ worker \in {"prefetch", "fetch"} => Cardinality(cache) < queue

Cached == PlaceFits /\ CacheFits

Locals == [position : Int, speed : Int, prefetch : Int, full : BOOLEAN]

\* More media disturb nothing.
LEMMA FitsMore ==
  ASSUME NEW c, NEW l \in Locals, NEW n \in Int, NEW m \in Int, NEW q, n <= m, Fits(c, l, n, q)
  PROVE  Fits(c, l, m, q)
BY DEF Fits, Locals

\* The worker begins with an empty cache.
LEMMA FitsEmpty ==
  ASSUME NEW l \in Locals, NEW n \in Int, NEW q \in Nat,
         l.position \in 0..n-1, l.speed # 0, l.prefetch = l.position, ~l.full
  PROVE  Fits({}, l, n, q)
<1>1. Cardinality({}) = 0
  BY FS_EmptySet
<1>2. OnGrid({}, l.position, l.speed)
  BY DEF OnGrid
<1>3. l.prefetch = At(l.position, l.speed, 0) /\ Unbroken({}, l.position, l.speed, 0)
  BY GridSteps DEF Unbroken, Locals
<1>4. 0 \in Int
  OBVIOUS
<1> QED BY <1>1, <1>2, <1>3, <1>4 DEF Fits, Locals

\* It follows a client that reads on.
LEMMA FitsLinear ==
  ASSUME NEW c, NEW l \in Locals, NEW m \in Locals, NEW n \in Int, NEW q,
         Fits(c, l, n, q), m.position = l.position + l.speed, m.speed = l.speed,
         m.prefetch = l.prefetch, ~m.full, m.position \in 0..n-1
  PROVE  Fits(c, m, n, q)
<1> DEFINE p == l.position
           s == l.speed
<1>1. p \in Int /\ s \in Int
  BY DEF Locals
<1>2. OnGrid(c, p + s, s)
  <2> SUFFICES ASSUME NEW f \in c PROVE \E k \in Int : f = At(p + s, s, k)
    BY DEF OnGrid
  <2>1. PICK k \in Int : f = At(p, s, k)
    BY DEF Fits, OnGrid
  <2>2. Stepped(p, s, k)
    BY <1>1, GridStep
  <2>3. k - 1 \in Int /\ At(p + s, s, k - 1) = At(p, s, k)
    BY <2>2 DEF Stepped
  <2> QED BY <2>1, <2>3
<1>3. PICK k \in Int : l.prefetch = At(p, s, k) /\ Unbroken(c, p, s, k)
  BY DEF Fits
<1>4. l.prefetch = At(p + s, s, k - 1) /\ k - 1 \in Int
  <2>1. Stepped(p, s, k)
    BY <1>1, GridStep
  <2> QED BY <1>3, <2>1 DEF Stepped
<1>5. Unbroken(c, p + s, s, k - 1)
  <2> SUFFICES ASSUME NEW j \in 0..(k-1)-1 PROVE At(p + s, s, j) \in c
    BY DEF Unbroken
  <2>1. Stepped(p, s, j)
    BY <1>1, GridStep
  <2>2. At(p + s, s, j) = At(p, s, j + 1)
    BY <2>1 DEF Stepped
  <2>3. j + 1 \in 0..k-1
    OBVIOUS
  <2> QED BY <1>3, <2>2, <2>3 DEF Unbroken
<1> HIDE DEF p, s
<1>6. m.position = p + s /\ m.speed = s /\ m.prefetch = l.prefetch
  BY DEF p, s
<1> QED BY <1>2, <1>4, <1>5, <1>6 DEF Fits, p, s

\* It follows one that jumps.
LEMMA FitsJump ==
  ASSUME NEW c \in SUBSET Int, IsFiniteSet(c), NEW l \in Locals, NEW n \in Int, NEW q \in Nat,
         Cardinality(c) <= q, NEW d, d = Scrub(c, l.position, l.speed) \/ d = {},
         l.position \in 0..n-1, l.speed # 0, l.prefetch = l.position, ~l.full
  PROVE  Fits(d, l, n, q)
<1>1. CASE d = {}
  BY <1>1, FitsEmpty
<1>2. CASE d = Scrub(c, l.position, l.speed)
  <2>1. l.position \in Int /\ l.speed \in Int
    BY DEF Locals
  <2>3. OnGrid(d, l.position, l.speed)
    BY <1>2, <2>1, ScrubbedIsOnGrid
  <2>4. d \subseteq c
    BY <1>2 DEF Scrub
  <2>5. Cardinality(d) <= Cardinality(c) /\ Cardinality(d) \in Nat /\ Cardinality(c) \in Nat
    BY <2>4, FS_Subset, FS_CardinalityType
  <2>6. l.prefetch = At(l.position, l.speed, 0) /\ Unbroken(d, l.position, l.speed, 0)
    <3>1. At(l.position, l.speed, 0) = l.position
      BY <2>1, GridSteps
    <3> QED BY <3>1 DEF Unbroken
  <2>7. 0 \in Int
    OBVIOUS
  <2> QED BY <2>3, <2>5, <2>6, <2>7 DEF Fits, Locals
<1> QED BY <1>1, <1>2

\* A frame is passed over, or read.
LEMMA FitsNext ==
  ASSUME NEW c \in SUBSET Int, IsFiniteSet(c), NEW l \in Locals, NEW m \in Locals,
         NEW n \in Int, NEW q \in Nat, Fits(c, l, n, q), l.prefetch \in 0..n-1,
         Cardinality(c) < q \/ l.prefetch \in c, ~l.full,
         m = [l EXCEPT !.prefetch = @ + l.speed]
  PROVE  Fits(c \cup {l.prefetch}, m, n, q)
<1> DEFINE p == l.position
           s == l.speed
           d == c \cup {l.prefetch}
<1>1. p \in Int /\ s \in Int /\ m.position = p /\ m.speed = s /\ ~m.full
      /\ m.prefetch = l.prefetch + s /\ l.prefetch \in Int
  BY DEF Locals
<1>2. PICK k \in Int : l.prefetch = At(p, s, k) /\ Unbroken(c, p, s, k)
  BY DEF Fits
<1>3. m.prefetch = At(p, s, k + 1) /\ k + 1 \in Int
  <2>1. Stepped(p, s, k)
    BY <1>1, GridStep
  <2> QED BY <1>1, <1>2, <2>1 DEF Stepped
<1>4. Unbroken(d, p, s, k + 1)
  <2> SUFFICES ASSUME NEW j \in 0..(k+1)-1 PROVE At(p, s, j) \in d
    BY DEF Unbroken
  <2>1. CASE j = k
    BY <2>1, <1>2
  <2>2. CASE j # k
    <3>1. j \in 0..k-1
      BY <2>2
    <3> QED BY <3>1, <1>2 DEF Unbroken
  <2> QED BY <2>1, <2>2
<1>5. OnGrid(d, p, s)
  BY <1>2 DEF Fits, OnGrid
<1>6. Cardinality(d) <= q
  <2>1. Cardinality(c) \in Nat /\ Cardinality(c) <= q
    BY FS_CardinalityType DEF Fits
  <2>2. Cardinality(d) = IF l.prefetch \in c THEN Cardinality(c) ELSE Cardinality(c) + 1
    BY FS_AddElement
  <2> QED BY <2>1, <2>2
<1>7. IF s > 0 THEN m.prefetch >= 0 ELSE m.prefetch <= n - 1
  BY <1>1 DEF Fits
<1>8. p \in 0..n-1 /\ s # 0
  BY DEF Fits
<1> HIDE DEF p, s, d
<1>9. Fits(d, m, n, q)
  BY <1>1, <1>3, <1>4, <1>5, <1>6, <1>7, <1>8 DEF Fits
<1> QED BY <1>9 DEF d

\* What the sound setups exclude.
LEMMA SoundSetups ==
  ASSUME Types, Sound
  PROVE  /\ queue > 0 /\ asked.queue > 0 /\ setup.synced /\ ~setup.mayShrink /\ ~setup.faulty
         /\ queue \in Nat /\ asked.queue \in Nat /\ Longest \in Nat /\ length \in 1..Longest
         /\ cache \subseteq Int /\ IsFiniteSet(cache) /\ Cardinality(cache) \in Nat
<1>1. queue \in 0..Longest /\ asked.queue \in 0..Longest /\ Longest \in Nat /\ length \in 1..Longest
  BY SetupTypes DEF Types, StateTypes, ClientTypes, SettingTypes, PlaceTypes,
       MediaTypes, ThreadTypes
<1>2. queue # 0 /\ asked.queue # 0
  BY DEF Sound, Types, StateTypes, ClientTypes, SettingTypes, PlaceTypes,
       MediaTypes, ThreadTypes
<1>3. IsFiniteSet(0..Longest-1)
  BY <1>1, FS_Interval
<1>4. IsFiniteSet(cache)
  BY <1>3, FS_Subset DEF Types, StateTypes, ClientTypes, SettingTypes,
       PlaceTypes, MediaTypes, ThreadTypes
<1> QED BY <1>1, <1>2, <1>4, FS_CardinalityType DEF Sound, Types, StateTypes,
     ClientTypes, SettingTypes, PlaceTypes, MediaTypes, ThreadTypes

\* Where the client is, and how long its media are.
LEMMA PlaceStep ==
  ASSUME Types, Handover, Sound, Control, Cached, [Next]_vars
  PROVE  PlaceFits'
<1> USE SoundSetups DEF Types, StateTypes, ClientTypes, SettingTypes,
     PlaceTypes, MediaTypes, ThreadTypes, Handover, Control, Cached, PlaceFits,
     AtWork, control, client, settings, place, media, thread
<1>1. CASE \E p \in setup.targets : Seek(p, FALSE)
  <2>1. PICK p \in setup.targets : Seek(p, FALSE)
    BY <1>1
  <2>2. p \in Int /\ frames \in Int /\ frames >= 1
    BY SetupTypes
  <2>3. position' \in 0..frames-1 /\ speed' # 0
    BY <2>1, <2>2 DEF Seek, Clamped
  <2> QED BY <2>1, <2>3 DEF Seek
<1>2. CASE \E p \in setup.offsets : Seek(p, TRUE)
  <2>1. PICK p \in setup.offsets : Seek(p, TRUE)
    BY <1>2
  <2>2. p \in Int /\ frames \in Int /\ frames >= 1
    BY SetupTypes
  <2>3. position' \in 0..frames-1 /\ speed' # 0
    BY <2>1, <2>2 DEF Seek, Clamped
  <2> QED BY <2>1, <2>3 DEF Seek
<1>3. CASE Rethrow
  BY <1>3 DEF Rethrow, ConsumeError, Enter, WorkerFree
<1>4. CASE Sync
  BY <1>4 DEF Sync, Enter, WorkerFree
<1>5. CASE Shrink
  BY <1>5 DEF Shrink, Enter, WorkerFree
<1>6. CASE FetchDirectly
  BY <1>6 DEF FetchDirectly, Enter, WorkerFree
<1>7. CASE FetchAhead
  BY <1>7 DEF FetchAhead, Enter, WorkerFree
<1>8. CASE \E i \in setup.inputs : Connect(i)
  BY <1>8 DEF Connect, Enter, WorkerFree
<1>9. CASE \E a \in setup.actives : SetActive(a)
  BY <1>9 DEF SetActive, Enter, WorkerFree
<1>10. CASE \E q \in setup.queues : SetQueue(q)
  BY <1>10 DEF SetQueue, Enter, WorkerFree
<1>11. CASE Destroy
  BY <1>11 DEF Destroy, Enter, WorkerFree
<1>12. CASE UpdateActive
  BY <1>12 DEF UpdateActive, Busy
<1>13. CASE UpdateQueue
  BY <1>13 DEF UpdateQueue, Busy
<1>14. CASE CheckError
  BY <1>14 DEF CheckError, ConsumeError
<1>15. CASE NothingToChange
  BY <1>15 DEF NothingToChange, Busy
<1>16. CASE CreateThread
  BY <1>16 DEF CreateThread, Busy
<1>17. CASE ChooseState
  BY <1>17 DEF ChooseState, Busy
<1>18. CASE ApplyState
  BY <1>18 DEF ApplyState, Busy, NotifyWorker
<1>19. CASE ApplyAgain
  BY <1>19 DEF ApplyAgain, ConsumeError, WorkerFree
<1>20. CASE FetchAgain
  BY <1>20 DEF FetchAgain, ConsumeError, WorkerFree
<1>21. CASE Destroyed
  BY <1>21 DEF Destroyed, Busy
<1>22. CASE Return
  BY <1>22 DEF Return
<1>23. CASE Begin
  BY <1>23 DEF Begin, MainFree
<1>24. CASE AcceptDead
  BY <1>24 DEF AcceptDead, Locked, MainFree, NotifyMain, Fresh
<1>25. CASE AcceptPaused
  BY <1>25 DEF AcceptPaused, Locked, MainFree, NotifyMain
<1>26. CASE AcceptRunning
  BY <1>26 DEF AcceptRunning, Locked, MainFree, NotifyMain
<1>27. CASE SyncDone
  BY <1>27 DEF SyncDone, MainFree
<1>28. CASE FollowClient
  BY <1>28 DEF FollowClient, Locked, MainFree, Scrub
<1>29. CASE GoOn
  BY <1>29 DEF GoOn, Locked, MainFree
<1>30. CASE Wait
  BY <1>30 DEF Wait, Locked, MainFree, Moved
<1>31. CASE Fill
  BY <1>31 DEF Fill, Locked, MainFree
<1>32. CASE Full
  BY <1>32 DEF Full, Locked, MainFree
<1>33. CASE PassCached
  BY <1>33 DEF PassCached, Locked, MainFree
<1>34. CASE EndOfMedia
  BY <1>34 DEF EndOfMedia, Locked, MainFree
<1>35. CASE Prefetch
  BY <1>35 DEF Prefetch, Locked, MainFree, InMedia
<1>36. CASE Insert
  BY <1>36 DEF Insert, MainFree, NotifyMain
<1>37. CASE EnforceFails
  BY <1>37 DEF EnforceFails, MainFree, Fail, NotifyMain, Fresh
<1>38. CASE InputFails
  BY <1>38 DEF InputFails, MainFree, Fail, NotifyMain, Fresh
<1>39. CASE Awake
  BY <1>39 DEF Awake, MainFree
<1>40. CASE WaitTimesOut
  BY <1>40 DEF WaitTimesOut
<1>41. CASE Grow
  <2>1. length' >= length /\ length' \in Int
    BY <1>41, SetupTypes DEF Grow
  <2> QED BY <1>41, <2>1 DEF Grow
<1>42. CASE TimePasses
  BY <1>42 DEF TimePasses
<1>43. CASE UNCHANGED vars
  BY <1>43 DEF vars
<1> QED
  BY <1>1, <1>2, <1>3, <1>4, <1>5, <1>6, <1>7, <1>8, <1>9, <1>10, <1>11, <1>12,
       <1>13, <1>14, <1>15, <1>16, <1>17, <1>18, <1>19, <1>20, <1>21, <1>22,
       <1>23, <1>24, <1>25, <1>26, <1>27, <1>28, <1>29, <1>30, <1>31, <1>32,
       <1>33, <1>34, <1>35, <1>36, <1>37, <1>38, <1>39, <1>40, <1>41, <1>42,
       <1>43 DEF Next, Client, Proceed, Worker, Terminated

\* The ARENFORCE statements hold.
LEMMA NothingFails ==
  ASSUME Types, Handover, Sound, Control, Cached
  PROVE  ~EnforceFails
<1> SUFFICES ASSUME EnforceFails PROVE FALSE
  OBVIOUS
<1> DEFINE p == local.position
           s == local.speed
<1>1. worker \in {"sync", "look", "fill"} /\ Fits(cache, local, count, queue)
  BY DEF EnforceFails, Cached, CacheFits
<1>2. /\ p \in 0..count-1 /\ s # 0 /\ p \in Int /\ s \in Int /\ count \in Int
      /\ local.prefetch \in Int
      /\ Cardinality(cache) <= queue
      /\ IF s > 0 THEN local.prefetch >= 0 ELSE local.prefetch <= count - 1
  BY <1>1 DEF Fits, Types, StateTypes, ClientTypes, SettingTypes, PlaceTypes,
       MediaTypes, ThreadTypes
<1>3. queue \in Nat /\ queue > 0 /\ Longest \in Nat /\ Longest - 1 \in Nat
      /\ Cardinality(cache) \in Nat /\ cache \in SUBSET (0..Longest-1)
  BY SoundSetups DEF Types, StateTypes, ClientTypes, SettingTypes, PlaceTypes,
       MediaTypes, ThreadTypes
<1>4. ~(worker = "sync" /\ length < count)
  BY SoundSetups, <1>2 DEF Cached, PlaceFits
<1>5. ASSUME worker = "look", ~Wanting PROVE p \in cache
  <2>1. CASE local.full
    BY <1>1, <2>1 DEF Fits
  <2>2. CASE ~local.full
    <3>1. local.prefetch \notin 0..count-1
      BY <1>5, <2>2 DEF Wanting, InMedia
    <3>2. PICK k \in Int : local.prefetch = At(p, s, k) /\ Unbroken(cache, p, s, k)
      BY <1>1 DEF Fits
    <3>3. 0 \in Int /\ At(p, s, 0) = p
      BY <1>2 DEF At
    <3>4. Ordered(p, s, 0, k)
      BY <1>2, <3>3, GridOrder
    <3>5. IF s > 0 THEN At(p, s, 0) < At(p, s, k) ELSE At(p, s, 0) > At(p, s, k)
      BY <1>2, <3>1, <3>2, <3>3
    <3>6. 0 < k
      BY <1>2, <3>4, <3>5 DEF Ordered
    <3> QED BY <3>2, <3>3, <3>6 DEF Unbroken
  <2> QED BY <2>1, <2>2
<1>6. ASSUME GoodFor(cache, p, s) PROVE p \in cache
  <2>1. Required(p, s)[1] \in cache /\ Required(p, s)[2] \in cache
    BY <1>6 DEF GoodFor
  <2> QED BY <1>2, <2>1 DEF Required
<1>7. ASSUME worker = "fill", Cardinality(cache) = queue, ~GoodFor(cache, p, s)
      PROVE  Victim(cache, p, s) # {}
  BY <1>1, <1>2, <1>3, <1>7, VictimExists DEF Fits
<1> QED BY <1>2, <1>3, <1>4, <1>5, <1>6, <1>7 DEF EnforceFails

\* What the worker has read, and where it goes on.
LEMMA CacheStep ==
  ASSUME Types, Handover, Sound, Control, Cached, [Next]_vars
  PROVE  CacheFits'
<1> USE DEF Types, StateTypes, ClientTypes, SettingTypes, PlaceTypes,
     MediaTypes, ThreadTypes, Handover, Control, Cached, CacheFits, AtWork,
     control, client, settings, place, media, thread
<1>1. CASE \E p \in setup.targets : Seek(p, FALSE)
  BY <1>1 DEF Seek, Clamped, NotifyWorker, Enter, WorkerFree
<1>2. CASE \E p \in setup.offsets : Seek(p, TRUE)
  BY <1>2 DEF Seek, Clamped, NotifyWorker, Enter, WorkerFree
<1>3. CASE Rethrow
  BY <1>3 DEF Rethrow, ConsumeError, Enter, WorkerFree
<1>4. CASE Sync
  <2>1. count' >= count /\ count' \in Int /\ local \in Locals
    BY <1>4, SoundSetups DEF Sync, PlaceFits, Locals
  <2>2. Fits(cache, local, count, queue) => Fits(cache, local, count', queue)
    BY <2>1, FitsMore
  <2> QED BY <1>4, <2>2 DEF Sync, Enter, WorkerFree
<1>5. CASE Shrink
  BY <1>5 DEF Shrink, Sound
<1>6. CASE FetchDirectly
  BY <1>6 DEF FetchDirectly, Enter, WorkerFree
<1>7. CASE FetchAhead
  BY <1>7 DEF FetchAhead, Enter, WorkerFree
<1>8. CASE \E i \in setup.inputs : Connect(i)
  BY <1>8 DEF Connect, Enter, WorkerFree
<1>9. CASE \E a \in setup.actives : SetActive(a)
  BY <1>9 DEF SetActive, Enter, WorkerFree
<1>10. CASE \E q \in setup.queues : SetQueue(q)
  BY <1>10 DEF SetQueue, Enter, WorkerFree
<1>11. CASE Destroy
  BY <1>11 DEF Destroy, Enter, WorkerFree
<1>12. CASE UpdateActive
  BY <1>12 DEF UpdateActive, Busy
<1>13. CASE UpdateQueue
  <2>1. todo # <<>> /\ todo[1] = "queue" /\ main = "busy"
    BY <1>13, Todo DEF UpdateQueue, Busy
  <2>2. state = "paused" /\ cache = {}
    BY <2>1 DEF CallFits, Doing, Target, PlaceFits
  <2>3. Cardinality({}) = 0 /\ queue' \in Nat
    BY <1>13, SoundSetups, FS_EmptySet DEF UpdateQueue
  <2>4. Fits(cache, local, count, queue) => Fits(cache, local, count, queue')
    BY <2>2, <2>3 DEF Fits
  <2> QED BY <1>13, <2>2, <2>4 DEF UpdateQueue
<1>14. CASE CheckError
  BY <1>14 DEF CheckError, ConsumeError
<1>15. CASE NothingToChange
  BY <1>15 DEF NothingToChange, Busy
<1>16. CASE CreateThread
  <2>1. worker = "none"
    BY <1>16 DEF CreateThread, Busy, ThreadFits, Doing
  <2> QED BY <1>16, <2>1 DEF CreateThread, Busy
<1>17. CASE ChooseState
  BY <1>17 DEF ChooseState, Busy
<1>18. CASE ApplyState
  BY <1>18 DEF ApplyState, Busy, NotifyWorker
<1>19. CASE ApplyAgain
  BY <1>19 DEF ApplyAgain, ConsumeError, WorkerFree
<1>20. CASE FetchAgain
  BY <1>20 DEF FetchAgain, ConsumeError, WorkerFree
<1>21. CASE Destroyed
  BY <1>21 DEF Destroyed, Busy
<1>22. CASE Return
  BY <1>22 DEF Return
<1>23. CASE Begin
  <2>1. Fits({}, local', count, queue)
    <3>1. local' \in Locals /\ ~local'.full /\ local'.prefetch = local'.position
          /\ local'.position = position /\ local'.speed = speed
      BY <1>23 DEF Begin, Locals
    <3>2. position \in 0..count-1 /\ speed # 0 /\ count \in Int /\ queue \in Nat
      BY SoundSetups DEF PlaceFits
    <3> HIDE DEF Types, Handover, Control, Cached, CacheFits
    <3>3. local'.position \in 0..count-1 /\ local'.speed # 0
      BY <3>1, <3>2
    <3> QED BY <3>1, <3>2, <3>3, FitsEmpty
  <2>2. UNCHANGED <<count, queue>> /\ cache' = {} /\ worker' = "top"
    BY <1>23 DEF Begin
  <2> QED BY <2>1, <2>2
<1>24. CASE AcceptDead
  BY <1>24 DEF AcceptDead, Locked, MainFree, NotifyMain, Fresh
<1>25. CASE AcceptPaused
  <2>1. Fits(cache, local, count, queue) /\ local \in Locals
    BY <1>25 DEF AcceptPaused, Locked, Locals
  <2>2. Fits({}, local', count, queue)
    <3>1. local' \in Locals /\ ~local'.full /\ local'.prefetch = local'.position
          /\ local'.position = local.position /\ local'.speed = local.speed
      BY <1>25 DEF AcceptPaused, Locals
    <3>2. local.position \in 0..count-1 /\ local.speed # 0
      BY <2>1 DEF Fits
    <3>3. count \in Int /\ queue \in Nat
      BY SoundSetups
    <3> HIDE DEF Types, Handover, Control, Cached, CacheFits
    <3> QED BY <3>1, <3>2, <3>3, FitsEmpty
  <2> QED BY <1>25, <2>2 DEF AcceptPaused
<1>26. CASE AcceptRunning
  BY <1>26 DEF AcceptRunning, Locked, MainFree, NotifyMain
<1>27. CASE SyncDone
  <2>1. count' >= count /\ count' \in Int /\ local \in Locals
    BY <1>27, SoundSetups DEF SyncDone, Locals
  <2>2. Fits(cache, local, count, queue) => Fits(cache, local, count', queue)
    BY <2>1, FitsMore
  <2> QED BY <1>27, <2>2 DEF SyncDone
<1>28. CASE FollowClient
  <2>1. Fits(cache, local, count, queue) /\ local \in Locals /\ count \in Int /\ queue \in Nat
    BY <1>28, SoundSetups DEF FollowClient, Locked, Locals
  <2>2. local' \in Locals /\ local'.position = position /\ local'.speed = speed /\ ~local'.full
        /\ local'.prefetch = IF Linear THEN local.prefetch ELSE position
    BY <1>28 DEF FollowClient, Locals
  <2>3. position \in 0..count-1 /\ speed # 0
    BY DEF PlaceFits
  <2>4. CASE Linear
    <3>1. local'.position = local.position + local.speed /\ local'.speed = local.speed
          /\ local'.prefetch = local.prefetch /\ cache' = cache
      BY <1>28, <2>2, <2>4 DEF FollowClient, Linear
    <3>2. Fits(cache, local', count, queue)
      BY <2>1, <2>2, <2>3, <3>1, FitsLinear
    <3> QED BY <1>28, <2>2, <3>1, <3>2 DEF FollowClient
  <2>5. CASE ~Linear
    <3>1. (cache' = Scrub(cache, local'.position, local'.speed) \/ cache' = {})
          /\ local'.prefetch = local'.position
      BY <1>28, <2>2, <2>5 DEF FollowClient
    <3>2. cache \in SUBSET Int /\ IsFiniteSet(cache) /\ Cardinality(cache) <= queue
      BY <2>1, SoundSetups DEF Fits
    <3>3. Fits(cache', local', count, queue)
      BY <2>1, <2>2, <2>3, <3>1, <3>2, FitsJump
    <3> QED BY <1>28, <2>2, <3>3 DEF FollowClient
  <2> QED BY <2>4, <2>5
<1>29. CASE GoOn
  BY <1>29 DEF GoOn, Locked, Wanting
<1>30. CASE Wait
  BY <1>30 DEF Wait, Locked, MainFree, Moved
<1>31. CASE Fill
  <2>1. Fits(cache, local, count, queue) /\ local \in Locals /\ queue \in Nat
        /\ local.position \in Int /\ local.speed \in Int /\ local.speed # 0
    BY <1>31, SoundSetups DEF Fill, Locked, Locals, Fits
  <2>2. CASE Cardinality(cache) < queue /\ cache' = cache
    BY <1>31, <2>1, <2>2 DEF Fill, Locked
  <2>3. CASE /\ Cardinality(cache) = queue /\ queue > 0
             /\ ~GoodFor(cache, local.position, local.speed)
             /\ Victim(cache, local.position, local.speed) # {}
             /\ cache' = cache \ Victim(cache, local.position, local.speed)
    <3>1. Longest - 1 \in Nat /\ cache \in SUBSET (0..Longest-1)
      BY SoundSetups
    <3>2. /\ Cardinality(cache') < queue
          /\ \A n \in Int : Unbroken(cache, local.position, local.speed, n)
                            => Unbroken(cache', local.position, local.speed, n)
      BY <2>1, <2>3, <3>1, RoomIsMade
    <3>3. ~local.full /\ cache' \subseteq cache
      BY <1>31, <2>3 DEF Fill, Locked
    <3>4. OnGrid(cache', local.position, local.speed)
      BY <2>1, <3>3 DEF Fits, OnGrid
    <3>5. IsFiniteSet(cache') /\ Cardinality(cache') \in Nat
      BY <3>3, SoundSetups, FS_Subset, FS_CardinalityType
    <3>6. Fits(cache', local, count, queue)
      BY <2>1, <3>2, <3>3, <3>4, <3>5 DEF Fits
    <3> QED BY <1>31, <3>2, <3>3, <3>6 DEF Fill
  <2> QED BY <1>31, <2>2, <2>3 DEF Fill
<1>32. CASE Full
  <2>1. Fits(cache, local, count, queue)
    BY <1>32 DEF Full, Locked
  <2>2. local' = [local EXCEPT !.full = TRUE] /\ local.position \in cache
    BY <1>32 DEF Full
  <2>3. local'.position = local.position /\ local'.speed = local.speed
        /\ local'.prefetch = local.prefetch
    BY <2>2
  <2>4. Fits(cache, local', count, queue)
    BY <2>1, <2>2, <2>3 DEF Fits
  <2> QED BY <1>32, <2>4 DEF Full
<1>33. CASE PassCached
  <2>1. Fits(cache, local, count, queue) /\ local \in Locals /\ count \in Int /\ queue \in Nat
        /\ ~local.full
    BY <1>33, SoundSetups DEF PassCached, Locked, Locals
  <2>2. local' = [local EXCEPT !.prefetch = @ + local.speed] /\ local' \in Locals
        /\ local.prefetch \in 0..count-1 /\ local.prefetch \in cache
    <3>1. /\ local' = [local EXCEPT !.prefetch = @ + local.speed]
          /\ local.prefetch \in 0..count-1 /\ local.prefetch \in cache
      BY <1>33 DEF PassCached, InMedia
    <3> HIDE DEF Types, Handover, Control, Cached, CacheFits
    <3>2. local' \in Locals
      BY <2>1, <3>1 DEF Locals
    <3> QED BY <3>1, <3>2
  <2>3. Fits(cache \cup {local.prefetch}, local', count, queue)
    BY <2>1, <2>2, SoundSetups, FitsNext
  <2>4. cache \cup {local.prefetch} = cache /\ local'.full = local.full
    BY <2>2 DEF Locals
  <2> QED BY <1>33, <2>3, <2>4 DEF PassCached, Locked
<1>34. CASE EndOfMedia
  BY <1>34 DEF EndOfMedia, Locked, MainFree
<1>35. CASE Prefetch
  BY <1>35 DEF Prefetch, Locked, MainFree, InMedia
<1>36. CASE Insert
  <2>1. Fits(cache, local, count, queue) /\ local \in Locals /\ count \in Int /\ queue \in Nat
        /\ ~local.full /\ Cardinality(cache) < queue /\ local.prefetch \in 0..count-1
    BY <1>36, SoundSetups DEF Insert, Locals
  <2>2. local' = [local EXCEPT !.prefetch = @ + local.speed] /\ local' \in Locals
        /\ cache' = cache \cup {local.prefetch}
    <3>1. /\ local' = [local EXCEPT !.prefetch = @ + local.speed]
          /\ cache' = cache \cup {local.prefetch}
      BY <1>36 DEF Insert
    <3> HIDE DEF Types, Handover, Control, Cached, CacheFits
    <3>2. local' \in Locals
      BY <2>1, <3>1 DEF Locals
    <3> QED BY <3>1, <3>2
  <2>3. Fits(cache', local', count, queue)
    BY <2>1, <2>2, SoundSetups, FitsNext
  <2> QED BY <1>36, <2>3 DEF Insert
<1>37. CASE EnforceFails
  BY <1>37, NothingFails
<1>38. CASE InputFails
  BY <1>38 DEF InputFails, Sound
<1>39. CASE Awake
  BY <1>39 DEF Awake, MainFree
<1>40. CASE WaitTimesOut
  BY <1>40 DEF WaitTimesOut
<1>41. CASE Grow
  BY <1>41 DEF Grow
<1>42. CASE TimePasses
  BY <1>42 DEF TimePasses
<1>43. CASE UNCHANGED vars
  BY <1>43 DEF vars
<1> QED
  BY <1>1, <1>2, <1>3, <1>4, <1>5, <1>6, <1>7, <1>8, <1>9, <1>10, <1>11, <1>12,
       <1>13, <1>14, <1>15, <1>16, <1>17, <1>18, <1>19, <1>20, <1>21, <1>22,
       <1>23, <1>24, <1>25, <1>26, <1>27, <1>28, <1>29, <1>30, <1>31, <1>32,
       <1>33, <1>34, <1>35, <1>36, <1>37, <1>38, <1>39, <1>40, <1>41, <1>42,
       <1>43 DEF Next, Client, Proceed, Worker, Terminated

-----------------------------------------------------------------------------
(* One thread, for the setups without unsafe inputs.                       *)

\* Between two waits of the client the state is the one that was asked for, and
\* "dead" means that there is no thread, unless the call is about to start it.
Single ==
  /\ safe
  /\ main # "applying" => state = newState
  /\ main # "applying" /\ state = "dead" /\ ~error =>
       \/ worker = "none"
       \/ main = "busy" /\ todo # <<>> /\ todo[1] = "running"
  /\ worker # "two"

\* Each step keeps it so, whatever fails.
LEMMA SingleStep ==
  ASSUME Types, Handover, "unsafe" \notin setup.inputs, Single, [Next]_vars
  PROVE  Single'
<1> USE DEF Types, StateTypes, ClientTypes, ThreadTypes, Handover, Single,
     control, client, settings, place, media, thread
<1>h. main = "busy" /\ todo # <<>> => Head(todo) = todo[1]
  BY Todo
<1>2. CASE \E p \in setup.targets : Seek(p, FALSE)
  BY <1>2 DEF Seek, Clamped, NotifyWorker, Enter, WorkerFree
<1>3. CASE \E p \in setup.offsets : Seek(p, TRUE)
  BY <1>3 DEF Seek, Clamped, NotifyWorker, Enter, WorkerFree
<1>4. CASE Rethrow
  BY <1>4 DEF Rethrow, ConsumeError, Enter, WorkerFree
<1>5. CASE Sync
  BY <1>5 DEF Sync, Enter, WorkerFree
<1>6. CASE Shrink
  BY <1>6 DEF Shrink, Enter, WorkerFree
<1>7. CASE FetchDirectly
  BY <1>7 DEF FetchDirectly, Enter, WorkerFree
<1>8. CASE FetchAhead
  BY <1>8 DEF FetchAhead, Enter, WorkerFree
<1>9. CASE \E i \in setup.inputs : Connect(i)
  <2>1. setup.inputs \subseteq {"safe", "unsafe"}
    BY ThreaderAssumption DEF MediaTypes
  <2>2. safe' /\ UNCHANGED <<control, client, thread>>
    BY <1>9, <2>1 DEF Connect
  <2> QED BY <2>2
<1>10. CASE \E a \in setup.actives : SetActive(a)
  BY <1>10 DEF SetActive, Enter, WorkerFree
<1>11. CASE \E q \in setup.queues : SetQueue(q)
  BY <1>11 DEF SetQueue, Enter, WorkerFree
<1>12. CASE Destroy
  BY <1>12 DEF Destroy, Enter, WorkerFree
<1>13. CASE UpdateActive
  BY <1>13, <1>h DEF UpdateActive, Busy
<1>14. CASE UpdateQueue
  BY <1>14, <1>h DEF UpdateQueue, Busy
<1>15. CASE CheckError
  BY <1>15 DEF CheckError, ConsumeError
<1>16. CASE NothingToChange
  BY <1>16, <1>h DEF NothingToChange, Busy
<1>17. CASE CreateThread
  BY <1>17, <1>h DEF CreateThread, Busy
<1>18. CASE ChooseState
  BY <1>18, <1>h DEF ChooseState, Busy
<1>19. CASE ApplyState
  BY <1>19, <1>h DEF ApplyState, Busy, NotifyWorker
<1>20. CASE ApplyAgain
  BY <1>20 DEF ApplyAgain, ConsumeError, WorkerFree
<1>21. CASE FetchAgain
  BY <1>21 DEF FetchAgain, ConsumeError, WorkerFree
<1>22. CASE Destroyed
  BY <1>22, <1>h DEF Destroyed, Busy
<1>23. CASE Return
  BY <1>23 DEF Return
<1>24. CASE Begin
  BY <1>24 DEF Begin, MainFree
<1>25. CASE AcceptDead
  BY <1>25 DEF AcceptDead, Locked, MainFree, NotifyMain, Fresh
<1>26. CASE AcceptPaused
  BY <1>26 DEF AcceptPaused, Locked, MainFree, NotifyMain
<1>27. CASE AcceptRunning
  BY <1>27 DEF AcceptRunning, Locked, MainFree, NotifyMain
<1>28. CASE SyncDone
  BY <1>28 DEF SyncDone, MainFree
<1>29. CASE FollowClient
  BY <1>29 DEF FollowClient, Locked, MainFree, Scrub
<1>30. CASE GoOn
  BY <1>30 DEF GoOn, Locked, MainFree
<1>31. CASE Wait
  BY <1>31 DEF Wait, Locked, MainFree, Moved
<1>32. CASE Fill
  BY <1>32 DEF Fill, Locked, MainFree
<1>33. CASE Full
  BY <1>33 DEF Full, Locked, MainFree
<1>34. CASE PassCached
  BY <1>34 DEF PassCached, Locked, MainFree
<1>35. CASE EndOfMedia
  BY <1>35 DEF EndOfMedia, Locked, MainFree
<1>36. CASE Prefetch
  BY <1>36 DEF Prefetch, Locked, MainFree, InMedia
<1>37. CASE Insert
  BY <1>37 DEF Insert, MainFree, NotifyMain
<1>38. CASE Awake
  BY <1>38 DEF Awake, MainFree
<1>39. CASE WaitTimesOut
  BY <1>39 DEF WaitTimesOut
<1>40. CASE Grow
  BY <1>40 DEF Grow
<1>41. CASE TimePasses
  BY <1>41 DEF TimePasses
<1>43. CASE EnforceFails \/ InputFails
  BY <1>43 DEF EnforceFails, InputFails, Fail, NotifyMain, MainFree
<1>42. CASE UNCHANGED vars
  BY <1>42 DEF vars
<1> QED
  BY <1>2, <1>3, <1>4, <1>5, <1>6, <1>7, <1>8, <1>9, <1>10, <1>11, <1>12,
       <1>13, <1>14, <1>15, <1>16, <1>17, <1>18, <1>19, <1>20, <1>21, <1>22,
       <1>23, <1>24, <1>25, <1>26, <1>27, <1>28, <1>29, <1>30, <1>31, <1>32,
       <1>33, <1>34, <1>35, <1>36, <1>37, <1>38, <1>39, <1>40, <1>41,
       <1>42, <1>43 DEF Next, Client, Proceed, Worker, Terminated

-----------------------------------------------------------------------------
(* The theorems.                                                           *)

Inv ==
  /\ Types /\ Handover
  /\ "unsafe" \notin setup.inputs => Single
  /\ Sound => Control /\ Cached

\* Every sound setup begins with a client that has called nothing.
LEMMA SoundInit == ASSUME Init, Types, Sound PROVE Control /\ Cached
<1>1. length \in 1..Longest /\ queue > 0
  BY SoundSetups
<1>2. frames = length /\ count = length
  BY DEF Init, Sound
<1>3. Control
  BY DEF Init, Control, CallFits, ThreadFits, Doing, Target
<1>4. Cached
  BY <1>1, <1>2 DEF Init, Cached, PlaceFits, CacheFits
<1> QED BY <1>3, <1>4

\* The setup is fixed.
LEMMA SoundIsFixed == [Next]_vars => setup' = setup
BY DEF Next, Client, Proceed, Worker, Terminated, vars, control, client,
     settings, place, media,
       thread, Seek, Rethrow, Sync, Shrink, FetchDirectly, FetchAhead, Connect, SetActive,
       SetQueue, Destroy, UpdateActive, UpdateQueue, CheckError, NothingToChange, CreateThread,
       ChooseState, ApplyState, ApplyAgain, FetchAgain, Destroyed, Return, Begin, AcceptDead,
       AcceptPaused, AcceptRunning, SyncDone, FollowClient, GoOn, Wait, Fill, Full, PassCached,
       EndOfMedia, Prefetch, Insert, EnforceFails, InputFails, Fail, Awake, WaitTimesOut, Grow,
       TimePasses

\* For a sound setup no error arises, and the input stays thread safe.
LEMMA SafeStep ==
  ASSUME Types, Handover, Sound, Control, Cached, [Next]_vars
  PROVE  ~error' /\ safe'
<1> USE DEF Types, StateTypes, ClientTypes, SettingTypes, PlaceTypes,
     MediaTypes, ThreadTypes, Control, control, client, settings, place, media,
     thread
<1>1. ~EnforceFails /\ ~InputFails
  BY NothingFails DEF InputFails, Sound
<1>2. CASE \E p \in setup.targets : Seek(p, FALSE)
  BY <1>2 DEF Seek, Clamped, NotifyWorker, Enter, WorkerFree
<1>3. CASE \E p \in setup.offsets : Seek(p, TRUE)
  BY <1>3 DEF Seek, Clamped, NotifyWorker, Enter, WorkerFree
<1>4. CASE Rethrow
  BY <1>4 DEF Rethrow, ConsumeError, Enter, WorkerFree
<1>5. CASE Sync
  BY <1>5 DEF Sync, Enter, WorkerFree
<1>6. CASE Shrink
  BY <1>6 DEF Shrink, Enter, WorkerFree
<1>7. CASE FetchDirectly
  BY <1>7 DEF FetchDirectly, Enter, WorkerFree
<1>8. CASE FetchAhead
  BY <1>8 DEF FetchAhead, Enter, WorkerFree
<1>9. CASE \E i \in setup.inputs : Connect(i)
  <2>1. setup.inputs \subseteq {"safe", "unsafe"}
    BY ThreaderAssumption
  <2> QED BY <1>9, <2>1 DEF Connect, Sound
<1>10. CASE \E a \in setup.actives : SetActive(a)
  BY <1>10 DEF SetActive, Enter, WorkerFree
<1>11. CASE \E q \in setup.queues : SetQueue(q)
  BY <1>11 DEF SetQueue, Enter, WorkerFree
<1>12. CASE Destroy
  BY <1>12 DEF Destroy, Enter, WorkerFree
<1>13. CASE UpdateActive
  BY <1>13 DEF UpdateActive, Busy
<1>14. CASE UpdateQueue
  BY <1>14 DEF UpdateQueue, Busy
<1>15. CASE CheckError
  BY <1>15 DEF CheckError, ConsumeError
<1>16. CASE NothingToChange
  BY <1>16 DEF NothingToChange, Busy
<1>17. CASE CreateThread
  BY <1>17 DEF CreateThread, Busy
<1>18. CASE ChooseState
  BY <1>18 DEF ChooseState, Busy
<1>19. CASE ApplyState
  BY <1>19 DEF ApplyState, Busy, NotifyWorker
<1>20. CASE ApplyAgain
  BY <1>20 DEF ApplyAgain, ConsumeError, WorkerFree
<1>21. CASE FetchAgain
  BY <1>21 DEF FetchAgain, ConsumeError, WorkerFree
<1>22. CASE Destroyed
  BY <1>22 DEF Destroyed, Busy
<1>23. CASE Return
  BY <1>23 DEF Return
<1>24. CASE Begin
  BY <1>24 DEF Begin, MainFree
<1>25. CASE AcceptDead
  BY <1>25 DEF AcceptDead, Locked, MainFree, NotifyMain, Fresh
<1>26. CASE AcceptPaused
  BY <1>26 DEF AcceptPaused, Locked, MainFree, NotifyMain
<1>27. CASE AcceptRunning
  BY <1>27 DEF AcceptRunning, Locked, MainFree, NotifyMain
<1>28. CASE SyncDone
  BY <1>28 DEF SyncDone, MainFree
<1>29. CASE FollowClient
  BY <1>29 DEF FollowClient, Locked, MainFree, Scrub
<1>30. CASE GoOn
  BY <1>30 DEF GoOn, Locked, MainFree
<1>31. CASE Wait
  BY <1>31 DEF Wait, Locked, MainFree, Moved
<1>32. CASE Fill
  BY <1>32 DEF Fill, Locked, MainFree
<1>33. CASE Full
  BY <1>33 DEF Full, Locked, MainFree
<1>34. CASE PassCached
  BY <1>34 DEF PassCached, Locked, MainFree
<1>35. CASE EndOfMedia
  BY <1>35 DEF EndOfMedia, Locked, MainFree
<1>36. CASE Prefetch
  BY <1>36 DEF Prefetch, Locked, MainFree, InMedia
<1>37. CASE Insert
  BY <1>37 DEF Insert, MainFree, NotifyMain
<1>38. CASE Awake
  BY <1>38 DEF Awake, MainFree
<1>39. CASE WaitTimesOut
  BY <1>39 DEF WaitTimesOut
<1>40. CASE Grow
  BY <1>40 DEF Grow
<1>41. CASE TimePasses
  BY <1>41 DEF TimePasses
<1>42. CASE UNCHANGED vars
  BY <1>42 DEF vars
<1> QED
  BY <1>1, <1>2, <1>3, <1>4, <1>5, <1>6, <1>7, <1>8, <1>9, <1>10, <1>11, <1>12,
       <1>13, <1>14, <1>15, <1>16, <1>17, <1>18, <1>19, <1>20, <1>21, <1>22,
       <1>23, <1>24, <1>25, <1>26, <1>27, <1>28, <1>29, <1>30, <1>31, <1>32,
       <1>33, <1>34, <1>35, <1>36, <1>37, <1>38, <1>39, <1>40, <1>41,
       <1>42 DEF Next, Client, Proceed, Worker, Terminated

\* The invariant, for every setup.
THEOREM Invariant == Spec => []Inv
<1>1. Init => Inv
  <2>1. Init => Single
    BY DEF Init, Single
  <2> QED BY <2>1, HandoverInit, SoundInit DEF Inv
<1>2. Inv /\ [Next]_vars => Inv'
  <2> SUFFICES ASSUME Inv, [Next]_vars PROVE Inv'
    OBVIOUS
  <2>1. Types' /\ Handover'
    BY TypesStep, HandoverStep DEF Inv
  <2>2. setup' = setup /\ (Sound' <=> Sound)
    BY SoundIsFixed DEF Sound
  <2>4. "unsafe" \notin setup.inputs => Single'
    BY SingleStep DEF Inv
  <2>3. ASSUME Sound PROVE Control' /\ Cached'
    <3>1. ~EnforceFails
      BY <2>3, NothingFails DEF Inv
    <3>2. CallFits' /\ ThreadFits' /\ PlaceFits' /\ CacheFits'
      BY <2>3, <3>1, CallStep, ThreadStep, PlaceStep, CacheStep DEF Inv
    <3>3. ~error' /\ safe'
      BY <2>3, SafeStep DEF Inv
    <3> QED BY <3>2, <3>3 DEF Control, Cached
  <2> QED BY <2>1, <2>2, <2>3, <2>4 DEF Inv
<1> QED BY <1>1, <1>2, PTL DEF Spec

\* "The main thread may only access the connected input if state_ is set to
\* thread_dead or thread_paused": when it does, the worker is not inside the
\* input.  For every setup, the failing ones and unsafe inputs included, as long
\* as there is one thread; and there is never more than one without such inputs.
THEOREM InputHasOneUser == Spec => []MainHasInputAlone
<1>1. Inv => MainHasInputAlone
  BY DEF Inv, Handover, Single, MainHasInputAlone, OneThread, AtWork
<1> QED BY <1>1, Invariant, PTL

\* Whichever thread sleeps on the one condition variable, the other one is
\* there to wake it, as long as there are two threads in all.
THEOREM NobodySleepsForever == Spec => []SleepersAreAnswered
<1>1. Inv => SleepersAreAnswered
  BY DEF Inv, Types, StateTypes, ClientTypes, SettingTypes, PlaceTypes,
       MediaTypes, ThreadTypes, Handover, Control, ThreadFits,
       SleepersAreAnswered, FetchIsAnswered,
         StateChangeIsAnswered
<1> QED BY <1>1, Invariant, PTL

\* "thread_dead: The thread does not exist", between two calls.
THEOREM DeadThreadIsGone == Spec => []DeadMeansNoThread
<1>1. Inv => DeadMeansNoThread
  BY DEF Inv, Control, ThreadFits, DeadMeansNoThread
<1> QED BY <1>1, Invariant, PTL

\* No ARENFORCE of the worker fails, whatever the lengths, the queue and the
\* sequence of seeks.
THEOREM EnforcementsHold == Spec => []WorkerNeverFails
<1>1. Inv => WorkerNeverFails
  <2> SUFFICES ASSUME Inv PROVE WorkerNeverFails
    OBVIOUS
  <2>1. TypeOK
    <3>1. frames \in Int /\ count \in Int
      BY SetupTypes DEF Inv, Types, StateTypes, ClientTypes, SettingTypes,
           PlaceTypes, MediaTypes, ThreadTypes
    <3> QED BY <3>1 DEF Inv, Types, StateTypes, ClientTypes, SettingTypes,
         PlaceTypes, MediaTypes, ThreadTypes, TypeOK, Steps
  <2> QED BY <2>1 DEF Inv, Control, WorkerNeverFails
<1> QED BY <1>1, Invariant, PTL
=============================================================================
