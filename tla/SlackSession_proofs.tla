----------------------- MODULE SlackSession_proofs -----------------------
(***************************************************************************)
(* Safety of SlackSession for every set of users, every capacity and every *)
(* number of failures: which fields a goroutine finds, what a ghost's      *)
(* stamp says of the ghost, and what comes after a refused token.          *)
(***************************************************************************)
EXTENDS SlackSession, TLAPS

-----------------------------------------------------------------------------
(* Types, in the groups in which the actions change them. *)

(* The flags, and the field that was nil.                                   *)
Flags ==
  /\ real \in BOOLEAN /\ valid \in BOOLEAN /\ saved \in BOOLEAN /\ up \in BOOLEAN
  /\ token \in BOOLEAN /\ made \in BOOLEAN /\ client \in BOOLEAN /\ link \in BOOLEAN
  /\ boot \in BOOLEAN /\ stop \in BOOLEAN /\ short \in BOOLEAN /\ teardown \in BOOLEAN
  /\ early \in BOOLEAN /\ unbooted \in BOOLEAN
  /\ panic \in Pointers \cup {"none"}

(* Where each goroutine is, what was reported, and the context of the loop. *)
Steps ==
  /\ state \in States
  /\ ctx \in {"none", "live", "cancelled"}
  /\ connect \in {"idle", "begin", "boot", "booted", "team", "save", "drop", "report"}
  /\ consume \in {"none", "spawned", "receive", "save", "drop", "report"}
  /\ wire \in {"off", "spawned", "check", "begin", "dial", "open", "sleep", "refused", "ended",
               "failed"}
  /\ command \in {"idle", "signout", "gone", "stopped"}
  /\ loop \in {"none", "spawned", "wait", "collect"}

MaxLeft == IF Short > Long THEN Short ELSE Long

(* The channels, the entries and the timer.                                 *)
Queued ==
  /\ events \in Seq(Event)
  /\ queue \in Seq(Ghosts)
  /\ batch \in SUBSET Ghosts
  /\ left \in 0..MaxLeft

(* The bounds are numbers.                                                  *)
LEMMA Bounds ==
  /\ MaxSpent \in Nat /\ MaxTasks \in Nat
  /\ Short \in Nat /\ Long \in Nat /\ QueueCap \in Nat /\ EventCap \in Nat
BY BoundAssumption

-----------------------------------------------------------------------------
(* The flags. *)

flags == <<real, valid, saved, up, token, made, client, link, boot, stop, short, panic, teardown,
  early, unbooted>>

(* What leaves the flags alone keeps their types.                           *)
LEMMA FlagsUnchanged == ASSUME Flags, UNCHANGED flags PROVE Flags'
BY SMT DEF Flags, flags

(* A panic keeps the types of the flags: what is loaded next is a token or  *)
(* none.                                                                    *)
LEMMA PanicFlags == ASSUME Flags, NEW field \in Pointers, Panic(field) PROVE Flags'
<1>1. saved \in BOOLEAN /\ panic' \in Pointers \cup {"none"}
  <2>1. panic' = field BY Zenon DEF Panic
  <2> QED BY <2>1 DEF Flags
<1>2. /\ token' = saved /\ made' = saved /\ client' = saved /\ link' = saved
      /\ UNCHANGED <<real, valid, saved, teardown, unbooted>>
  BY Zenon DEF Panic, LoadUserLogin
<1>3. stop' = FALSE /\ short' = FALSE /\ early' = FALSE /\ up' = FALSE /\ boot' = FALSE
  BY Zenon DEF Panic, LoadUserLogin
<1> QED BY Zenon, <1>1, <1>2, <1>3 DEF Flags

(* The connection's steps change no flag.                                   *)
LEMMA WireFlags == ASSUME NEW to, Wire(to) PROVE UNCHANGED flags
BY SMT DEF Wire, Keep, session, resync, users, process, flags

(* Every step keeps the types of the flags.                                 *)
LEMMA FlagsKept == ASSUME Flags, [Next]_vars PROVE Flags'
<1> USE DEF Keep, KeepSession, KeepUsers, session, resync, users, process, threads, flags
<1>0. /\ "client" \in Pointers /\ "link" \in Pointers /\ "boot" \in Pointers
      /\ "none" \in Pointers \cup {"none"}
  BY DEF Pointers
<1>1. CASE Restart
  <2>1. saved \in BOOLEAN BY DEF Flags
  <2>2. /\ token' = saved /\ made' = saved /\ client' = saved /\ link' = saved
        /\ UNCHANGED <<real, valid, saved>>
    BY Zenon, <1>1 DEF Restart, LoadUserLogin
  <2>3. /\ stop' = FALSE /\ short' = FALSE /\ early' = FALSE /\ up' = TRUE /\ teardown' = FALSE
        /\ panic' = "none" /\ boot' = FALSE /\ unbooted' = FALSE
    BY Zenon, <1>1 DEF Restart, LoadUserLogin
  <2> QED BY Zenon, <1>0, <2>1, <2>2, <2>3 DEF Flags
<1>2. CASE Login
  <2>1. /\ token' = TRUE /\ made' = TRUE /\ client' = TRUE /\ link' = TRUE /\ stop' = FALSE
        /\ short' = FALSE /\ early' = FALSE /\ teardown' = FALSE /\ valid' = TRUE /\ saved' = TRUE
        /\ boot' = FALSE /\ unbooted' = FALSE /\ UNCHANGED <<real, up, panic>>
    BY Zenon, <1>2 DEF Login, LoadUserLogin
  <2> QED BY Zenon, <2>1 DEF Flags
<1>3. CASE ConnectNotLoggedIn
  <2>1. UNCHANGED flags BY SMT, <1>3 DEF ConnectNotLoggedIn
  <2> QED BY <2>1, FlagsUnchanged
<1>4. CASE ConnectFails
  <2>1. UNCHANGED flags BY SMT, <1>4 DEF ConnectFails
  <2> QED BY <2>1, FlagsUnchanged
<1>5. CASE Report
  <2>1. UNCHANGED flags BY SMT, <1>5 DEF Report
  <2> QED BY <2>1, FlagsUnchanged
<1>6. CASE Lose
  <2>1. UNCHANGED flags BY SMT, <1>6 DEF Lose
  <2> QED BY <2>1, FlagsUnchanged
<1>7. CASE Fail
  <2>1. UNCHANGED flags BY SMT, <1>7 DEF Fail
  <2> QED BY <2>1, FlagsUnchanged
<1>8. CASE SocketError
  <2>1. UNCHANGED flags BY SMT, <1>8 DEF SocketError
  <2> QED BY <2>1, FlagsUnchanged
<1>9. CASE LoopStarts
  <2>1. UNCHANGED flags BY SMT, <1>9 DEF LoopStarts
  <2> QED BY <2>1, FlagsUnchanged
<1>10. CASE Tick
  <2>1. UNCHANGED flags BY SMT, <1>10 DEF Tick
  <2> QED BY <2>1, FlagsUnchanged
<1>11. CASE SocketLoop
  <2>1. UNCHANGED flags BY Zenon, <1>11, WireFlags DEF SocketLoop
  <2> QED BY <2>1, FlagsUnchanged
<1>12. CASE Open
  <2>1. UNCHANGED flags BY Zenon, <1>12, WireFlags DEF Open
  <2> QED BY <2>1, FlagsUnchanged
<1>13. CASE Refuse
  <2>1. UNCHANGED flags BY Zenon, <1>13, WireFlags DEF Refuse
  <2> QED BY <2>1, FlagsUnchanged
<1>14. CASE Close
  <2>1. UNCHANGED flags BY Zenon, <1>14, WireFlags DEF Close
  <2> QED BY <2>1, FlagsUnchanged
<1>15. CASE HandleStateEvent
  <2>1. UNCHANGED flags BY SMT, <1>15 DEF HandleStateEvent
  <2> QED BY <2>1, FlagsUnchanged
<1>16. CASE ConnectBegin
  <2>1. CASE client
    <3>1. UNCHANGED flags BY SMT, <1>16, <2>1 DEF ConnectBegin
    <3> QED BY <3>1, FlagsUnchanged
  <2>2. CASE ~client
    BY Zenon, <1>16, <2>2, <1>0, PanicFlags DEF ConnectBegin
  <2> QED BY <2>1, <2>2
<1>17. CASE Boot
  <2>1. CASE client /\ ~valid
    <3>1. UNCHANGED flags BY Zenon, <1>17, <2>1 DEF Boot
    <3> QED BY <3>1, FlagsUnchanged
  <2>2. CASE client /\ valid
    <3>1. /\ boot' = TRUE /\ unbooted' = FALSE
          /\ UNCHANGED <<real, valid, saved, up, token, made, client, link, stop, short, panic,
                         teardown, early>>
      BY Zenon, <1>17, <2>2 DEF Boot, KeepBootResp
    <3>2. boot' \in BOOLEAN /\ unbooted' \in BOOLEAN BY Zenon, <3>1
    <3> QED BY SMT, <3>1, <3>2 DEF Flags
  <2>3. CASE ~client
    BY Zenon, <1>17, <2>3, <1>0, PanicFlags DEF Boot
  <2> QED BY <2>1, <2>2, <2>3
<1>18. CASE Start
  <2>1. CASE ~(real /\ ~link)
    <3>1. UNCHANGED flags BY Zenon, <1>18, <2>1, WireFlags DEF Start
    <3> QED BY <3>1, FlagsUnchanged
  <2>2. CASE real /\ ~link
    BY Zenon, <1>18, <2>2, <1>0, PanicFlags DEF Start
  <2> QED BY <2>1, <2>2
<1>19. CASE Dial
  <2>1. CASE ~(~real /\ ~link)
    <3>1. UNCHANGED flags BY Zenon, <1>19, <2>1, WireFlags DEF Dial
    <3> QED BY <3>1, FlagsUnchanged
  <2>2. CASE ~real /\ ~link
    BY Zenon, <1>19, <2>2, <1>0, PanicFlags DEF Dial
  <2> QED BY <2>1, <2>2
<1>20. CASE ConsumeStarts
  <2>1. CASE link
    <3>1. UNCHANGED flags BY SMT, <1>20, <2>1 DEF ConsumeStarts
    <3> QED BY <3>1, FlagsUnchanged
  <2>2. CASE ~link
    BY Zenon, <1>20, <2>2, <1>0, PanicFlags DEF ConsumeStarts
  <2> QED BY <2>1, <2>2
<1>21. CASE HandleUserEvent
  <2>1. CASE UNCHANGED <<real, valid, saved, process, state, session, threads, version, ghosts,
                         resync, mixed, spent>>
    <3>1. UNCHANGED flags BY SMT, <2>1
    <3> QED BY <3>1, FlagsUnchanged
  <2>2. CASE Panic("link") \/ Panic("boot")
    BY Zenon, <2>2, <1>0, PanicFlags
  <2> QED BY Zenon, <1>21, <2>1, <2>2 DEF HandleUserEvent
<1>22. CASE ClearToken
  <2>1. UNCHANGED <<real, valid, up, made, client, link, stop, short, panic, teardown, early,
                    boot, unbooted>>
    BY SMT, <1>22 DEF ClearToken
  <2>2. token' = FALSE /\ (saved' = FALSE \/ saved' = saved) BY Zenon, <1>22 DEF ClearToken
  <2>3. token' \in BOOLEAN /\ saved' \in BOOLEAN BY Zenon, <2>2 DEF Flags
  <2> QED BY SMT, <2>1, <2>3 DEF Flags
<1>23. CASE Drop
  <2>1. UNCHANGED <<real, valid, saved, up, token, made, stop, short, panic, boot, unbooted>>
    BY SMT, <1>23 DEF Drop
  <2>2. teardown' = TRUE /\ client' = FALSE BY Zenon, <1>23 DEF Drop, disconnect
  <2>3. early' \in BOOLEAN BY Zenon, <1>23 DEF Drop, disconnect
  <2>4. link' \in BOOLEAN BY Zenon, <1>23 DEF Drop, disconnect
  <2>5. teardown' \in BOOLEAN /\ client' \in BOOLEAN BY Zenon, <2>2
  <2> QED BY SMT, <2>1, <2>3, <2>4, <2>5 DEF Flags
<1>24. CASE Disconnect
  <2>1. UNCHANGED <<real, valid, saved, up, token, made, stop, short, panic, boot, unbooted>>
    BY SMT, <1>24 DEF Disconnect
  <2>2. teardown' = TRUE /\ client' = FALSE BY Zenon, <1>24 DEF Disconnect, disconnect
  <2>3. early' \in BOOLEAN BY Zenon, <1>24 DEF Disconnect, disconnect
  <2>4. link' \in BOOLEAN BY Zenon, <1>24 DEF Disconnect, disconnect
  <2>5. teardown' \in BOOLEAN /\ client' \in BOOLEAN BY Zenon, <2>2
  <2> QED BY SMT, <2>1, <2>3, <2>4, <2>5 DEF Flags
<1>25. CASE LogoutRemote
  <2>1. UNCHANGED <<real, valid, saved, up, token, made, client, stop, short, panic, boot,
                    unbooted>>
    BY SMT, <1>25 DEF LogoutRemote
  <2>2. teardown' \in BOOLEAN BY Zenon, <1>25 DEF LogoutRemote, disconnect
  <2>3. early' \in BOOLEAN BY Zenon, <1>25 DEF LogoutRemote, disconnect
  <2>4. link' \in BOOLEAN BY Zenon, <1>25 DEF LogoutRemote, disconnect
  <2> QED BY SMT, <2>1, <2>2, <2>3, <2>4 DEF Flags
<1>26. CASE SignedOut
  <2>1. UNCHANGED <<real, up, made, link, stop, short, panic, teardown, early, boot, unbooted>>
    BY SMT, <1>26 DEF SignedOut
  <2>2. client' = FALSE /\ token' = FALSE /\ saved' = FALSE BY Zenon, <1>26 DEF SignedOut
  <2>3. valid' = FALSE \/ valid' = valid BY Zenon, <1>26 DEF SignedOut
  <2>4. {valid', client', token', saved'} \subseteq BOOLEAN BY Zenon, <2>2, <2>3 DEF Flags
  <2> QED BY SMT, <2>1, <2>4 DEF Flags
<1>27. CASE Revoke
  <2>1. UNCHANGED <<real, saved, up, token, made, client, link, stop, short, panic, teardown,
                    early, boot, unbooted>>
    BY SMT, <1>27 DEF Revoke
  <2>2. valid' = FALSE BY Zenon, <1>27 DEF Revoke
  <2>3. valid' \in BOOLEAN BY Zenon, <2>2
  <2> QED BY SMT, <2>1, <2>3 DEF Flags
<1>28. CASE WireStarts
  <2>1. UNCHANGED <<real, valid, saved, up, token, made, client, link, short, panic, teardown,
                    early, boot, unbooted>>
    BY SMT, <1>28 DEF WireStarts
  <2>2. stop' \in BOOLEAN BY Zenon, <1>28 DEF WireStarts
  <2> QED BY SMT, <2>1, <2>2 DEF Flags
<1>29. CASE Collect
  <2>1. UNCHANGED <<real, valid, saved, up, token, made, client, link, stop, panic, teardown,
                    early, boot, unbooted>>
    BY SMT, <1>29 DEF Collect
  <2>2. short' \in BOOLEAN BY Zenon, <1>29 DEF Collect
  <2> QED BY SMT, <2>1, <2>2 DEF Flags
<1>30. CASE Expire
  <2>1. UNCHANGED <<real, valid, saved, up, token, made, client, link, stop, panic, teardown,
                    early, boot, unbooted>>
    BY SMT, <1>30 DEF Expire
  <2>2. short' \in BOOLEAN BY Zenon, <1>30 DEF Expire
  <2> QED BY SMT, <2>1, <2>2 DEF Flags
<1>31. ASSUME NEW g \in Ghosts, ChangeUser(g) PROVE Flags'
  <2>1. UNCHANGED flags BY SMT, <1>31 DEF ChangeUser
  <2> QED BY <2>1, FlagsUnchanged
<1>32. ASSUME NEW g \in Ghosts, Age(g) PROVE Flags'
  <2>1. UNCHANGED flags BY SMT, <1>32 DEF Age
  <2> QED BY <2>1, FlagsUnchanged
<1>33. ASSUME NEW g \in Ghosts, NEW recent \in BOOLEAN, Enqueue(g, recent) PROVE Flags'
  <2>1. UNCHANGED flags BY SMT, <1>33 DEF Enqueue
  <2> QED BY <2>1, FlagsUnchanged
<1>34. ASSUME NEW g \in Ghosts, NEW recent \in BOOLEAN, AskDirectly(g, recent) PROVE Flags'
  <2>1. UNCHANGED <<real, valid, saved, up, token, made, client, link, boot, stop, short, panic,
    teardown, early>>
    BY SMT, <1>34 DEF AskDirectly
  <2>2. unbooted' = (unbooted \/ ~boot) BY Zenon, <1>34 DEF AskDirectly
  <2>3. unbooted' \in BOOLEAN BY Zenon, <2>2
  <2> QED BY SMT, <2>1, <2>3 DEF Flags
<1>35. ASSUME NEW r \in requests, Answer(r) PROVE Flags'
  <2>1. CASE ~(~boot /\ Answered(r) # {})
    <3>1. UNCHANGED flags BY Zenon, <1>35, <2>1 DEF Answer
    <3> QED BY <3>1, FlagsUnchanged
  <2>2. CASE ~boot /\ Answered(r) # {} BY Zenon, <1>35, <2>2, <1>0, PanicFlags DEF Answer
  <2> QED BY <2>1, <2>2
<1>36. ASSUME NEW r \in requests, AnswerFails(r) PROVE Flags'
  <2>1. UNCHANGED flags BY SMT, <1>36 DEF AnswerFails
  <2> QED BY <2>1, FlagsUnchanged
<1>37. ASSUME NEW w \in writes, Show(w) PROVE Flags'
  <2>1. UNCHANGED flags BY SMT, <1>37 DEF Show
  <2> QED BY <2>1, FlagsUnchanged
<1>38. ASSUME NEW w \in writes, Stamp(w) PROVE Flags'
  <2>1. UNCHANGED flags BY SMT, <1>38 DEF Stamp
  <2> QED BY <2>1, FlagsUnchanged
<1>39. ASSUME NEW r \in requests, Ask(r) PROVE Flags'
  <2>1. CASE client
    <3>1. UNCHANGED flags BY SMT, <1>39, <2>1 DEF Ask
    <3> QED BY <3>1, FlagsUnchanged
  <2>2. CASE ~client BY Zenon, <1>39, <2>2, <1>0, PanicFlags DEF Ask
  <2> QED BY <2>1, <2>2
<1>41. CASE ConnectAfterLogin
  <2>1. /\ boot' = TRUE /\ unbooted' = FALSE
        /\ UNCHANGED <<real, valid, saved, up, token, made, client, link, stop, short, panic,
                       teardown, early>>
    BY Zenon, <1>41 DEF ConnectAfterLogin, KeepBootResp
  <2>2. boot' \in BOOLEAN /\ unbooted' \in BOOLEAN BY Zenon, <2>1
  <2> QED BY SMT, <2>1, <2>2 DEF Flags
<1>40. CASE UNCHANGED vars
  <2>1. UNCHANGED flags BY SMT, <1>40 DEF vars
  <2> QED BY <2>1, FlagsUnchanged
<1> QED
  BY Zenon, <1>1, <1>2, <1>3, <1>4, <1>5, <1>6, <1>7, <1>8, <1>9, <1>10, <1>11, <1>12, <1>13,
     <1>14, <1>15, <1>16, <1>17, <1>18, <1>19, <1>20, <1>21, <1>22, <1>23, <1>24, <1>25, <1>26,
     <1>27, <1>28, <1>29, <1>30, <1>31, <1>32, <1>33, <1>34, <1>35, <1>36, <1>37, <1>38, <1>39,
     <1>40, <1>41 DEF Next

-----------------------------------------------------------------------------
(* Where each goroutine is. *)

steps == <<state, ctx, connect, consume, wire, command, loop>>

(* What leaves the goroutines where they are keeps the types.               *)
LEMMA StepsUnchanged == ASSUME Steps, UNCHANGED steps PROVE Steps'
BY SMT DEF Steps, steps

(* A panic leaves no goroutine but those that are started again.            *)
LEMMA PanicSteps == ASSUME Steps, NEW field, Panic(field) PROVE Steps'
BY SMT DEF Steps, Panic, LoadUserLogin, States

(* The connection moves between its own steps only.                         *)
LEMMA WireSteps == ASSUME Steps, NEW to, to \in {"begin", "dial", "open", "sleep", "refused",
  "ended"}, Wire(to) PROVE Steps'
BY SMT DEF Steps, Wire, Keep, session, users, resync

(* The consumer reports a bridge state after every event.                   *)
LEMMA StateAfterType == ASSUME Steps, NEW type PROVE StateAfter(type) \in States
BY SMT DEF Steps, StateAfter, States

(* Every step keeps every goroutine at one of its steps.                    *)
LEMMA StepsKept == ASSUME Steps, [Next]_vars PROVE Steps'
<1> USE DEF Keep, KeepSession, KeepUsers, session, resync, users, process, threads, States
<1>1. CASE Restart
  BY SMT, <1>1 DEF Restart, Steps, LoadUserLogin
<1>2. CASE Login
  BY SMT, <1>2 DEF Login, Steps, LoadUserLogin
<1>3. CASE ConnectNotLoggedIn
  BY SMT, <1>3 DEF ConnectNotLoggedIn, Steps
<1>4. CASE ConnectBegin
  <2>1. CASE client
    BY SMT, <1>4, <2>1 DEF ConnectBegin, Steps, Booted
  <2>2. CASE ~client BY Zenon, <1>4, <2>2, PanicSteps DEF ConnectBegin
  <2> QED BY <2>1, <2>2
<1>5. CASE Boot
  <2>1. CASE client
    <3>1. connect' \in {"team", "save"} /\ UNCHANGED <<state, consume, wire, command>>
      BY Zenon, <1>5, <2>1 DEF Boot, Booted
    <3>2. UNCHANGED <<ctx, loop>> BY Zenon, <1>5, <2>1 DEF Boot, KeepBootResp
    <3> QED BY <3>1, <3>2 DEF Steps
  <2>2. CASE ~client BY Zenon, <1>5, <2>2, PanicSteps DEF Boot
  <2> QED BY <2>1, <2>2
<1>6. CASE ConnectFails
  BY SMT, <1>6 DEF ConnectFails, Steps
<1>7. CASE Start
  <2>1. CASE ~(real /\ ~link)
    <3>1. connect' = "idle" /\ consume' = "spawned" /\ wire' = "spawned"
          /\ UNCHANGED <<state, command>> /\ ctx' = ctx
      BY Zenon, <1>7, <2>1 DEF Start
    <3>2. loop' = "spawned" \/ loop' = loop BY Zenon, <1>7, <2>1 DEF Start
    <3> QED BY <3>1, <3>2 DEF Steps
  <2>2. CASE real /\ ~link BY Zenon, <1>7, <2>2, PanicSteps DEF Start
  <2> QED BY <2>1, <2>2
<1>8. CASE ClearToken
  BY SMT, <1>8 DEF ClearToken, Steps
<1>9. CASE Drop
  BY SMT, <1>9 DEF Drop, Steps, disconnect
<1>10. CASE Report
  BY SMT, <1>10 DEF Report, Steps
<1>11. CASE Disconnect
  BY SMT, <1>11 DEF Disconnect, Steps, disconnect
<1>12. CASE LogoutRemote
  BY SMT, <1>12 DEF LogoutRemote, Steps, disconnect
<1>13. CASE SignedOut
  BY SMT, <1>13 DEF SignedOut, Steps
<1>14. CASE Revoke
  BY SMT, <1>14 DEF Revoke, Steps
<1>15. CASE WireStarts
  BY SMT, <1>15 DEF WireStarts, Steps
<1>16. CASE SocketLoop
  <2>1. \E to \in {"begin", "dial", "open", "sleep", "refused", "ended"} : Wire(to)
    BY Zenon, <1>16 DEF SocketLoop
  <2> QED BY <2>1, WireSteps
<1>17. CASE Dial
  <2>1. CASE ~(~real /\ ~link)
    BY Zenon, <1>17, <2>1, WireSteps DEF Dial
  <2>2. CASE ~real /\ ~link BY Zenon, <1>17, <2>2, PanicSteps DEF Dial
  <2> QED BY <2>1, <2>2
<1>18. CASE Open
  <2>1. \E to \in {"begin", "dial", "open", "sleep", "refused", "ended"} : Wire(to)
    BY Zenon, <1>18 DEF Open
  <2> QED BY <2>1, WireSteps
<1>19. CASE Refuse
  <2>1. \E to \in {"begin", "dial", "open", "sleep", "refused", "ended"} : Wire(to)
    BY Zenon, <1>19 DEF Refuse
  <2> QED BY <2>1, WireSteps
<1>20. CASE Lose
  BY SMT, <1>20 DEF Lose, Steps
<1>21. CASE Fail
  BY SMT, <1>21 DEF Fail, Steps
<1>22. CASE Close
  <2>1. \E to \in {"begin", "dial", "open", "sleep", "refused", "ended"} : Wire(to)
    BY Zenon, <1>22 DEF Close
  <2> QED BY <2>1, WireSteps
<1>23. CASE SocketError
  BY SMT, <1>23 DEF SocketError, Steps
<1>24. CASE ConsumeStarts
  <2>1. CASE link
    BY SMT, <1>24, <2>1 DEF ConsumeStarts, Steps, Booted
  <2>2. CASE ~link BY Zenon, <1>24, <2>2, PanicSteps DEF ConsumeStarts
  <2> QED BY <2>1, <2>2
<1>25. CASE HandleStateEvent
  BY SMT, <1>25, StateAfterType DEF HandleStateEvent, Steps
<1>26. CASE HandleUserEvent
  <2>1. CASE UNCHANGED <<real, valid, saved, process, state, session, threads, version, ghosts,
                         resync, mixed, spent>>
    BY SMT, <2>1 DEF Steps
  <2>2. CASE Panic("link") \/ Panic("boot") BY Zenon, <2>2, PanicSteps
  <2> QED BY Zenon, <1>26, <2>1, <2>2 DEF HandleUserEvent
<1>27. CASE LoopStarts
  BY SMT, <1>27 DEF LoopStarts, Steps
<1>28. CASE Collect
  BY SMT, <1>28 DEF Collect, Steps
<1>29. CASE Tick
  BY SMT, <1>29 DEF Tick, Steps
<1>30. CASE Expire
  BY SMT, <1>30 DEF Expire, Steps
<1>31. ASSUME NEW g \in Ghosts, ChangeUser(g) PROVE Steps'
  BY SMT, <1>31 DEF ChangeUser, Steps
<1>32. ASSUME NEW g \in Ghosts, Age(g) PROVE Steps'
  BY SMT, <1>32 DEF Age, Steps
<1>33. ASSUME NEW g \in Ghosts, NEW recent \in BOOLEAN, Enqueue(g, recent) PROVE Steps'
  BY SMT, <1>33 DEF Enqueue, Steps
<1>34. ASSUME NEW g \in Ghosts, NEW recent \in BOOLEAN, AskDirectly(g, recent) PROVE Steps'
  BY SMT, <1>34 DEF AskDirectly, Steps
<1>35. ASSUME NEW r \in requests, Ask(r) PROVE Steps'
  <2>1. CASE client BY SMT, <1>35, <2>1 DEF Ask, Steps
  <2>2. CASE ~client BY Zenon, <1>35, <2>2, PanicSteps DEF Ask
  <2> QED BY <2>1, <2>2
<1>36. ASSUME NEW r \in requests, Answer(r) PROVE Steps'
  <2>1. CASE ~(~boot /\ Answered(r) # {})
    <3>1. UNCHANGED steps BY Zenon, <1>36, <2>1 DEF Answer, steps
    <3> QED BY <3>1, StepsUnchanged
  <2>2. CASE ~boot /\ Answered(r) # {} BY Zenon, <1>36, <2>2, PanicSteps DEF Answer
  <2> QED BY <2>1, <2>2
<1>37. ASSUME NEW r \in requests, AnswerFails(r) PROVE Steps'
  BY SMT, <1>37 DEF AnswerFails, Steps
<1>38. ASSUME NEW w \in writes, Show(w) PROVE Steps'
  BY SMT, <1>38 DEF Show, Steps
<1>39. ASSUME NEW w \in writes, Stamp(w) PROVE Steps'
  BY SMT, <1>39 DEF Stamp, Steps
<1>41. CASE ConnectAfterLogin
  <2>1. connect' = "team" /\ UNCHANGED <<state, ctx, consume, wire, command, loop>>
    BY Zenon, <1>41 DEF ConnectAfterLogin, KeepBootResp
  <2> QED BY <2>1 DEF Steps
<1>40. CASE UNCHANGED vars BY SMT, <1>40 DEF vars, Steps
<1> QED
  BY Zenon, <1>1, <1>2, <1>3, <1>4, <1>5, <1>6, <1>7, <1>8, <1>9, <1>10, <1>11, <1>12, <1>13,
     <1>14, <1>15, <1>16, <1>17, <1>18, <1>19, <1>20, <1>21, <1>22, <1>23, <1>24, <1>25, <1>26,
     <1>27, <1>28, <1>29, <1>30, <1>31, <1>32, <1>33, <1>34, <1>35, <1>36, <1>37, <1>38, <1>39,
     <1>40, <1>41 DEF Next

-----------------------------------------------------------------------------
(* What is counted: at most one version is ahead of what was spent. *)

(* A user's version is at most one ahead of what was spent.                 *)
Numbers ==
  /\ spent \in 0..MaxSpent
  /\ version \in [Ghosts -> Versions]
  /\ \A g \in Ghosts : version[g] <= spent + 1

(* A step that changes no user may spend.                                   *)
LEMMA NumbersUnchanged ==
  ASSUME Numbers, UNCHANGED version, UNCHANGED spent \/ Outside
  PROVE  Numbers'
BY Bounds, SMT DEF Numbers, Outside, Versions

(* A change of a user spends what it counts.                                *)
LEMMA Counted ==
  ASSUME NEW g \in Ghosts, Numbers, ChangeUser(g)
  PROVE  Numbers'
<1>1. version' = [version EXCEPT ![g] = @ + 1] /\ Outside BY Zenon DEF ChangeUser
<1>2. spent \in Nat /\ spent' \in 0..MaxSpent /\ spent' = spent + 1
  BY <1>1, Bounds DEF Outside, Numbers
<1>3. ASSUME NEW h \in Ghosts PROVE version'[h] \in Versions /\ version'[h] <= spent' + 1
  BY <1>1, <1>2, <1>3, Bounds, SMT DEF Numbers, Versions
<1>4. version' \in [Ghosts -> Versions]
  BY <1>1, <1>3 DEF Numbers
<1> QED BY <1>2, <1>3, <1>4 DEF Numbers

(* Every step keeps the count.                                              *)
LEMMA NumbersKept == ASSUME Numbers, [Next]_vars PROVE Numbers'
<1> DEFINE Other == UNCHANGED version /\ (UNCHANGED spent \/ Outside)
<1> USE DEF Keep, KeepSession, KeepUsers, users
<1>1. CASE Restart
  <2>1. Other BY SMT, <1>1 DEF Restart
  <2> QED BY <2>1, NumbersUnchanged
<1>2. CASE Login
  <2>1. Other BY SMT, <1>2 DEF Login
  <2> QED BY <2>1, NumbersUnchanged
<1>3. CASE ConnectNotLoggedIn
  <2>1. Other BY SMT, <1>3 DEF ConnectNotLoggedIn
  <2> QED BY <2>1, NumbersUnchanged
<1>4. CASE ConnectBegin
  <2>1. Other BY SMT, <1>4 DEF ConnectBegin, Panic
  <2> QED BY <2>1, NumbersUnchanged
<1>5. CASE Boot
  <2>1. Other BY Zenon, <1>5 DEF Boot, Panic
  <2> QED BY <2>1, NumbersUnchanged
<1>6. CASE ConnectFails
  <2>1. Other BY SMT, <1>6 DEF ConnectFails
  <2> QED BY <2>1, NumbersUnchanged
<1>7. CASE Start
  <2>1. Other BY Zenon, <1>7 DEF Start, Panic
  <2> QED BY <2>1, NumbersUnchanged
<1>8. CASE ClearToken
  <2>1. Other BY Zenon, <1>8 DEF ClearToken
  <2> QED BY <2>1, NumbersUnchanged
<1>9. CASE Drop
  <2>1. Other BY SMT, <1>9 DEF Drop
  <2> QED BY <2>1, NumbersUnchanged
<1>10. CASE Report
  <2>1. Other BY SMT, <1>10 DEF Report
  <2> QED BY <2>1, NumbersUnchanged
<1>11. CASE Disconnect
  <2>1. Other BY SMT, <1>11 DEF Disconnect
  <2> QED BY <2>1, NumbersUnchanged
<1>12. CASE LogoutRemote
  <2>1. Other BY SMT, <1>12 DEF LogoutRemote
  <2> QED BY <2>1, NumbersUnchanged
<1>13. CASE SignedOut
  <2>1. Other BY SMT, <1>13 DEF SignedOut
  <2> QED BY <2>1, NumbersUnchanged
<1>14. CASE Revoke
  <2>1. Other BY SMT, <1>14 DEF Revoke
  <2> QED BY <2>1, NumbersUnchanged
<1>15. CASE WireStarts
  <2>1. Other BY SMT, <1>15 DEF WireStarts
  <2> QED BY <2>1, NumbersUnchanged
<1>16. CASE SocketLoop
  <2>1. Other BY SMT, <1>16 DEF SocketLoop, Wire
  <2> QED BY <2>1, NumbersUnchanged
<1>17. CASE Dial
  <2>1. Other BY Zenon, <1>17 DEF Dial, Panic, Wire
  <2> QED BY <2>1, NumbersUnchanged
<1>18. CASE Open
  <2>1. Other BY SMT, <1>18 DEF Open, Wire
  <2> QED BY <2>1, NumbersUnchanged
<1>19. CASE Refuse
  <2>1. Other BY Zenon, <1>19 DEF Refuse, Wire
  <2> QED BY <2>1, NumbersUnchanged
<1>20. CASE Lose
  <2>1. Other BY SMT, <1>20 DEF Lose
  <2> QED BY <2>1, NumbersUnchanged
<1>21. CASE Fail
  <2>1. Other BY SMT, <1>21 DEF Fail
  <2> QED BY <2>1, NumbersUnchanged
<1>22. CASE Close
  <2>1. Other BY Zenon, <1>22 DEF Close, Wire
  <2> QED BY <2>1, NumbersUnchanged
<1>23. CASE SocketError
  <2>1. Other BY SMT, <1>23 DEF SocketError
  <2> QED BY <2>1, NumbersUnchanged
<1>24. CASE ConsumeStarts
  <2>1. Other BY SMT, <1>24 DEF ConsumeStarts, Panic
  <2> QED BY <2>1, NumbersUnchanged
<1>25. CASE HandleStateEvent
  <2>1. Other BY SMT, <1>25 DEF HandleStateEvent
  <2> QED BY <2>1, NumbersUnchanged
<1>26. CASE HandleUserEvent
  <2>1. Other BY Zenon, <1>26 DEF HandleUserEvent, Panic
  <2> QED BY <2>1, NumbersUnchanged
<1>27. CASE LoopStarts
  <2>1. Other BY SMT, <1>27 DEF LoopStarts
  <2> QED BY <2>1, NumbersUnchanged
<1>28. CASE Collect
  <2>1. Other BY SMT, <1>28 DEF Collect
  <2> QED BY <2>1, NumbersUnchanged
<1>29. CASE Tick
  <2>1. Other BY SMT, <1>29 DEF Tick
  <2> QED BY <2>1, NumbersUnchanged
<1>30. CASE Expire
  <2>1. Other BY SMT, <1>30 DEF Expire
  <2> QED BY <2>1, NumbersUnchanged
<1>31. ASSUME NEW g \in Ghosts, Age(g) PROVE Numbers'
  <2>1. Other BY SMT, <1>31 DEF Age
  <2> QED BY <2>1, NumbersUnchanged
<1>32. ASSUME NEW g \in Ghosts, NEW recent \in BOOLEAN, Enqueue(g, recent) PROVE Numbers'
  <2>1. Other BY SMT, <1>32 DEF Enqueue
  <2> QED BY <2>1, NumbersUnchanged
<1>33. ASSUME NEW g \in Ghosts, NEW recent \in BOOLEAN, AskDirectly(g, recent) PROVE Numbers'
  <2>1. Other BY SMT, <1>33 DEF AskDirectly
  <2> QED BY <2>1, NumbersUnchanged
<1>34. ASSUME NEW r \in requests, Ask(r) PROVE Numbers'
  <2>1. Other BY SMT, <1>34 DEF Ask, Panic
  <2> QED BY <2>1, NumbersUnchanged
<1>35. ASSUME NEW r \in requests, Answer(r) PROVE Numbers'
  <2>1. Other BY Zenon, <1>35 DEF Answer, Panic
  <2> QED BY <2>1, NumbersUnchanged
<1>36. ASSUME NEW r \in requests, AnswerFails(r) PROVE Numbers'
  <2>1. Other BY SMT, <1>36 DEF AnswerFails
  <2> QED BY <2>1, NumbersUnchanged
<1>37. ASSUME NEW w \in writes, Show(w) PROVE Numbers'
  <2>1. Other BY SMT, <1>37 DEF Show
  <2> QED BY <2>1, NumbersUnchanged
<1>38. ASSUME NEW w \in writes, Stamp(w) PROVE Numbers'
  <2>1. Other BY SMT, <1>38 DEF Stamp
  <2> QED BY <2>1, NumbersUnchanged
<1>40. CASE ConnectAfterLogin
  <2>1. Other BY Zenon, <1>40 DEF ConnectAfterLogin
  <2> QED BY <2>1, NumbersUnchanged
<1>39. CASE UNCHANGED vars
  <2>1. Other BY SMT, <1>39 DEF vars
  <2> QED BY <2>1, NumbersUnchanged
<1> QED
  BY Zenon, Counted, <1>1, <1>2, <1>3, <1>4, <1>5, <1>6, <1>7, <1>8, <1>9, <1>10, <1>11, <1>12,
     <1>13, <1>14, <1>15, <1>16, <1>17, <1>18, <1>19, <1>20, <1>21, <1>22, <1>23, <1>24, <1>25,
     <1>26, <1>27, <1>28, <1>29, <1>30, <1>31, <1>32, <1>33, <1>34, <1>35, <1>36, <1>37, <1>38,
     <1>39, <1>40 DEF Next

-----------------------------------------------------------------------------
(* Events and the resync queue. *)

(* What leaves the channels alone keeps their types.                        *)
LEMMA QueuedUnchanged ==
  ASSUME Queued, UNCHANGED <<events, queue, batch, left>> PROVE Queued'
BY SMT DEF Queued

(* LoadUserLogin makes the channels empty.                                  *)
LEMMA QueuedLoaded == ASSUME NEW logged, LoadUserLogin(logged) PROVE Queued'
<1>1. events' = <<>> /\ queue' = <<>> /\ batch' = {} /\ left' = 0
  BY Zenon DEF LoadUserLogin
<1> QED BY <1>1, Bounds DEF Queued, MaxLeft

(* A panic empties the channels.                                            *)
LEMMA PanicQueued == ASSUME NEW field, Panic(field) PROVE Queued'
BY Zenon, QueuedLoaded DEF Panic

(* What Emit and Append add are events.                                     *)
LEMMA Appended ==
  ASSUME Queued, UNCHANGED <<queue, batch, left>>,
         NEW type \in Plain, events' = Append(events, Plainly(type))
  PROVE  Queued'
<1>1. Plainly(type) \in Event BY SMT DEF Plainly, Event, Plain
<1> QED BY <1>1 DEF Queued

(* The connection's steps add to the events only.                           *)
LEMMA WireQueues == ASSUME NEW to, Wire(to) PROVE UNCHANGED <<queue, batch, left>>
BY SMT DEF Wire, Keep, users, resync

(* A step of the connection that emits keeps the types.                     *)
LEMMA Emitted == ASSUME Queued, NEW to, Wire(to), NEW type \in Plain, Emit(type) PROVE Queued'
BY Zenon, WireQueues, Appended DEF Emit

(* Every step keeps the types of the channels.                              *)
LEMMA QueuedKept == ASSUME Numbers, Numbers', Queued, [Next]_vars PROVE Queued'
<1> USE DEF Keep, KeepSession, KeepUsers, users, resync
<1>0. /\ "connecting" \in Plain /\ "hello" \in Plain /\ "lost" \in Plain
      /\ "closed" \in Plain /\ "invalid_auth" \in Plain /\ "fatal" \in Plain
  BY DEF Plain
<1>1. CASE Restart BY Zenon, <1>1, QueuedLoaded DEF Restart
<1>2. CASE Login BY Zenon, <1>2, QueuedLoaded DEF Login
<1>3. CASE ConnectNotLoggedIn
  <2>1. UNCHANGED <<events, queue, batch, left>> BY SMT, <1>3 DEF ConnectNotLoggedIn
  <2> QED BY <2>1, QueuedUnchanged
<1>4. CASE ConnectBegin
  <2>1. CASE client
    <3>1. UNCHANGED <<events, queue, batch, left>> BY SMT, <1>4, <2>1 DEF ConnectBegin
    <3> QED BY <3>1, QueuedUnchanged
  <2>2. CASE ~client
    BY Zenon, <1>4, <2>2, PanicQueued DEF ConnectBegin
  <2> QED BY <2>1, <2>2
<1>5. CASE Boot
  <2>1. CASE client
    <3>1. UNCHANGED <<events, queue, batch, left>> BY Zenon, <1>5, <2>1 DEF Boot
    <3> QED BY <3>1, QueuedUnchanged
  <2>2. CASE ~client
    BY Zenon, <1>5, <2>2, PanicQueued DEF Boot
  <2> QED BY <2>1, <2>2
<1>6. CASE ConnectFails
  <2>1. UNCHANGED <<events, queue, batch, left>> BY SMT, <1>6 DEF ConnectFails
  <2> QED BY <2>1, QueuedUnchanged
<1>7. CASE Start
  <2>1. CASE ~(real /\ ~link)
    <3>1. UNCHANGED <<events, queue, batch, left>> BY Zenon, <1>7, <2>1 DEF Start
    <3> QED BY <3>1, QueuedUnchanged
  <2>2. CASE real /\ ~link
    BY Zenon, <1>7, <2>2, PanicQueued DEF Start
  <2> QED BY <2>1, <2>2
<1>8. CASE ClearToken
  <2>1. UNCHANGED <<events, queue, batch, left>> BY Zenon, <1>8 DEF ClearToken
  <2> QED BY <2>1, QueuedUnchanged
<1>9. CASE Drop
  <2>1. UNCHANGED <<events, queue, batch, left>> BY SMT, <1>9 DEF Drop
  <2> QED BY <2>1, QueuedUnchanged
<1>10. CASE Report
  <2>1. UNCHANGED <<events, queue, batch, left>> BY SMT, <1>10 DEF Report
  <2> QED BY <2>1, QueuedUnchanged
<1>11. CASE Disconnect
  <2>1. UNCHANGED <<events, queue, batch, left>> BY SMT, <1>11 DEF Disconnect
  <2> QED BY <2>1, QueuedUnchanged
<1>12. CASE LogoutRemote
  <2>1. UNCHANGED <<events, queue, batch, left>> BY SMT, <1>12 DEF LogoutRemote
  <2> QED BY <2>1, QueuedUnchanged
<1>13. CASE SignedOut
  <2>1. UNCHANGED <<events, queue, batch, left>> BY SMT, <1>13 DEF SignedOut
  <2> QED BY <2>1, QueuedUnchanged
<1>14. CASE Revoke
  <2>1. UNCHANGED <<events, queue, batch, left>> BY SMT, <1>14 DEF Revoke
  <2> QED BY <2>1, QueuedUnchanged
<1>15. CASE WireStarts
  <2>1. UNCHANGED <<events, queue, batch, left>> BY SMT, <1>15 DEF WireStarts
  <2> QED BY <2>1, QueuedUnchanged
<1>16. CASE SocketLoop
  <2>1. UNCHANGED <<events, queue, batch, left>> BY SMT, <1>16 DEF SocketLoop, Wire
  <2> QED BY <2>1, QueuedUnchanged
<1>17. CASE Dial
  <2>1. CASE ~real /\ ~link BY Zenon, <1>17, <2>1, PanicQueued DEF Dial
  <2>2. CASE ~(~real /\ ~link) BY Zenon, <1>0, <1>17, <2>2, Emitted DEF Dial
  <2> QED BY <2>1, <2>2
<1>18. CASE Open BY Zenon, <1>0, <1>18, Emitted DEF Open
<1>19. CASE Refuse BY Zenon, <1>0, <1>19, Emitted DEF Refuse
<1>20. CASE Lose
  <2>1. UNCHANGED <<queue, batch, left>> BY SMT, <1>20 DEF Lose
  <2> QED BY Zenon, <1>0, <1>20, <2>1, Appended DEF Lose
<1>21. CASE Fail
  <2>1. UNCHANGED <<queue, batch, left>> BY SMT, <1>21 DEF Fail
  <2> QED BY Zenon, <1>0, <1>21, <2>1, Appended DEF Fail
<1>22. CASE Close
  <2>1. CASE UNCHANGED events /\ \E to \in {"ended", "sleep"} : Wire(to)
    BY <2>1, WireQueues, QueuedUnchanged
  <2>2. CASE \E to \in {"ended"}, type \in Plain : Emit(type) /\ Wire(to)
    BY Zenon, <2>2, Emitted
  <2> QED BY Zenon, <1>0, <1>22, <2>1, <2>2 DEF Close
<1>23. CASE SocketError
  <2>1. UNCHANGED <<events, queue, batch, left>> BY SMT, <1>23 DEF SocketError
  <2> QED BY <2>1, QueuedUnchanged
<1>24. CASE ConsumeStarts
  <2>1. CASE link
    <3>1. UNCHANGED <<events, queue, batch, left>> BY SMT, <1>24, <2>1 DEF ConsumeStarts
    <3> QED BY <3>1, QueuedUnchanged
  <2>2. CASE ~link
    BY Zenon, <1>24, <2>2, PanicQueued DEF ConsumeStarts
  <2> QED BY <2>1, <2>2
<1>25. CASE HandleStateEvent
  <2>1. UNCHANGED <<queue, batch, left>> BY SMT, <1>25 DEF HandleStateEvent
  <2>2. events # <<>> /\ events' = Tail(events)
    BY Zenon, <1>25 DEF HandleStateEvent, Receiving, Taken
  <2> QED BY <2>1, <2>2 DEF Queued
<1>26. CASE HandleUserEvent
  <2>1. CASE Panic("link") \/ Panic("boot") BY Zenon, <2>1, PanicQueued
  <2>2. CASE events' = Tail(events) /\ UNCHANGED <<queue, batch, left>>
    <3>1. events # <<>> BY Zenon, <1>26 DEF HandleUserEvent, Receiving
    <3> QED BY <2>2, <3>1 DEF Queued
  <2> QED BY Zenon, <1>26, <2>1, <2>2 DEF HandleUserEvent, Taken
<1>27. CASE LoopStarts
  <2>1. UNCHANGED <<events, queue, batch, left>> BY SMT, <1>27 DEF LoopStarts
  <2> QED BY <2>1, QueuedUnchanged
<1>28. CASE Collect
  <2>1. UNCHANGED events /\ queue # <<>> /\ queue' = Tail(queue)
        /\ batch' = batch \cup {Head(queue)}
    BY Zenon, <1>28 DEF Collect
  <2>2. left' = Short \/ left' = Long BY SMT, <1>28 DEF Collect
  <2> QED BY <2>1, <2>2, Bounds DEF Queued, MaxLeft
<1>29. CASE Tick
  <2>1. UNCHANGED <<events, queue, batch>> /\ left > 0 /\ left' = left - 1 BY SMT, <1>29 DEF Tick
  <2> QED BY <2>1, Bounds DEF Queued, MaxLeft
<1>30. CASE Expire
  <2>1. UNCHANGED <<events, queue, left>> /\ batch' = {} BY SMT, <1>30 DEF Expire, EntriesLeft
  <2> QED BY <2>1 DEF Queued
<1>31. ASSUME NEW g \in Ghosts, ChangeUser(g) PROVE Queued'
  <2>1. UNCHANGED <<queue, batch, left>> BY SMT, <1>31 DEF ChangeUser
  <2>2. CASE UNCHANGED events BY <2>1, <2>2, QueuedUnchanged
  <2>3. CASE \E type \in {"user_change", "user_invalidated"} :
               events' = Append(events, [type |-> type, user |-> g, version |-> version'[g]])
    <3>1. PICK type \in {"user_change", "user_invalidated"} :
            events' = Append(events, [type |-> type, user |-> g, version |-> version'[g]])
      BY <2>3
    <3>2. version'[g] \in Versions BY DEF Numbers
    <3>3. [type |-> type, user |-> g, version |-> version'[g]] \in Event BY <3>2 DEF Event
    <3> QED BY <2>1, <3>1, <3>3 DEF Queued
  <2> QED BY Zenon, <1>31, <2>2, <2>3 DEF ChangeUser
<1>32. ASSUME NEW g \in Ghosts, Age(g) PROVE Queued'
  <2>1. UNCHANGED <<events, queue, batch, left>> BY SMT, <1>32 DEF Age
  <2> QED BY <2>1, QueuedUnchanged
<1>33. ASSUME NEW g \in Ghosts, NEW recent \in BOOLEAN, Enqueue(g, recent) PROVE Queued'
  <2>1. UNCHANGED <<events, batch, left>> /\ queue' = Append(queue, g) BY SMT, <1>33 DEF Enqueue
  <2> QED BY <2>1 DEF Queued
<1>34. ASSUME NEW g \in Ghosts, NEW recent \in BOOLEAN, AskDirectly(g, recent) PROVE Queued'
  <2>1. UNCHANGED <<events, queue, batch, left>> BY SMT, <1>34 DEF AskDirectly
  <2> QED BY <2>1, QueuedUnchanged
<1>35. ASSUME NEW r \in requests, Ask(r) PROVE Queued'
  <2>1. CASE client
    <3>1. UNCHANGED <<events, queue, batch, left>> BY SMT, <1>35, <2>1 DEF Ask
    <3> QED BY <3>1, QueuedUnchanged
  <2>2. CASE ~client BY Zenon, <1>35, <2>2, PanicQueued DEF Ask
  <2> QED BY <2>1, <2>2
<1>36. ASSUME NEW r \in requests, Answer(r) PROVE Queued'
  <2>1. CASE ~(~boot /\ Answered(r) # {})
    <3>1. UNCHANGED <<events, queue, batch, left>> BY Zenon, <1>36, <2>1 DEF Answer
    <3> QED BY <3>1, QueuedUnchanged
  <2>2. CASE ~boot /\ Answered(r) # {} BY Zenon, <1>36, <2>2, PanicQueued DEF Answer
  <2> QED BY <2>1, <2>2
<1>37. ASSUME NEW r \in requests, AnswerFails(r) PROVE Queued'
  <2>1. UNCHANGED <<events, queue, batch, left>> BY SMT, <1>37 DEF AnswerFails
  <2> QED BY <2>1, QueuedUnchanged
<1>38. ASSUME NEW w \in writes, Show(w) PROVE Queued'
  <2>1. UNCHANGED <<events, queue, batch, left>> BY SMT, <1>38 DEF Show
  <2> QED BY <2>1, QueuedUnchanged
<1>39. ASSUME NEW w \in writes, Stamp(w) PROVE Queued'
  <2>1. UNCHANGED <<events, queue, batch, left>> BY SMT, <1>39 DEF Stamp
  <2> QED BY <2>1, QueuedUnchanged
<1>41. CASE ConnectAfterLogin
  <2>1. UNCHANGED <<events, queue, batch, left>> BY Zenon, <1>41 DEF ConnectAfterLogin
  <2> QED BY <2>1, QueuedUnchanged
<1>40. CASE UNCHANGED vars
  <2>1. UNCHANGED <<events, queue, batch, left>> BY SMT, <1>40 DEF vars
  <2> QED BY <2>1, QueuedUnchanged
<1> QED
  BY Zenon, <1>1, <1>2, <1>3, <1>4, <1>5, <1>6, <1>7, <1>8, <1>9, <1>10, <1>11, <1>12, <1>13,
     <1>14, <1>15, <1>16, <1>17, <1>18, <1>19, <1>20, <1>21, <1>22, <1>23, <1>24, <1>25, <1>26,
     <1>27, <1>28, <1>29, <1>30, <1>31, <1>32, <1>33, <1>34, <1>35, <1>36, <1>37, <1>38, <1>39,
     <1>40, <1>41 DEF Next

-----------------------------------------------------------------------------
(* What ghosts show, and the calls that write it: the row, and a call that *)
(* has shown its data, tell the version, or two calls were mixed. *)

(* What ghosts show and store, and the calls about them.                    *)
Shown ==
  /\ data \in [Ghosts -> Versions] /\ stamp \in [Ghosts -> Versions]
  /\ fresh \in [Ghosts -> BOOLEAN] /\ mixed \in [Ghosts -> BOOLEAN]
  /\ row \in [Ghosts -> [data : Versions, mixed : BOOLEAN]]
  /\ requests \in SUBSET Request /\ writes \in SUBSET Write

(* What is stored is that of the stamp, and a call that has written name    *)
(* and avatar is the one the ghost shows, unless two calls were mixed.      *)
Truth ==
  /\ \A g \in Ghosts : row[g].mixed \/ row[g].data = stamp[g]
  /\ \A w \in writes : w.half => mixed[w.user] \/ data[w.user] = w.version
  /\ StampTellsTruth

shown == <<data, stamp, fresh, mixed, row, requests, writes>>

(* What leaves the ghosts and the calls alone keeps the truth.              *)
LEMMA ShownUnchanged == ASSUME Shown, Truth, UNCHANGED shown PROVE Shown' /\ Truth'
<1>1. Shown' BY SMT DEF Shown, shown
<1>2. Truth' BY Zenon DEF Truth, StampTellsTruth, shown
<1> QED BY <1>1, <1>2

(* The process starts with what the database has.                           *)
LEMMA ShownLoaded ==
  ASSUME Shown, Truth, requests' = {}, writes' = {}, UNCHANGED <<stamp, fresh, row>>,
         data' = [g \in Ghosts |-> row[g].data],
         mixed' = [g \in Ghosts |-> row[g].mixed]
  PROVE  Shown' /\ Truth'
<1>1. Shown' BY SMT DEF Shown
<1>2. \A g \in Ghosts : (row[g].mixed)' = row[g].mixed /\ (row[g].data)' = row[g].data
  OBVIOUS
<1>3. \A g \in Ghosts : data'[g] = row[g].data /\ mixed'[g] = row[g].mixed
  OBVIOUS
<1> QED BY Zenon, <1>1, <1>2, <1>3 DEF Truth, StampTellsTruth

(* After a panic the ghosts show what the database has.                     *)
LEMMA PanicShown == ASSUME Shown, Truth, NEW field, Panic(field) PROVE Shown' /\ Truth'
<1>1. /\ requests' = {} /\ writes' = {} /\ UNCHANGED <<stamp, fresh, row>>
      /\ data' = [g \in Ghosts |-> row[g].data] /\ mixed' = [g \in Ghosts |-> row[g].mixed]
  BY Zenon DEF Panic, LoadUserLogin
<1> QED BY Zenon, <1>1, ShownLoaded

(* Calls that have not begun to write.                                      *)
LEMMA Begun ==
  ASSUME Shown, Truth, NEW more \in SUBSET Write, \A w \in more : ~w.half,
         UNCHANGED <<data, stamp, fresh, mixed, row>>, requests' \in SUBSET Request,
         writes' = writes \cup more
  PROVE  Shown' /\ Truth'
<1>1. Shown' BY SMT DEF Shown
<1>2. \A w \in writes : w \in writes' OBVIOUS
<1>3. \A w \in writes' : w.half => w \in writes OBVIOUS
<1> QED BY Zenon, <1>1, <1>2, <1>3 DEF Truth, StampTellsTruth

(* A request writes nothing.                                                *)
LEMMA Requested ==
  ASSUME Shown, Truth, requests' \in SUBSET Request,
         UNCHANGED <<data, stamp, fresh, mixed, row, writes>>
  PROVE  Shown' /\ Truth'
<1>1. Shown' BY SMT DEF Shown
<1> QED BY Zenon, <1>1 DEF Truth, StampTellsTruth

(* Name and avatar of a call: it is half done, and a call that was half     *)
(* done before marks the ghost as mixed.                                    *)
LEMMA ShowShown == ASSUME Shown, Truth, NEW w \in writes, Show(w) PROVE Shown' /\ Truth'
<1> DEFINE u == w.user
           begun == [w EXCEPT !.half = TRUE]
<1>1. w \in Write /\ u \in Ghosts /\ w.version \in Versions /\ ~w.half
  BY DEF Shown, Write, Show
<1>2. data' = [data EXCEPT ![u] = w.version] /\ writes' = (writes \ {w}) \cup {begun}
  BY Zenon DEF Show
<1>3. UNCHANGED <<stamp, fresh, row, requests>> BY SMT DEF Show
<1>4. mixed' = [mixed EXCEPT ![u] = \E o \in writes : o.user = u /\ o.half] BY Zenon DEF Show
<1>5. (\E o \in writes : o.user = u /\ o.half) \in BOOLEAN BY Zenon
<1>6. mixed' \in [Ghosts -> BOOLEAN] BY Zenon, <1>1, <1>4, <1>5 DEF Shown
<1>7. begun \in Write /\ begun.user = u /\ begun.half /\ begun.version = w.version
  BY <1>1 DEF Write
<1>8. Shown' BY <1>1, <1>2, <1>3, <1>6, <1>7 DEF Shown
<1>9. mixed'[u] = (\E o \in writes : o.user = u /\ o.half) BY Zenon, <1>1, <1>4 DEF Shown
<1>10. \A h \in Ghosts : h # u => mixed'[h] = mixed[h] /\ data'[h] = data[h]
  BY <1>1, <1>2, <1>4 DEF Shown
<1>11. data'[u] = w.version BY <1>1, <1>2 DEF Shown
<1>12. ASSUME NEW o \in writes', o.half PROVE mixed'[o.user] \/ data'[o.user] = o.version
  <2>1. CASE o = begun BY <2>1, <1>7, <1>11
  <2>2. CASE o # begun
    <3>1. o \in writes /\ o.user \in Ghosts BY <2>2, <1>2 DEF Shown, Write
    <3>2. CASE o.user = u BY Zenon, <3>1, <3>2, <1>9, <1>12
    <3>3. CASE o.user # u BY Zenon, <3>1, <3>3, <1>10, <1>12 DEF Truth
    <3> QED BY <3>2, <3>3
  <2> QED BY <2>1, <2>2
<1>13. StampTellsTruth'
  <2> SUFFICES ASSUME NEW h \in Ghosts
               PROVE  mixed'[h] \/ data'[h] = stamp'[h] \/ \E o \in writes' : o.user = h /\ o.half
    BY Zenon DEF StampTellsTruth
  <2>1. CASE h = u
    <3>1. begun \in writes' BY <1>2
    <3> QED BY Zenon, <2>1, <3>1, <1>7
  <2>2. CASE h # u
    <3>1. stamp'[h] = stamp[h] BY <1>3
    <3>2. \A o \in writes : o.half => o \in writes' BY <1>1, <1>2
    <3> QED BY Zenon, <2>2, <3>1, <3>2, <1>10 DEF Truth, StampTellsTruth
  <2> QED BY <2>1, <2>2
<1>14. \A h \in Ghosts : row'[h].mixed \/ row'[h].data = stamp'[h]
  BY Zenon, <1>3 DEF Truth
<1> QED BY Zenon, <1>8, <1>12, <1>13, <1>14 DEF Truth

(* The stamp of a call: it is that of the data, unless the ghost is mixed.  *)
LEMMA StampShown == ASSUME Shown, Truth, NEW w \in writes, Stamp(w) PROVE Shown' /\ Truth'
<1> DEFINE u == w.user
<1>1. w \in Write /\ u \in Ghosts /\ w.version \in Versions /\ w.half
  BY DEF Shown, Write, Stamp
<1>2. /\ stamp' = [stamp EXCEPT ![u] = w.version] /\ writes' = writes \ {w}
      /\ fresh' = [fresh EXCEPT ![u] = TRUE]
      /\ row' = [row EXCEPT ![u] = [data |-> data[u], mixed |-> mixed[u]]]
  BY Zenon DEF Stamp, StampOf
<1>3. UNCHANGED <<data, requests, mixed>> BY SMT DEF Stamp
<1>4. fresh' \in [Ghosts -> BOOLEAN] BY Zenon, <1>2 DEF Shown
<1>5. [data |-> data[u], mixed |-> mixed[u]] \in [data : Versions, mixed : BOOLEAN]
  BY <1>1 DEF Shown
<1>6. Shown' BY <1>1, <1>2, <1>3, <1>4, <1>5 DEF Shown
<1>7. mixed[u] \/ data[u] = w.version BY Zenon, <1>1 DEF Truth
<1>8. stamp'[u] = w.version /\ \A h \in Ghosts : h # u => stamp'[h] = stamp[h] /\ row'[h] = row[h]
  BY <1>1, <1>2 DEF Shown
<1>9. row'[u] = [data |-> data[u], mixed |-> mixed[u]] BY <1>1, <1>2 DEF Shown
<1>10. row'[u].data = data[u] /\ row'[u].mixed = mixed[u] BY <1>9
<1>11. \A h \in Ghosts : row'[h].mixed \/ row'[h].data = stamp'[h]
  BY Zenon, <1>7, <1>8, <1>10 DEF Truth
<1>12. \A o \in writes' : o.half => mixed'[o.user] \/ data'[o.user] = o.version
  <2>1. \A o \in writes' : o \in writes BY <1>2
  <2> QED BY Zenon, <2>1, <1>3 DEF Truth
<1>13. \A h \in Ghosts : mixed'[h] \/ data'[h] =
  stamp'[h] \/ \E o \in writes' : o.user = h /\ o.half
  <2> SUFFICES ASSUME NEW h \in Ghosts, h # u
               PROVE  mixed'[h] \/ data'[h] = stamp'[h] \/ \E o \in writes' : o.user = h /\ o.half
    BY Zenon, <1>3, <1>7, <1>8
  <2>1. \A o \in writes : o.user = h => o \in writes' BY <1>2
  <2> QED BY Zenon, <2>1, <1>3, <1>8 DEF Truth, StampTellsTruth
<1> QED BY Zenon, <1>6, <1>11, <1>12, <1>13 DEF Truth, StampTellsTruth

(* Every step keeps the truth.                                              *)
LEMMA ShownKept ==
  ASSUME Numbers, Queued, Shown, Truth, [Next]_vars PROVE Shown' /\ Truth'
<1> USE DEF Keep, KeepSession, KeepUsers, users, resync, ghosts, shown
<1>1. CASE Restart
  <2>1. /\ requests' = {} /\ writes' = {} /\ UNCHANGED <<stamp, fresh, row>>
        /\ data' = [g \in Ghosts |-> row[g].data] /\ mixed' = [g \in Ghosts |-> row[g].mixed]
    BY Zenon, <1>1 DEF Restart, LoadUserLogin
  <2> QED BY Zenon, <2>1, ShownLoaded
<1>2. CASE Login
  <2>1. UNCHANGED shown
    BY Zenon, <1>2 DEF Login, LoadUserLogin
  <2> QED BY <2>1, ShownUnchanged
<1>3. CASE ConnectNotLoggedIn
  <2>1. UNCHANGED shown BY SMT, <1>3 DEF ConnectNotLoggedIn
  <2> QED BY <2>1, ShownUnchanged
<1>4. CASE ConnectBegin
  <2>1. CASE client
    <3>1. UNCHANGED shown BY SMT, <1>4, <2>1 DEF ConnectBegin
    <3> QED BY <3>1, ShownUnchanged
  <2>2. CASE ~client
    BY Zenon, <1>4, <2>2, PanicShown DEF ConnectBegin
  <2> QED BY <2>1, <2>2
<1>5. CASE Boot
  <2>1. CASE client
    <3>1. UNCHANGED shown BY Zenon, <1>5, <2>1 DEF Boot
    <3> QED BY <3>1, ShownUnchanged
  <2>2. CASE ~client
    BY Zenon, <1>5, <2>2, PanicShown DEF Boot
  <2> QED BY <2>1, <2>2
<1>6. CASE ConnectFails
  <2>1. UNCHANGED shown BY SMT, <1>6 DEF ConnectFails
  <2> QED BY <2>1, ShownUnchanged
<1>7. CASE Start
  <2>1. CASE ~(real /\ ~link)
    <3>1. UNCHANGED shown BY Zenon, <1>7, <2>1 DEF Start
    <3> QED BY <3>1, ShownUnchanged
  <2>2. CASE real /\ ~link
    BY Zenon, <1>7, <2>2, PanicShown DEF Start
  <2> QED BY <2>1, <2>2
<1>8. CASE ClearToken
  <2>1. UNCHANGED shown BY Zenon, <1>8 DEF ClearToken
  <2> QED BY <2>1, ShownUnchanged
<1>9. CASE Drop
  <2>1. UNCHANGED shown BY SMT, <1>9 DEF Drop
  <2> QED BY <2>1, ShownUnchanged
<1>10. CASE Report
  <2>1. UNCHANGED shown BY SMT, <1>10 DEF Report
  <2> QED BY <2>1, ShownUnchanged
<1>11. CASE Disconnect
  <2>1. UNCHANGED shown BY SMT, <1>11 DEF Disconnect
  <2> QED BY <2>1, ShownUnchanged
<1>12. CASE LogoutRemote
  <2>1. UNCHANGED shown BY SMT, <1>12 DEF LogoutRemote
  <2> QED BY <2>1, ShownUnchanged
<1>13. CASE SignedOut
  <2>1. UNCHANGED shown BY SMT, <1>13 DEF SignedOut
  <2> QED BY <2>1, ShownUnchanged
<1>14. CASE Revoke
  <2>1. UNCHANGED shown BY SMT, <1>14 DEF Revoke
  <2> QED BY <2>1, ShownUnchanged
<1>15. CASE WireStarts
  <2>1. UNCHANGED shown BY SMT, <1>15 DEF WireStarts
  <2> QED BY <2>1, ShownUnchanged
<1>16. CASE SocketLoop
  <2>1. UNCHANGED shown BY SMT, <1>16 DEF SocketLoop, Wire
  <2> QED BY <2>1, ShownUnchanged
<1>17. CASE Dial
  <2>1. CASE ~real /\ ~link BY Zenon, <1>17, <2>1, PanicShown DEF Dial
  <2>2. CASE ~(~real /\ ~link)
    <3>1. UNCHANGED shown BY Zenon, <1>17, <2>2 DEF Dial, Wire
    <3> QED BY <3>1, ShownUnchanged
  <2> QED BY <2>1, <2>2
<1>18. CASE Open
  <2>1. UNCHANGED shown BY Zenon, <1>18 DEF Open, Wire
  <2> QED BY <2>1, ShownUnchanged
<1>19. CASE Refuse
  <2>1. UNCHANGED shown BY Zenon, <1>19 DEF Refuse, Wire
  <2> QED BY <2>1, ShownUnchanged
<1>20. CASE Lose
  <2>1. UNCHANGED shown BY SMT, <1>20 DEF Lose
  <2> QED BY <2>1, ShownUnchanged
<1>21. CASE Fail
  <2>1. UNCHANGED shown BY SMT, <1>21 DEF Fail
  <2> QED BY <2>1, ShownUnchanged
<1>22. CASE Close
  <2>1. UNCHANGED shown BY Zenon, <1>22 DEF Close, Wire
  <2> QED BY <2>1, ShownUnchanged
<1>23. CASE SocketError
  <2>1. UNCHANGED shown BY SMT, <1>23 DEF SocketError
  <2> QED BY <2>1, ShownUnchanged
<1>24. CASE ConsumeStarts
  <2>1. CASE link
    <3>1. UNCHANGED shown BY SMT, <1>24, <2>1 DEF ConsumeStarts
    <3> QED BY <3>1, ShownUnchanged
  <2>2. CASE ~link
    BY Zenon, <1>24, <2>2, PanicShown DEF ConsumeStarts
  <2> QED BY <2>1, <2>2
<1>25. CASE HandleStateEvent
  <2>1. UNCHANGED shown BY SMT, <1>25 DEF HandleStateEvent
  <2> QED BY <2>1, ShownUnchanged
<1>26. CASE HandleUserEvent
  <2>1. CASE Panic("link") \/ Panic("boot") BY Zenon, <2>1, PanicShown
  <2>2. CASE ~Panic("link") /\ ~Panic("boot")
    <3> DEFINE e == Head(events)
               write == [user |-> e.user, version |-> e.version, half |-> FALSE]
               request == [of |-> {e.user}, since |-> stamp, sent |-> FALSE, batch |-> FALSE]
    <3>1. UNCHANGED <<data, stamp, fresh, mixed, row>>
      BY Zenon, <1>26, <2>2 DEF HandleUserEvent
    <3>2. e \in Event /\ e.type \notin Plain
      <4>1. events # <<>> /\ e.type \notin Plain BY Zenon, <1>26 DEF HandleUserEvent, Receiving
      <4> QED BY <4>1 DEF Queued
    <3>3. e.user \in Ghosts /\ e.version \in Versions BY <3>2 DEF Event
    <3>4. CASE writes' = writes \cup {write} /\ UNCHANGED requests
      <4>1. {write} \in SUBSET Write /\ ~write.half BY <3>3 DEF Write
      <4> QED BY <3>1, <3>4, <4>1, Begun DEF Shown
    <3>5. CASE requests' = requests \cup {request} /\ UNCHANGED writes
      <4>1. request \in Request BY <3>3 DEF Request, Shown
      <4>2. requests' \in SUBSET Request BY <3>5, <4>1 DEF Shown
      <4> QED BY <3>1, <3>5, <4>2, Requested
    <3> QED BY Zenon, <1>26, <2>2, <3>4, <3>5 DEF HandleUserEvent
  <2> QED BY <2>1, <2>2
<1>27. CASE LoopStarts
  <2>1. UNCHANGED shown BY SMT, <1>27 DEF LoopStarts
  <2> QED BY <2>1, ShownUnchanged
<1>28. CASE Collect
  <2>1. UNCHANGED shown BY SMT, <1>28 DEF Collect
  <2> QED BY <2>1, ShownUnchanged
<1>29. CASE Tick
  <2>1. UNCHANGED shown BY SMT, <1>29 DEF Tick
  <2> QED BY <2>1, ShownUnchanged
<1>30. CASE Expire
  <2> DEFINE request == [of |-> batch, since |-> stamp, sent |-> FALSE, batch |-> TRUE]
  <2>1. request \in Request BY DEF Request, Shown, Queued
  <2>2. requests' = requests \cup {request} BY Zenon, <1>30 DEF Expire
  <2>3. UNCHANGED <<data, stamp, fresh, mixed, row, writes>> BY SMT, <1>30 DEF Expire
  <2>4. requests' \in SUBSET Request BY <2>1, <2>2 DEF Shown
  <2> QED BY <2>3, <2>4, Requested
<1>31. ASSUME NEW g \in Ghosts, ChangeUser(g) PROVE Shown' /\ Truth'
  <2>1. UNCHANGED shown BY SMT, <1>31 DEF ChangeUser
  <2> QED BY <2>1, ShownUnchanged
<1>32. ASSUME NEW g \in Ghosts, Age(g) PROVE Shown' /\ Truth'
  <2>1. UNCHANGED <<data, stamp, mixed, row, requests, writes>> BY SMT, <1>32 DEF Age
  <2>2. fresh' = [fresh EXCEPT ![g] = FALSE] BY Zenon, <1>32 DEF Age
  <2>3. fresh' \in [Ghosts -> BOOLEAN] BY Zenon, <2>2 DEF Shown
  <2>4. Shown' BY <2>1, <2>3 DEF Shown
  <2> QED BY Zenon, <2>1, <2>4 DEF Truth, StampTellsTruth
<1>33. ASSUME NEW g \in Ghosts, NEW recent \in BOOLEAN, Enqueue(g, recent) PROVE Shown' /\ Truth'
  <2>1. UNCHANGED shown BY SMT, <1>33 DEF Enqueue
  <2> QED BY <2>1, ShownUnchanged
<1>34. ASSUME NEW g \in Ghosts, NEW recent \in BOOLEAN, AskDirectly(g, recent)
  PROVE Shown' /\ Truth'
  <2> DEFINE request == [of |-> {g}, since |-> stamp, sent |-> TRUE, batch |-> FALSE]
  <2>1. request \in Request BY DEF Request, Shown
  <2>2. requests' = requests \cup {request} BY Zenon, <1>34 DEF AskDirectly
  <2>3. UNCHANGED <<data, stamp, fresh, mixed, row, writes>> BY SMT, <1>34 DEF AskDirectly
  <2>4. requests' \in SUBSET Request BY <2>1, <2>2 DEF Shown
  <2> QED BY <2>3, <2>4, Requested
<1>35. ASSUME NEW r \in requests, Ask(r) PROVE Shown' /\ Truth'
  <2>1. CASE client
    <3>1. requests' = (requests \ {r}) \cup {[r EXCEPT !.since = stamp, !.sent = TRUE]}
      BY Zenon, <1>35, <2>1 DEF Ask
    <3>2. UNCHANGED <<data, stamp, fresh, mixed, row, writes>> BY SMT, <1>35, <2>1 DEF Ask
    <3>3. [r EXCEPT !.since = stamp, !.sent = TRUE] \in Request BY DEF Request, Shown
    <3>4. requests' \in SUBSET Request BY <3>1, <3>3 DEF Shown
    <3> QED BY <3>2, <3>4, Requested
  <2>2. CASE ~client BY Zenon, <1>35, <2>2, PanicShown DEF Ask
  <2> QED BY <2>1, <2>2
<1>36. ASSUME NEW r \in requests, Answer(r) PROVE Shown' /\ Truth'
  <2> DEFINE more == {[user |-> g, version |-> version[g], half |-> FALSE] : g \in Answered(r)}
  <2>0. CASE Panic("boot") BY Zenon, <2>0, PanicShown
  <2> SUFFICES ASSUME ~Panic("boot") PROVE Shown' /\ Truth' BY <2>0
  <2>1. UNCHANGED <<data, stamp, fresh, mixed, row>> BY Zenon, <1>36 DEF Answer
  <2>2. requests' = requests \ {r} /\ writes' = writes \cup more BY Zenon, <1>36 DEF Answer
  <2>3. Answered(r) \subseteq Ghosts BY DEF Answered, Shown, Request
  <2>4. ASSUME NEW w \in more PROVE w \in Write /\ ~w.half
    <3>1. PICK g \in Answered(r) : w = [user |-> g, version |-> version[g], half |-> FALSE]
      OBVIOUS
    <3>2. g \in Ghosts /\ version[g] \in Versions BY <2>3 DEF Numbers
    <3> QED BY <3>1, <3>2 DEF Write
  <2>5. requests' \in SUBSET Request BY <2>2 DEF Shown
  <2> HIDE DEF more
  <2>6. more \in SUBSET Write /\ \A w \in more : ~w.half BY <2>4
  <2> QED BY Zenon, <2>1, <2>2, <2>5, <2>6, Begun
<1>37. ASSUME NEW r \in requests, AnswerFails(r) PROVE Shown' /\ Truth'
  <2>1. UNCHANGED <<data, stamp, fresh, mixed, row, writes>> BY SMT, <1>37 DEF AnswerFails
  <2>2. requests' = requests \ {r} BY Zenon, <1>37 DEF AnswerFails
  <2>3. requests' \in SUBSET Request BY <2>2 DEF Shown
  <2> QED BY <2>1, <2>3, Requested
<1>38. ASSUME NEW w \in writes, Show(w) PROVE Shown' /\ Truth'
  BY <1>38, ShowShown
<1>39. ASSUME NEW w \in writes, Stamp(w) PROVE Shown' /\ Truth'
  BY <1>39, StampShown
<1>41. CASE ConnectAfterLogin
  <2>1. UNCHANGED shown BY Zenon, <1>41 DEF ConnectAfterLogin
  <2> QED BY <2>1, ShownUnchanged
<1>40. CASE UNCHANGED vars
  <2>1. UNCHANGED shown BY SMT, <1>40 DEF vars
  <2> QED BY <2>1, ShownUnchanged
<1> QED
  BY Zenon, <1>1, <1>2, <1>3, <1>4, <1>5, <1>6, <1>7, <1>8, <1>9, <1>10, <1>11, <1>12, <1>13,
     <1>14, <1>15, <1>16, <1>17, <1>18, <1>19, <1>20, <1>21, <1>22, <1>23, <1>24, <1>25, <1>26,
     <1>27, <1>28, <1>29, <1>30, <1>31, <1>32, <1>33, <1>34, <1>35, <1>36, <1>37, <1>38, <1>39,
     <1>40, <1>41 DEF Next

-----------------------------------------------------------------------------
(* The fields of the session. *)

(* Whole with equivalences for its equalities, and that a process that      *)
(* panicked is down.                                                        *)
Fields ==
  /\ up /\ ~teardown =>
       /\ (client <=> made) /\ (link <=> made)
       /\ ~made => /\ connect \in {"begin", "idle"}
                   /\ consume = "none" /\ wire = "off" /\ loop = "none"
                   /\ requests = {}
  /\ panic # "none" => ~up
  /\ panic \in {"client", "link"} => teardown
  /\ command = "signout" => teardown

(* Booting, and what a panic over BootResp means.                           *)
Boots == Booting /\ (panic = "boot" => unbooted)

(* They say what the invariant of the runs says.                            *)
LEMMA FieldsSafe ==
  ASSUME Flags, Fields, Boots PROVE Whole /\ Booting /\ PanicsOnlyWhenLeaving
BY Zenon DEF Flags, Fields, Boots, Whole, PanicsOnlyWhenLeaving

(* A panic after disconnect is allowed, and one over BootResp is no news    *)
(* for the other fields.                                                    *)
LEMMA PanicFields ==
  ASSUME Fields, NEW field \in Pointers, Panic(field), teardown \/ field = "boot" PROVE Fields'
BY SMT DEF Fields, Panic, LoadUserLogin, Pointers

(* A goroutine that finds a field missing runs after disconnect.            *)
LEMMA FieldMissing ==
  ASSUME Fields, up, ~client \/ ~link,
         connect \notin {"begin", "idle"} \/ consume # "none" \/ wire # "off" \/ requests # {}
  PROVE  teardown
BY SMT DEF Fields

(* The connection's steps need the fields they found.                       *)
LEMMA WireFields == ASSUME Fields, NEW to, wire # "off", Wire(to) PROVE Fields'
BY SMT DEF Fields, Wire, Keep, session, users, resync, process

(* Every step keeps the fields whole until disconnect.                      *)
LEMMA FieldsKept == ASSUME Flags, Fields, [Next]_vars PROVE Fields'
<1> USE DEF Keep, KeepSession, KeepUsers, session, resync, users, process, threads
<1>0. "client" \in Pointers /\ "link" \in Pointers /\ "boot" \in Pointers BY DEF Pointers
<1>1. CASE Restart
  BY SMT, <1>1 DEF Fields, Restart, LoadUserLogin
<1>2. CASE Login
  <2>1. client' = TRUE /\ made' = TRUE /\ link' = TRUE BY Zenon, <1>2 DEF Login, LoadUserLogin
  <2>2. command' = "idle" /\ UNCHANGED <<up, panic>> /\ teardown' = FALSE
    BY Zenon, <1>2 DEF Login, LoadUserLogin
  <2>3. up BY Zenon, <1>2 DEF Login
  <2>4. panic = "none" BY <2>3 DEF Fields
  <2>5. panic' = "none" BY SMT, <2>2, <2>4
  <2> QED BY Zenon, <2>1, <2>2, <2>5 DEF Fields
<1>3. CASE ConnectNotLoggedIn
  BY SMT, <1>3 DEF Fields, ConnectNotLoggedIn
<1>4. CASE ConnectBegin
  BY SMT, <1>4 DEF Fields, ConnectBegin, NotLoggedIn
<1>5. CASE Boot
  <2>1. up /\ connect # "begin" /\ connect # "idle" BY Zenon, <1>5 DEF Boot
  <2>2. CASE client
    <3>1. connect' \in {"team", "save"} /\ UNCHANGED <<consume, wire, command, loop, requests>>
      BY Zenon, <1>5, <2>2 DEF Boot, Booted
    <3>2. UNCHANGED <<up, panic, teardown, client, made, link>>
      BY Zenon, <1>5, <2>2 DEF Boot, KeepBootResp
    <3> QED BY SMT, <2>1, <3>1, <3>2 DEF Fields
  <2>3. CASE ~client
    <3>1. teardown BY Zenon, <2>3, <2>1, FieldMissing
    <3>2. Panic("client") BY Zenon, <1>5, <2>3 DEF Boot
    <3> QED BY <3>1, <3>2, <1>0, PanicFields
  <2> QED BY <2>2, <2>3
<1>6. CASE ConnectFails
  BY SMT, <1>6 DEF Fields, ConnectFails
<1>7. CASE Start
  <2>1. up /\ connect # "begin" /\ connect # "idle" BY Zenon, <1>7 DEF Start
  <2>2. CASE ~(real /\ ~link)
    <3>1. connect = "team" /\ connect' = "idle" BY Zenon, <1>7, <2>2 DEF Start
    <3>2. UNCHANGED <<up, panic, teardown, early, client, made, link, requests, command>>
      BY Zenon, <1>7, <2>2 DEF Start
    <3> QED BY SMT, <3>1, <3>2 DEF Fields
  <2>3. CASE real /\ ~link
    <3>1. teardown BY Zenon, <2>3, <2>1, FieldMissing
    <3>2. Panic("link") BY Zenon, <1>7, <2>3 DEF Start
    <3> QED BY <3>1, <3>2, <1>0, PanicFields
  <2> QED BY <2>2, <2>3
<1>8. CASE ClearToken
  BY SMT, <1>8 DEF Fields, ClearToken
<1>9. CASE Drop
  BY SMT, <1>9 DEF Fields, Drop, disconnect
<1>10. CASE Report
  BY SMT, <1>10 DEF Fields, Report
<1>11. CASE Disconnect
  BY SMT, <1>11 DEF Fields, Disconnect, disconnect
<1>12. CASE LogoutRemote
  BY SMT, <1>12 DEF Fields, LogoutRemote, disconnect
<1>13. CASE SignedOut
  BY SMT, <1>13 DEF Fields, SignedOut
<1>14. CASE Revoke
  BY SMT, <1>14 DEF Fields, Revoke
<1>15. CASE WireStarts
  BY SMT, <1>15 DEF Fields, WireStarts
<1>16. CASE SocketLoop
  BY SMT, <1>16 DEF Fields, SocketLoop, Wire
<1>17. CASE Dial
  <2>1. up /\ wire # "off" BY Zenon, <1>17 DEF Dial
  <2>2. CASE ~(~real /\ ~link)
    BY Zenon, <1>17, <2>2, <2>1, WireFields DEF Dial
  <2>3. CASE ~real /\ ~link
    <3>1. teardown BY Zenon, <2>3, <2>1, FieldMissing
    <3>2. Panic("link") BY Zenon, <1>17, <2>3 DEF Dial
    <3> QED BY <3>1, <3>2, <1>0, PanicFields
  <2> QED BY <2>2, <2>3
<1>18. CASE Open
  BY SMT, <1>18 DEF Fields, Open, Wire
<1>19. CASE Refuse
  <2>1. wire # "off" BY SMT, <1>19 DEF Refuse
  <2> QED BY Zenon, <1>19, <2>1, WireFields DEF Refuse
<1>20. CASE Lose
  BY SMT, <1>20 DEF Fields, Lose
<1>21. CASE Fail
  BY SMT, <1>21 DEF Fields, Fail
<1>22. CASE Close
  <2>1. wire # "off" BY SMT, <1>22 DEF Close
  <2> QED BY Zenon, <1>22, <2>1, WireFields DEF Close
<1>23. CASE SocketError
  BY SMT, <1>23 DEF Fields, SocketError
<1>24. CASE ConsumeStarts
  <2>1. up /\ consume # "none" BY Zenon, <1>24 DEF ConsumeStarts
  <2>2. CASE link
    BY SMT, <1>24, <2>2 DEF Fields, ConsumeStarts
  <2>3. CASE ~link
    <3>1. teardown BY Zenon, <2>3, <2>1, FieldMissing
    <3>2. Panic("link") BY Zenon, <1>24, <2>3 DEF ConsumeStarts
    <3> QED BY <3>1, <3>2, <1>0, PanicFields
  <2> QED BY <2>2, <2>3
<1>25. CASE HandleStateEvent
  BY SMT, <1>25 DEF Fields, HandleStateEvent, Receiving
<1>26. CASE HandleUserEvent
  <2>1. up /\ consume # "none" BY Zenon, <1>26 DEF HandleUserEvent, Receiving
  <2>2. CASE UNCHANGED <<up, panic, teardown, early, client, made, link, connect, consume, wire,
                         loop, command>>
    BY SMT, <2>1, <2>2 DEF Fields
  <2>3. CASE ~real /\ ~link
    <3>1. teardown BY Zenon, <2>3, <2>1, FieldMissing
    <3>2. Panic("link") BY Zenon, <1>26, <2>3 DEF HandleUserEvent
    <3> QED BY <3>1, <3>2, <1>0, PanicFields
  <2>4. CASE Panic("boot") BY <2>4, <1>0, PanicFields
  <2> QED BY Zenon, <1>26, <2>2, <2>3, <2>4 DEF HandleUserEvent
<1>27. CASE LoopStarts
  BY SMT, <1>27 DEF Fields, LoopStarts
<1>28. CASE Collect
  BY SMT, <1>28 DEF Fields, Collect
<1>29. CASE Tick
  BY SMT, <1>29 DEF Fields, Tick
<1>30. CASE Expire
  BY SMT, <1>30 DEF Fields, Expire
<1>31. ASSUME NEW g \in Ghosts, ChangeUser(g) PROVE Fields'
  BY SMT, <1>31 DEF Fields, ChangeUser
<1>32. ASSUME NEW g \in Ghosts, Age(g) PROVE Fields'
  BY SMT, <1>32 DEF Fields, Age
<1>33. ASSUME NEW g \in Ghosts, NEW recent \in BOOLEAN, Enqueue(g, recent) PROVE Fields'
  BY SMT, <1>33 DEF Fields, Enqueue
<1>34. ASSUME NEW g \in Ghosts, NEW recent \in BOOLEAN, AskDirectly(g, recent) PROVE Fields'
  BY SMT, <1>34 DEF Fields, AskDirectly
<1>35. ASSUME NEW r \in requests, Ask(r) PROVE Fields'
  <2>1. CASE client BY SMT, <1>35, <2>1 DEF Fields, Ask
  <2>2. CASE ~client
    <3>1. up /\ requests # {} BY SMT, <1>35 DEF Ask
    <3>2. teardown BY Zenon, <2>2, <3>1, FieldMissing
    <3>3. Panic("client") BY Zenon, <1>35, <2>2 DEF Ask
    <3> QED BY <3>2, <3>3, <1>0, PanicFields
  <2> QED BY <2>1, <2>2
<1>36. ASSUME NEW r \in requests, Answer(r) PROVE Fields'
  <2>1. CASE Panic("boot") BY <2>1, <1>0, PanicFields
  <2>2. CASE ~Panic("boot")
    <3>1. UNCHANGED <<up, panic, teardown, client, made, link, connect, consume, wire, loop,
                      command>> /\ requests' = requests \ {r}
      BY Zenon, <1>36, <2>2 DEF Answer
    <3> QED BY SMT, <3>1 DEF Fields
  <2> QED BY <2>1, <2>2
<1>37. ASSUME NEW r \in requests, AnswerFails(r) PROVE Fields'
  BY SMT, <1>37 DEF Fields, AnswerFails
<1>38. ASSUME NEW w \in writes, Show(w) PROVE Fields'
  BY SMT, <1>38 DEF Fields, Show
<1>39. ASSUME NEW w \in writes, Stamp(w) PROVE Fields'
  BY SMT, <1>39 DEF Fields, Stamp
<1>41. CASE ConnectAfterLogin
  <2>1. connect = "booted" /\ connect' = "team"
        /\ UNCHANGED <<consume, wire, command, loop, requests>>
    BY Zenon, <1>41 DEF ConnectAfterLogin
  <2>2. UNCHANGED <<up, panic, teardown, client, made, link>>
    BY Zenon, <1>41 DEF ConnectAfterLogin, KeepBootResp
  <2> QED BY SMT, <2>1, <2>2 DEF Fields
<1>40. CASE UNCHANGED vars BY SMT, <1>40 DEF vars, Fields
<1> QED
  BY Zenon, <1>1, <1>2, <1>3, <1>4, <1>5, <1>6, <1>7, <1>8, <1>9, <1>10, <1>11, <1>12, <1>13,
     <1>14, <1>15, <1>16, <1>17, <1>18, <1>19, <1>20, <1>21, <1>22, <1>23, <1>24, <1>25, <1>26,
     <1>27, <1>28, <1>29, <1>30, <1>31, <1>32, <1>33, <1>34, <1>35, <1>36, <1>37, <1>38, <1>39,
     <1>40, <1>41 DEF Next

-----------------------------------------------------------------------------
(* BootResp. *)

(* LoadUserLogin begins without it and without anything that needs it.      *)
LEMMA BootsLoaded ==
  ASSUME NEW logged, LoadUserLogin(logged), connect' # "team", panic' # "boot"
  PROVE  Boots'
<1>1. consume' = "none" /\ wire' = "off" /\ loop' = "none" /\ requests' = {}
  BY Zenon DEF LoadUserLogin
<1> QED BY Zenon, <1>1 DEF Boots, Booting

(* A panic, which is not over BootResp unless a caller asked early.         *)
LEMMA BootsPanic ==
  ASSUME NEW field, Panic(field), field = "boot" => unbooted
  PROVE  Boots'
<1>1. up' = FALSE /\ panic' = field /\ unbooted' = unbooted BY Zenon DEF Panic
<1> QED BY Zenon, <1>1 DEF Boots, Booting

(* With BootResp nothing is asked of a step.                                *)
LEMMA BootsHad == ASSUME Boots, boot, UNCHANGED <<boot, panic, unbooted>> PROVE Boots'
BY Zenon DEF Boots, Booting

(* A goroutine that runs has it.                                            *)
LEMMA BootsRun ==
  ASSUME Boots, up, connect = "team" \/ consume # "none" \/ wire # "off" \/ loop # "none"
  PROVE  boot
BY Zenon DEF Boots, Booting

around == <<up, boot, consume, wire, loop, unbooted, panic>>

(* Connect goes on, but not beyond the boot, and requests end.              *)
LEMMA BootsRest ==
  ASSUME Boots, UNCHANGED around, connect' = connect \/ connect' # "team",
         requests' # {} => requests # {}
  PROVE  Boots'
BY Zenon DEF Boots, Booting, around

(* Every step keeps it.                                                     *)
LEMMA BootsKept == ASSUME Fields, Boots, [Next]_vars PROVE Boots'
<1> USE DEF Keep, KeepSession, KeepUsers, session, resync, users, process, threads, ghosts,
            around
<1>1. CASE Restart
  <2>1. LoadUserLogin(saved) /\ connect' = "begin" /\ panic' = "none"
    BY Zenon, <1>1 DEF Restart
  <2> QED BY <2>1, BootsLoaded
<1>2. CASE Login
  <2>1. LoadUserLogin(TRUE) /\ connect' \in {"booted", "begin"} /\ panic' = panic /\ up
    BY Zenon, <1>2 DEF Login
  <2>2. panic = "none" BY <2>1 DEF Fields
  <2> QED BY <2>1, <2>2, BootsLoaded
<1>3. CASE ConnectNotLoggedIn
  <2>1. UNCHANGED around /\ (connect' = connect \/ connect' # "team")
        /\ (requests' # {} => requests # {})
    BY SMT, <1>3 DEF ConnectNotLoggedIn
  <2> QED BY <2>1, BootsRest
<1>4. CASE ConnectBegin
  <2>1. CASE client
    <3>1. UNCHANGED around /\ connect' = "boot" /\ UNCHANGED requests
      BY SMT, <1>4, <2>1 DEF ConnectBegin
    <3> QED BY <3>1, BootsRest
  <2>2. CASE ~client
    <3>1. Panic("client") BY Zenon, <1>4, <2>2 DEF ConnectBegin
    <3> QED BY <3>1, BootsPanic
  <2> QED BY <2>1, <2>2
<1>5. CASE Boot
  <2>1. up /\ panic = "none"
    <3>1. up BY Zenon, <1>5 DEF Boot
    <3> QED BY <3>1 DEF Fields
  <2>2. CASE client /\ valid
    <3>1. boot' = TRUE /\ UNCHANGED panic BY Zenon, <1>5, <2>2 DEF Boot, KeepBootResp
    <3>2. panic' = "none" BY Zenon, <2>1, <3>1
    <3> QED BY Zenon, <3>1, <3>2 DEF Boots, Booting
  <2>3. CASE client /\ ~valid
    <3>1. UNCHANGED around /\ connect' = "save" /\ UNCHANGED requests
      BY Zenon, <1>5, <2>3 DEF Boot, Booted
    <3> QED BY <3>1, BootsRest
  <2>4. CASE ~client
    <3>1. Panic("client") BY Zenon, <1>5, <2>4 DEF Boot
    <3> QED BY <3>1, BootsPanic
  <2> QED BY <2>2, <2>3, <2>4
<1>6. CASE ConnectFails
  <2>1. UNCHANGED around /\ (connect' = connect \/ connect' # "team")
        /\ (requests' # {} => requests # {})
    BY SMT, <1>6 DEF ConnectFails
  <2> QED BY <2>1, BootsRest
<1>7. CASE ConnectAfterLogin
  <2>1. up BY Zenon, <1>7 DEF ConnectAfterLogin
  <2>2. panic = "none" BY <2>1 DEF Fields
  <2>3. boot' = TRUE /\ UNCHANGED panic BY Zenon, <1>7 DEF ConnectAfterLogin, KeepBootResp
  <2>4. panic' = "none" BY Zenon, <2>2, <2>3
  <2> QED BY Zenon, <2>3, <2>4 DEF Boots, Booting
<1>8. CASE Start
  <2>1. up /\ connect = "team" BY Zenon, <1>8 DEF Start
  <2>2. boot BY Zenon, <2>1, BootsRun
  <2>3. CASE UNCHANGED <<boot, panic, unbooted>> BY <2>2, <2>3, BootsHad
  <2>4. CASE Panic("link") BY <2>4, BootsPanic
  <2> QED BY Zenon, <1>8, <2>2, <2>3, <2>4 DEF Start
<1>9. CASE ClearToken
  <2>1. up /\ UNCHANGED <<up, boot, wire, loop, requests, unbooted, panic>>
    BY SMT, <1>9 DEF ClearToken
  <2>2. CASE boot BY <2>1, <2>2, BootsHad
  <2>3. CASE ~boot
    <3>1. consume = "none" BY Zenon, <2>1, <2>3, BootsRun
    <3>2. UNCHANGED consume /\ connect' # "team" BY SMT, <1>9, <3>1 DEF ClearToken
    <3> QED BY <2>1, <3>2, BootsRest
  <2> QED BY <2>2, <2>3
<1>10. CASE Drop
  <2>1. up /\ UNCHANGED <<up, boot, wire, loop, requests, unbooted, panic>>
    BY SMT, <1>10 DEF Drop
  <2>2. CASE boot BY <2>1, <2>2, BootsHad
  <2>3. CASE ~boot
    <3>1. consume = "none" BY Zenon, <2>1, <2>3, BootsRun
    <3>2. UNCHANGED consume /\ connect' # "team" BY SMT, <1>10, <3>1 DEF Drop
    <3> QED BY <2>1, <3>2, BootsRest
  <2> QED BY <2>2, <2>3
<1>11. CASE Report
  <2>1. up /\ UNCHANGED <<up, boot, wire, loop, requests, unbooted, panic>>
    BY SMT, <1>11 DEF Report
  <2>2. CASE boot BY <2>1, <2>2, BootsHad
  <2>3. CASE ~boot
    <3>1. consume = "none" BY Zenon, <2>1, <2>3, BootsRun
    <3>2. UNCHANGED consume /\ connect' # "team" BY SMT, <1>11, <3>1 DEF Report
    <3> QED BY <2>1, <3>2, BootsRest
  <2> QED BY <2>2, <2>3
<1>12. CASE Disconnect
  <2>1. UNCHANGED around /\ (connect' = connect \/ connect' # "team")
        /\ (requests' # {} => requests # {})
    BY SMT, <1>12 DEF Disconnect
  <2> QED BY <2>1, BootsRest
<1>13. CASE LogoutRemote
  <2>1. UNCHANGED around /\ (connect' = connect \/ connect' # "team")
        /\ (requests' # {} => requests # {})
    BY SMT, <1>13 DEF LogoutRemote
  <2> QED BY <2>1, BootsRest
<1>14. CASE SignedOut
  <2>1. UNCHANGED around /\ (connect' = connect \/ connect' # "team")
        /\ (requests' # {} => requests # {})
    BY SMT, <1>14 DEF SignedOut
  <2> QED BY <2>1, BootsRest
<1>15. CASE Revoke
  <2>1. UNCHANGED around /\ (connect' = connect \/ connect' # "team")
        /\ (requests' # {} => requests # {})
    BY SMT, <1>15 DEF Revoke
  <2> QED BY <2>1, BootsRest
<1>16. CASE WireStarts
  <2>1. up /\ wire # "off" BY SMT, <1>16 DEF WireStarts
  <2>2. boot BY Zenon, <2>1, BootsRun
  <2>3. UNCHANGED <<boot, panic, unbooted>> BY SMT, <1>16 DEF WireStarts
  <2> QED BY <2>2, <2>3, BootsHad
<1>17. CASE SocketLoop
  <2>1. up /\ wire # "off" BY SMT, <1>17 DEF SocketLoop
  <2>2. boot BY Zenon, <2>1, BootsRun
  <2>3. UNCHANGED <<boot, panic, unbooted>> BY SMT, <1>17 DEF SocketLoop, Wire
  <2> QED BY <2>2, <2>3, BootsHad
<1>18. CASE Dial
  <2>1. up /\ wire # "off" BY Zenon, <1>18 DEF Dial
  <2>2. boot BY Zenon, <2>1, BootsRun
  <2>3. CASE UNCHANGED <<boot, panic, unbooted>> BY <2>2, <2>3, BootsHad
  <2>4. CASE Panic("link") BY <2>4, BootsPanic
  <2> QED BY Zenon, <1>18, <2>2, <2>3, <2>4 DEF Dial, Wire
<1>19. CASE Open
  <2>1. up /\ wire # "off" BY SMT, <1>19 DEF Open
  <2>2. boot BY Zenon, <2>1, BootsRun
  <2>3. UNCHANGED <<boot, panic, unbooted>> BY SMT, <1>19 DEF Open, Wire
  <2> QED BY <2>2, <2>3, BootsHad
<1>20. CASE Refuse
  <2>1. up /\ wire # "off" BY SMT, <1>20 DEF Refuse
  <2>2. boot BY Zenon, <2>1, BootsRun
  <2>3. UNCHANGED flags BY Zenon, <1>20, WireFlags DEF Refuse
  <2>4. UNCHANGED <<boot, panic, unbooted>> BY <2>3 DEF flags
  <2> QED BY <2>2, <2>4, BootsHad
<1>21. CASE Close
  <2>1. up /\ wire # "off" BY SMT, <1>21 DEF Close
  <2>2. boot BY Zenon, <2>1, BootsRun
  <2>3. UNCHANGED flags BY Zenon, <1>21, WireFlags DEF Close
  <2>4. UNCHANGED <<boot, panic, unbooted>> BY <2>3 DEF flags
  <2> QED BY <2>2, <2>4, BootsHad
<1>22. CASE Lose
  <2>1. up /\ wire # "off" BY SMT, <1>22 DEF Lose
  <2>2. boot BY Zenon, <2>1, BootsRun
  <2>3. UNCHANGED <<boot, panic, unbooted>> BY SMT, <1>22 DEF Lose
  <2> QED BY <2>2, <2>3, BootsHad
<1>23. CASE Fail
  <2>1. up /\ wire # "off" BY SMT, <1>23 DEF Fail
  <2>2. boot BY Zenon, <2>1, BootsRun
  <2>3. UNCHANGED <<boot, panic, unbooted>> BY SMT, <1>23 DEF Fail
  <2> QED BY <2>2, <2>3, BootsHad
<1>24. CASE SocketError
  <2>1. up /\ wire # "off" BY SMT, <1>24 DEF SocketError
  <2>2. boot BY Zenon, <2>1, BootsRun
  <2>3. UNCHANGED <<boot, panic, unbooted>> BY SMT, <1>24 DEF SocketError
  <2> QED BY <2>2, <2>3, BootsHad
<1>25. CASE ConsumeStarts
  <2>1. up /\ consume # "none" BY Zenon, <1>25 DEF ConsumeStarts
  <2>2. boot BY Zenon, <2>1, BootsRun
  <2>3. CASE UNCHANGED <<boot, panic, unbooted>> BY <2>2, <2>3, BootsHad
  <2>4. CASE Panic("link") BY <2>4, BootsPanic
  <2> QED BY Zenon, <1>25, <2>2, <2>3, <2>4 DEF ConsumeStarts
<1>26. CASE HandleStateEvent
  <2>1. up /\ consume # "none" BY SMT, <1>26 DEF HandleStateEvent, Receiving
  <2>2. boot BY Zenon, <2>1, BootsRun
  <2>3. UNCHANGED <<boot, panic, unbooted>> BY SMT, <1>26 DEF HandleStateEvent
  <2> QED BY <2>2, <2>3, BootsHad
<1>27. CASE HandleUserEvent
  <2>1. up /\ consume # "none" BY Zenon, <1>27 DEF HandleUserEvent, Receiving
  <2>2. boot BY Zenon, <2>1, BootsRun
  <2>3. CASE UNCHANGED <<boot, panic, unbooted>> BY <2>2, <2>3, BootsHad
  <2>4. CASE Panic("link") BY <2>4, BootsPanic
  <2> QED BY Zenon, <1>27, <2>2, <2>3, <2>4 DEF HandleUserEvent
<1>28. CASE LoopStarts
  <2>1. up /\ loop # "none" BY SMT, <1>28 DEF LoopStarts
  <2>2. boot BY Zenon, <2>1, BootsRun
  <2>3. UNCHANGED <<boot, panic, unbooted>> BY SMT, <1>28 DEF LoopStarts
  <2> QED BY <2>2, <2>3, BootsHad
<1>29. CASE Collect
  <2>1. up /\ loop # "none" BY SMT, <1>29 DEF Collect
  <2>2. boot BY Zenon, <2>1, BootsRun
  <2>3. UNCHANGED <<boot, panic, unbooted>> BY SMT, <1>29 DEF Collect
  <2> QED BY <2>2, <2>3, BootsHad
<1>30. CASE Tick
  <2>1. up /\ loop # "none" BY SMT, <1>30 DEF Tick
  <2>2. boot BY Zenon, <2>1, BootsRun
  <2>3. UNCHANGED <<boot, panic, unbooted>> BY SMT, <1>30 DEF Tick
  <2> QED BY <2>2, <2>3, BootsHad
<1>31. CASE Expire
  <2>1. up /\ loop # "none" BY SMT, <1>31 DEF Expire
  <2>2. boot BY Zenon, <2>1, BootsRun
  <2>3. UNCHANGED <<boot, panic, unbooted>> BY SMT, <1>31 DEF Expire
  <2> QED BY <2>2, <2>3, BootsHad
<1>32. ASSUME NEW g \in Ghosts, ChangeUser(g) PROVE Boots'
  <2>1. UNCHANGED around /\ (connect' = connect \/ connect' # "team")
        /\ (requests' # {} => requests # {})
    BY SMT, <1>32 DEF ChangeUser
  <2> QED BY <2>1, BootsRest
<1>33. ASSUME NEW g \in Ghosts, Age(g) PROVE Boots'
  <2>1. UNCHANGED around /\ (connect' = connect \/ connect' # "team")
        /\ (requests' # {} => requests # {})
    BY SMT, <1>33 DEF Age
  <2> QED BY <2>1, BootsRest
<1>34. ASSUME NEW g \in Ghosts, NEW recent \in BOOLEAN, Enqueue(g, recent) PROVE Boots'
  <2>1. UNCHANGED around /\ (connect' = connect \/ connect' # "team")
        /\ (requests' # {} => requests # {})
    BY SMT, <1>34 DEF Enqueue
  <2> QED BY <2>1, BootsRest
<1>35. ASSUME NEW g \in Ghosts, NEW recent \in BOOLEAN, AskDirectly(g, recent) PROVE Boots'
  <2>1. UNCHANGED <<up, boot, connect, consume, wire, loop, panic>>
    BY SMT, <1>35 DEF AskDirectly
  <2>2. unbooted' = (unbooted \/ ~boot) BY Zenon, <1>35 DEF AskDirectly
  <2> QED BY Zenon, <2>1, <2>2 DEF Boots, Booting
<1>36. ASSUME NEW r \in requests, Ask(r) PROVE Boots'
  <2>1. CASE Panic("client") BY <2>1, BootsPanic
  <2>2. CASE ~Panic("client")
    <3>1. UNCHANGED around /\ UNCHANGED connect BY Zenon, <1>36, <2>2 DEF Ask
    <3> QED BY <3>1, BootsRest
  <2> QED BY <2>1, <2>2
<1>37. ASSUME NEW r \in requests, Answer(r) PROVE Boots'
  <2>1. up BY Zenon, <1>37 DEF Answer
  <2>2. CASE ~(~boot /\ Answered(r) # {})
    <3>1. UNCHANGED around /\ UNCHANGED connect BY Zenon, <1>37, <2>2 DEF Answer
    <3> QED BY <3>1, BootsRest
  <2>3. CASE ~boot /\ Answered(r) # {}
    <3>1. requests # {} OBVIOUS
    <3>2. unbooted BY Zenon, <2>1, <2>3, <3>1 DEF Boots, Booting
    <3>3. Panic("boot") BY Zenon, <1>37, <2>3 DEF Answer
    <3> QED BY <3>2, <3>3, BootsPanic
  <2> QED BY <2>2, <2>3
<1>38. ASSUME NEW r \in requests, AnswerFails(r) PROVE Boots'
  <2>1. UNCHANGED around /\ (connect' = connect \/ connect' # "team")
        /\ (requests' # {} => requests # {})
    BY SMT, <1>38 DEF AnswerFails
  <2> QED BY <2>1, BootsRest
<1>39. ASSUME NEW w \in writes, Show(w) PROVE Boots'
  <2>1. UNCHANGED around /\ (connect' = connect \/ connect' # "team")
        /\ (requests' # {} => requests # {})
    BY SMT, <1>39 DEF Show
  <2> QED BY <2>1, BootsRest
<1>40. ASSUME NEW w \in writes, Stamp(w) PROVE Boots'
  <2>1. UNCHANGED around /\ (connect' = connect \/ connect' # "team")
        /\ (requests' # {} => requests # {})
    BY SMT, <1>40 DEF Stamp
  <2> QED BY <2>1, BootsRest
<1>41. CASE UNCHANGED vars
  <2>1. UNCHANGED around /\ UNCHANGED <<connect, requests>> BY SMT, <1>41 DEF vars
  <2> QED BY <2>1, BootsRest
<1> QED
  BY Zenon, <1>1, <1>2, <1>3, <1>4, <1>5, <1>6, <1>7, <1>8, <1>9, <1>10, <1>11, <1>12, <1>13,
     <1>14, <1>15, <1>16, <1>17, <1>18, <1>19, <1>20, <1>21, <1>22, <1>23, <1>24, <1>25, <1>26,
     <1>27, <1>28, <1>29, <1>30, <1>31, <1>32, <1>33, <1>34, <1>35, <1>36, <1>37, <1>38, <1>39,
     <1>40, <1>41 DEF Next

-----------------------------------------------------------------------------
(* After a refusal: Connect comes before the events, an invalid token is the *)
(* connection's last word but for a loss, and nothing is retried. *)

(* A refused connection, and nothing but losses in the channel.             *)
Hung == wire \in {"refused", "ended"}
OnlyLost == \A i \in 1..Len(events) : events[i].type = "lost"

(* Connect runs before the connection; after invalid_auth there are only    *)
(* losses; without a token nothing dials.                                   *)
Refusal ==
  /\ connect # "idle" => wire = "off" /\ consume = "none" /\ events = <<>>
  /\ consume \in {"save", "drop", "report"} => real /\ Hung /\ OnlyLost
  /\ \A i \in 1..Len(events) :
       events[i].type = "invalid_auth" =>
         real /\ Hung /\ \A j \in i + 1..Len(events) : events[j].type = "lost"
  /\ ~token /\ command = "idle" =>
       /\ connect \notin {"boot", "booted", "team"} /\ (connect = "begin" => ~client)
       /\ wire = "off" \/ Hung
       /\ OnlyLost /\ (events # <<>> => real)

line == <<real, token, client, command, connect, consume, wire, events>>

(* What leaves the connection alone keeps it.                               *)
LEMMA RefusalUnchanged == ASSUME Refusal, UNCHANGED line PROVE Refusal'
BY SMT DEF Refusal, Hung, OnlyLost, line

(* LoadUserLogin begins without events.                                     *)
LEMMA RefusalLoaded ==
  ASSUME NEW logged \in BOOLEAN, LoadUserLogin(logged),
         connect' \in {"idle", "begin"} \/ logged, command' = "idle" \/ connect' = "idle"
  PROVE  Refusal'
<1>1. /\ token' = logged /\ client' = logged /\ wire' = "off" /\ consume' = "none"
      /\ events' = <<>>
  BY Zenon DEF LoadUserLogin
<1> QED BY <1>1 DEF Refusal, Hung, OnlyLost

(* So does a panic.                                                         *)
LEMMA PanicRefusal == ASSUME Flags, NEW field, Panic(field) PROVE Refusal'
<1>1. saved \in BOOLEAN /\ LoadUserLogin(saved) /\ connect' = "idle" BY Zenon DEF Flags, Panic
<1> QED BY <1>1, RefusalLoaded

(* Something is added while the connection is not refused.                  *)
LEMMA Said ==
  ASSUME Queued, Refusal, wire \in {"begin", "dial", "open"}, NEW e \in Event,
         e.type # "invalid_auth", events' = Append(events, e),
         UNCHANGED <<real, token, client, command, connect, consume>>,
         wire' # "off"
  PROVE  Refusal'
<1>1. /\ connect = "idle" /\ consume \notin {"save", "drop", "report"}
      /\ token \/ command # "idle"
      /\ \A i \in 1..Len(events) : events[i].type # "invalid_auth"
  BY DEF Refusal, Hung
<1>2. \A i \in 1..Len(events') : events'[i].type # "invalid_auth"
  BY <1>1 DEF Queued
<1> QED BY <1>1, <1>2 DEF Refusal

(* A step of the connection changes nothing else of the line.               *)
LEMMA WireLine == ASSUME NEW to, Wire(to)
  PROVE wire' = to /\ UNCHANGED <<real, token, client, command, connect, consume>>
BY SMT DEF Wire, Keep, session

(* The same for what the connection itself says.                            *)
LEMMA SaidPlainly ==
  ASSUME Queued, Refusal, wire \in {"begin", "dial", "open"}, NEW to, to # "off", Wire(to),
         NEW type \in Plain \ {"invalid_auth"}, Emit(type)
  PROVE  Refusal'
<1>1. Plainly(type) \in Event /\ Plainly(type).type = type BY SMT DEF Plainly, Event, Plain
<1>2. events' = Append(events, Plainly(type)) BY Zenon DEF Emit
<1> QED BY <1>1, <1>2, WireLine, Said

(* Every step keeps the order after a refusal.                              *)
LEMMA RefusalKept == ASSUME Flags, Numbers', Queued, Refusal, [Next]_vars PROVE Refusal'
<1> USE DEF Keep, KeepSession, KeepUsers, session, threads, users, resync, line
<1>0. /\ {"connecting", "hello", "lost", "closed", "fatal"} \subseteq Plain \ {"invalid_auth"}
  BY DEF Plain
<1>1. CASE Restart
  <2>1. saved \in BOOLEAN /\ LoadUserLogin(saved) /\ connect' = "begin" /\ command' = "idle"
    BY Zenon, <1>1 DEF Flags, Restart
  <2> QED BY <2>1, RefusalLoaded
<1>2. CASE Login
  <2>1. LoadUserLogin(TRUE) /\ command' = "idle" BY Zenon, <1>2 DEF Login
  <2> QED BY <2>1, RefusalLoaded
<1>3. CASE ConnectNotLoggedIn
  BY SMT, <1>3 DEF ConnectNotLoggedIn, Refusal, Hung, OnlyLost
<1>4. CASE ConnectBegin
  <2>1. CASE client
    <3>1. connect = "begin" /\ connect' = "boot" /\ client
          /\ UNCHANGED <<real, token, client, command, consume, wire, events>>
      BY SMT, <1>4, <2>1 DEF ConnectBegin, Booted, NotLoggedIn
    <3> QED BY <3>1 DEF Refusal, Hung, OnlyLost
  <2>2. CASE ~client
    BY Zenon, <1>4, <2>2, PanicRefusal DEF ConnectBegin
  <2> QED BY <2>1, <2>2
<1>5. CASE Boot
  <2>1. CASE client
    <3>1. connect = "boot" /\ connect' \in {"team", "save"}
          /\ UNCHANGED <<real, token, client, command, consume, wire, events>>
      BY Zenon, <1>5, <2>1 DEF Boot, Booted, KeepBootResp
    <3> QED BY <3>1 DEF Refusal, Hung, OnlyLost
  <2>2. CASE ~client
    BY Zenon, <1>5, <2>2, PanicRefusal DEF Boot
  <2> QED BY <2>1, <2>2
<1>6. CASE ConnectFails
  BY SMT, <1>6 DEF ConnectFails, Refusal, Hung, OnlyLost
<1>7. CASE Start
  <2>1. CASE ~(real /\ ~link)
    <3>1. connect = "team" /\ connect' = "idle" /\ consume' = "spawned" /\ wire' = "spawned"
          /\ UNCHANGED <<real, token, client, command, events>>
      BY Zenon, <1>7, <2>1 DEF Start, Booted, NotLoggedIn
    <3> QED BY <3>1 DEF Refusal, Hung, OnlyLost
  <2>2. CASE real /\ ~link
    BY Zenon, <1>7, <2>2, PanicRefusal DEF Start
  <2> QED BY <2>1, <2>2
<1>8. CASE ClearToken
  BY SMT, <1>8 DEF ClearToken, Refusal, Hung, OnlyLost
<1>9. CASE Drop
  BY SMT, <1>9 DEF Drop, Refusal, Hung, OnlyLost, disconnect
<1>10. CASE Report
  BY SMT, <1>10 DEF Report, Refusal, Hung, OnlyLost
<1>11. CASE Disconnect
  BY SMT, <1>11 DEF Disconnect, Refusal, Hung, OnlyLost, disconnect
<1>12. CASE LogoutRemote
  BY SMT, <1>12 DEF LogoutRemote, Refusal, Hung, OnlyLost, disconnect
<1>13. CASE SignedOut
  BY SMT, <1>13 DEF SignedOut, Refusal, Hung, OnlyLost
<1>14. CASE Revoke
  <2>1. UNCHANGED line BY SMT, <1>14 DEF Revoke
  <2> QED BY <2>1, RefusalUnchanged
<1>15. CASE WireStarts
  BY SMT, <1>15 DEF WireStarts, Refusal, Hung, OnlyLost
<1>16. CASE SocketLoop
  BY SMT, <1>16 DEF SocketLoop, Refusal, Hung, OnlyLost, Wire, Killed
<1>17. CASE Dial
  <2>1. CASE ~real /\ ~link BY Zenon, <1>17, <2>1, PanicRefusal DEF Dial
  <2>2. CASE ~(~real /\ ~link)
    <3>1. wire = "begin" /\ Emit("connecting") /\ Wire("dial") BY Zenon, <1>17, <2>2 DEF Dial
    <3> QED BY <1>0, <3>1, SaidPlainly
  <2> QED BY <2>1, <2>2
<1>18. CASE Open
  <2>1. wire = "dial" /\ Emit("hello") /\ Wire("open") BY Zenon, <1>18 DEF Open
  <2> QED BY <1>0, <2>1, SaidPlainly
<1>19. CASE Refuse
  <2>1. wire = "dial" BY Zenon, <1>19 DEF Refuse
  <2>2. CASE Emit("lost") /\ Wire("sleep") BY <1>0, <2>1, <2>2, SaidPlainly
  <2>3. CASE real /\ Emit("invalid_auth") /\ Wire("refused")
    <3>1. /\ connect = "idle" /\ consume \notin {"save", "drop", "report"}
          /\ token \/ command # "idle"
          /\ \A i \in 1..Len(events) : events[i].type # "invalid_auth"
      BY <2>1 DEF Refusal, Hung
    <3>2. wire' = "refused" /\ UNCHANGED <<real, token, client, command, connect, consume>>
      BY <2>3, WireLine
    <3>3. Plainly("invalid_auth") \in Event BY SMT DEF Plainly, Event, Plain
    <3>4. events' = Append(events, Plainly("invalid_auth")) BY Zenon, <2>3 DEF Emit
    <3>5. \A i \in 1..Len(events') : events'[i].type = "invalid_auth" => i = Len(events')
      BY <3>1, <3>3, <3>4 DEF Queued
    <3> QED BY <2>3, <3>1, <3>2, <3>5 DEF Refusal, Hung
  <2> QED BY Zenon, <1>19, <2>2, <2>3 DEF Refuse
<1>20. CASE Lose
  <2>1. /\ wire \in {"open", "dial"} /\ wire' # "off" /\ events' = Append(events, Plainly("lost"))
        /\ UNCHANGED <<real, token, client, command, connect, consume>>
    BY SMT, <1>20 DEF Lose
  <2>2. Plainly("lost") \in Event /\ Plainly("lost").type = "lost"
    BY SMT DEF Plainly, Event, Plain
  <2> QED BY <2>1, <2>2, Said
<1>21. CASE Fail
  <2>1. /\ wire \in {"open", "dial"} /\ wire' \in {"failed", "open"}
        /\ events' = Append(events, Plainly("fatal"))
        /\ UNCHANGED <<real, token, client, command, connect, consume>>
    BY SMT, <1>21 DEF Fail
  <2>2. Plainly("fatal") \in Event /\ Plainly("fatal").type = "fatal"
    BY SMT DEF Plainly, Event, Plain
  <2> QED BY <2>1, <2>2, Said
<1>22. CASE Close
  <2>1. CASE wire \in {"begin", "dial", "open"} /\ Emit("closed") /\ Wire("ended")
    BY <1>0, <2>1, SaidPlainly
  <2>2. CASE real /\ wire = "refused" /\ Emit("lost") /\ Wire("ended")
    <3>1. wire' = "ended" /\ UNCHANGED <<real, token, client, command, connect, consume>>
      BY <2>2, WireLine
    <3>2. Plainly("lost") \in Event /\ Plainly("lost").type = "lost"
      BY SMT DEF Plainly, Event, Plain
    <3>3. events' = Append(events, Plainly("lost")) BY Zenon, <2>2 DEF Emit
    <3>4. /\ Len(events') = Len(events) + 1
          /\ events'[Len(events) + 1].type = "lost"
          /\ \A i \in 1..Len(events) : events'[i] = events[i]
      BY <3>2, <3>3 DEF Queued
    <3>5. Len(events) \in Nat BY DEF Queued
    <3>6. OnlyLost => OnlyLost' BY <3>4, <3>5 DEF OnlyLost
    <3> QED BY <2>2, <3>1, <3>4, <3>5, <3>6 DEF Refusal, Hung
  <2>3. CASE /\ wire \in {"dial", "open"} /\ UNCHANGED events
             /\ Wire("ended") \/ Wire("sleep")
    <3>1. wire' \in {"ended", "sleep"}
          /\ UNCHANGED <<real, token, client, command, connect, consume>>
      BY <2>3, WireLine
    <3> QED BY <2>3, <3>1 DEF Refusal, Hung, OnlyLost
  <2> QED BY Zenon, <1>22, <2>1, <2>2, <2>3 DEF Close
<1>23. CASE SocketError
  BY SMT, <1>23 DEF SocketError, Refusal, Hung, OnlyLost
<1>24. CASE ConsumeStarts
  <2>1. CASE link
    <3>1. consume = "spawned" /\ consume' = "receive"
          /\ UNCHANGED <<real, token, client, command, connect, wire, events>>
      BY SMT, <1>24, <2>1 DEF ConsumeStarts, Booted, NotLoggedIn
    <3> QED BY <3>1 DEF Refusal, Hung, OnlyLost
  <2>2. CASE ~link
    BY Zenon, <1>24, <2>2, PanicRefusal DEF ConsumeStarts
  <2> QED BY <2>1, <2>2
<1>25. CASE HandleStateEvent
  <2>1. /\ consume = "receive" /\ events # <<>> /\ events' = Tail(events)
        /\ UNCHANGED <<real, token, client, command, connect, wire>>
    BY SMT, <1>25 DEF HandleStateEvent, Receiving, Taken
  <2>2. consume' \in {"save", "receive"} /\ (consume' = "save" => events[1].type = "invalid_auth")
    BY SMT, <1>25 DEF HandleStateEvent
  <2>3. /\ Len(events) \in Nat /\ Len(events) > 0 /\ Len(events') = Len(events) - 1
        /\ \A i \in 1..Len(events') : events'[i] = events[i + 1]
    BY <2>1 DEF Queued
  <2> QED BY <2>1, <2>2, <2>3 DEF Refusal, Hung, OnlyLost
<1>26. CASE HandleUserEvent
  <2>1. CASE Panic("link") \/ Panic("boot") BY Zenon, <2>1, PanicRefusal
  <2>2. CASE ~Panic("link") /\ ~Panic("boot")
    <3>1. /\ consume = "receive" /\ events # <<>> /\ events' = Tail(events)
          /\ UNCHANGED <<real, token, client, command, connect, consume, wire>>
      BY Zenon, <1>26, <2>2 DEF HandleUserEvent, Receiving, Taken
    <3>2. /\ Len(events) \in Nat /\ Len(events) > 0 /\ Len(events') = Len(events) - 1
          /\ \A i \in 1..Len(events') : events'[i] = events[i + 1]
      BY <3>1 DEF Queued
    <3> QED BY <3>1, <3>2 DEF Refusal, Hung, OnlyLost
  <2> QED BY <2>1, <2>2
<1>27. CASE LoopStarts
  <2>1. UNCHANGED line BY SMT, <1>27 DEF LoopStarts
  <2> QED BY <2>1, RefusalUnchanged
<1>28. CASE Collect
  <2>1. UNCHANGED line BY SMT, <1>28 DEF Collect
  <2> QED BY <2>1, RefusalUnchanged
<1>29. CASE Tick
  <2>1. UNCHANGED line BY SMT, <1>29 DEF Tick
  <2> QED BY <2>1, RefusalUnchanged
<1>30. CASE Expire
  <2>1. UNCHANGED line BY SMT, <1>30 DEF Expire
  <2> QED BY <2>1, RefusalUnchanged
<1>31. ASSUME NEW g \in Ghosts, ChangeUser(g) PROVE Refusal'
  <2>1. UNCHANGED <<real, token, client, command, connect, consume, wire>>
    BY SMT, <1>31 DEF ChangeUser
  <2>2. CASE UNCHANGED events BY <2>1, <2>2, RefusalUnchanged
  <2>3. CASE /\ wire = "open"
             /\ \E type \in {"user_change", "user_invalidated"} :
                  events' = Append(events, [type |-> type, user |-> g, version |-> version'[g]])
    <3>1. PICK type \in {"user_change", "user_invalidated"} :
            events' = Append(events, [type |-> type, user |-> g, version |-> version'[g]])
      BY <2>3
    <3>2. version'[g] \in Versions BY DEF Numbers
    <3>3. [type |-> type, user |-> g, version |-> version'[g]] \in Event BY <3>2 DEF Event
    <3> QED BY <2>1, <2>3, <3>1, <3>3, Said
  <2> QED BY Zenon, <1>31, <2>2, <2>3 DEF ChangeUser
<1>32. ASSUME NEW g \in Ghosts, Age(g) PROVE Refusal'
  <2>1. UNCHANGED line BY SMT, <1>32 DEF Age
  <2> QED BY <2>1, RefusalUnchanged
<1>33. ASSUME NEW g \in Ghosts, NEW recent \in BOOLEAN, Enqueue(g, recent) PROVE Refusal'
  <2>1. UNCHANGED line BY SMT, <1>33 DEF Enqueue
  <2> QED BY <2>1, RefusalUnchanged
<1>34. ASSUME NEW g \in Ghosts, NEW recent \in BOOLEAN, AskDirectly(g, recent) PROVE Refusal'
  <2>1. UNCHANGED line BY Zenon, <1>34 DEF AskDirectly
  <2> QED BY <2>1, RefusalUnchanged
<1>35. ASSUME NEW r \in requests, Ask(r) PROVE Refusal'
  <2>1. CASE client
    <3>1. UNCHANGED line BY SMT, <1>35, <2>1 DEF Ask
    <3> QED BY <3>1, RefusalUnchanged
  <2>2. CASE ~client BY Zenon, <1>35, <2>2, PanicRefusal DEF Ask
  <2> QED BY <2>1, <2>2
<1>36. ASSUME NEW r \in requests, Answer(r) PROVE Refusal'
  <2>1. CASE Panic("boot") BY <2>1, PanicRefusal
  <2>2. CASE ~Panic("boot")
    <3>1. UNCHANGED line BY Zenon, <1>36, <2>2 DEF Answer
    <3> QED BY <3>1, RefusalUnchanged
  <2> QED BY <2>1, <2>2
<1>37. ASSUME NEW r \in requests, AnswerFails(r) PROVE Refusal'
  <2>1. UNCHANGED line BY SMT, <1>37 DEF AnswerFails
  <2> QED BY <2>1, RefusalUnchanged
<1>38. ASSUME NEW w \in writes, Show(w) PROVE Refusal'
  <2>1. UNCHANGED line BY SMT, <1>38 DEF Show
  <2> QED BY <2>1, RefusalUnchanged
<1>39. ASSUME NEW w \in writes, Stamp(w) PROVE Refusal'
  <2>1. UNCHANGED line BY SMT, <1>39 DEF Stamp
  <2> QED BY <2>1, RefusalUnchanged
<1>41. CASE ConnectAfterLogin
  <2>1. connect = "booted" /\ connect' = "team"
        /\ UNCHANGED <<real, token, client, command, consume, wire, events>>
    BY Zenon, <1>41 DEF ConnectAfterLogin, KeepBootResp
  <2> QED BY <2>1 DEF Refusal, Hung, OnlyLost
<1>40. CASE UNCHANGED vars
  <2>1. UNCHANGED line BY SMT, <1>40 DEF vars
  <2> QED BY <2>1, RefusalUnchanged
<1> QED
  BY Zenon, <1>1, <1>2, <1>3, <1>4, <1>5, <1>6, <1>7, <1>8, <1>9, <1>10, <1>11, <1>12, <1>13,
     <1>14, <1>15, <1>16, <1>17, <1>18, <1>19, <1>20, <1>21, <1>22, <1>23, <1>24, <1>25, <1>26,
     <1>27, <1>28, <1>29, <1>30, <1>31, <1>32, <1>33, <1>34, <1>35, <1>36, <1>37, <1>38, <1>39,
     <1>40, <1>41 DEF Next

(* A step from bad credentials: the only events left are losses of an RTM.  *)
LEMMA BadStays ==
  ASSUME Queued, Refusal, state = "bad", ~token, command = "idle", [Next]_vars
  PROVE  state' = "bad" \/ state' = "none"
<1> USE DEF Keep, KeepSession, KeepUsers
<1>1. CASE Restart BY SMT, <1>1 DEF Restart
<1>2. CASE Login BY SMT, <1>2 DEF Login
<1>3. CASE ConnectNotLoggedIn BY SMT, <1>3 DEF ConnectNotLoggedIn
<1>4. CASE ConnectBegin BY Zenon, <1>4 DEF ConnectBegin, Panic
<1>5. CASE Boot BY Zenon, <1>5 DEF Boot, Panic
<1>6. CASE ConnectFails BY SMT, <1>6 DEF ConnectFails, Refusal, Hung
<1>7. CASE Start BY Zenon, <1>7 DEF Start, Panic
<1>8. CASE ClearToken BY Zenon, <1>8 DEF ClearToken
<1>9. CASE Drop BY SMT, <1>9 DEF Drop
<1>10. CASE Report BY SMT, <1>10 DEF Report
<1>11. CASE Disconnect BY SMT, <1>11 DEF Disconnect
<1>12. CASE LogoutRemote BY SMT, <1>12 DEF LogoutRemote
<1>13. CASE SignedOut BY SMT, <1>13 DEF SignedOut
<1>14. CASE Revoke BY SMT, <1>14 DEF Revoke
<1>15. CASE WireStarts BY SMT, <1>15 DEF WireStarts
<1>16. CASE SocketLoop BY SMT, <1>16 DEF SocketLoop, Wire
<1>17. CASE Dial BY Zenon, <1>17 DEF Dial, Wire, Panic
<1>18. CASE Open BY Zenon, <1>18 DEF Open, Wire
<1>19. CASE Refuse BY Zenon, <1>19 DEF Refuse, Wire
<1>20. CASE Lose BY SMT, <1>20 DEF Lose
<1>21. CASE Fail BY SMT, <1>21 DEF Fail
<1>22. CASE Close BY Zenon, <1>22 DEF Close, Wire
<1>23. CASE SocketError BY SMT, <1>23 DEF SocketError, Refusal, Hung
<1>24. CASE ConsumeStarts BY Zenon, <1>24 DEF ConsumeStarts, Panic
<1>25. CASE HandleStateEvent
  <2>1. events # <<>> /\ state' = StateAfter(Head(events).type)
    BY SMT, <1>25 DEF HandleStateEvent, Receiving
  <2>2. real /\ Head(events).type = "lost" BY <2>1 DEF Refusal, OnlyLost, Queued
  <2> QED BY <2>1, <2>2 DEF StateAfter
<1>26. CASE HandleUserEvent BY Zenon, <1>26 DEF HandleUserEvent, Panic
<1>27. CASE LoopStarts BY SMT, <1>27 DEF LoopStarts
<1>28. CASE Collect BY SMT, <1>28 DEF Collect
<1>29. CASE Tick BY SMT, <1>29 DEF Tick
<1>30. CASE Expire BY SMT, <1>30 DEF Expire
<1>31. ASSUME NEW g \in Ghosts, ChangeUser(g) PROVE state' = "bad" \/ state' = "none"
  BY SMT, <1>31 DEF ChangeUser
<1>32. ASSUME NEW g \in Ghosts, Age(g) PROVE state' = "bad" \/ state' = "none"
  BY SMT, <1>32 DEF Age
<1>33. ASSUME NEW g \in Ghosts, NEW recent \in BOOLEAN, Enqueue(g, recent)
  PROVE state' = "bad" \/ state' = "none"
  BY SMT, <1>33 DEF Enqueue
<1>34. ASSUME NEW g \in Ghosts, NEW recent \in BOOLEAN, AskDirectly(g, recent)
  PROVE state' = "bad" \/ state' = "none"
  BY SMT, <1>34 DEF AskDirectly
<1>35. ASSUME NEW r \in requests, Ask(r) PROVE state' = "bad" \/ state' = "none"
  BY Zenon, <1>35 DEF Ask, Panic
<1>36. ASSUME NEW r \in requests, Answer(r) PROVE state' = "bad" \/ state' = "none"
  BY Zenon, <1>36 DEF Answer, Panic
<1>37. ASSUME NEW r \in requests, AnswerFails(r) PROVE state' = "bad" \/ state' = "none"
  BY SMT, <1>37 DEF AnswerFails
<1>38. ASSUME NEW w \in writes, Show(w) PROVE state' = "bad" \/ state' = "none"
  BY SMT, <1>38 DEF Show
<1>39. ASSUME NEW w \in writes, Stamp(w) PROVE state' = "bad" \/ state' = "none"
  BY SMT, <1>39 DEF Stamp
<1>41. CASE ConnectAfterLogin BY Zenon, <1>41 DEF ConnectAfterLogin
<1>40. CASE UNCHANGED vars BY SMT, <1>40 DEF vars
<1> QED
  BY Zenon, <1>1, <1>2, <1>3, <1>4, <1>5, <1>6, <1>7, <1>8, <1>9, <1>10, <1>11, <1>12, <1>13,
     <1>14, <1>15, <1>16, <1>17, <1>18, <1>19, <1>20, <1>21, <1>22, <1>23, <1>24, <1>25, <1>26,
     <1>27, <1>28, <1>29, <1>30, <1>31, <1>32, <1>33, <1>34, <1>35, <1>36, <1>37, <1>38, <1>39,
     <1>40, <1>41 DEF Next

-----------------------------------------------------------------------------
(* All of it. *)

(* The inductive invariant.                                                 *)
Kept == Flags /\ Steps /\ Numbers /\ Queued /\ Shown /\ Truth /\ Fields /\ Boots /\ Refusal

(* It holds when the process starts.                                        *)
LEMMA KeptInit == ASSUME Init PROVE Kept
<1>1. Flags
  <2>1. /\ valid = TRUE /\ saved = TRUE /\ up = TRUE /\ token = TRUE /\ made = TRUE
        /\ client = TRUE
        /\ link = TRUE /\ stop = FALSE /\ short = FALSE /\ panic = "none" /\ teardown = FALSE
        /\ early = FALSE /\ real \in BOOLEAN /\ boot = FALSE /\ unbooted = FALSE
    BY Zenon DEF Init
  <2>2. panic \in Pointers \cup {"none"} BY <2>1
  <2> QED BY Zenon, <2>1, <2>2 DEF Flags
<1>2. Steps BY SMT DEF Init, Steps, States
<1>3. Numbers
  <2>1. spent = 0 /\ version = [g \in Ghosts |-> 1] BY Zenon DEF Init
  <2> QED BY <2>1, Bounds DEF Numbers, Versions
<1>4. Queued
  <2>1. events = <<>> /\ queue = <<>> /\ batch = {} /\ left = 0 BY Zenon DEF Init
  <2> QED BY <2>1, Bounds DEF Queued, MaxLeft
<1>5. /\ data = [g \in Ghosts |-> 0] /\ stamp = [g \in Ghosts |-> 0]
      /\ fresh = [g \in Ghosts |-> FALSE] /\ mixed = [g \in Ghosts |-> FALSE]
      /\ row = [g \in Ghosts |-> [data |-> 0, mixed |-> FALSE]]
      /\ requests = {} /\ writes = {}
  BY Zenon DEF Init
<1>6. 0 \in Versions BY Bounds DEF Versions
<1>7. Shown
  <2>1. fresh \in [Ghosts -> BOOLEAN] /\ mixed \in [Ghosts -> BOOLEAN] BY Zenon, <1>5
  <2>2. [data |-> 0, mixed |-> FALSE] \in [data : Versions, mixed : BOOLEAN] BY <1>6
  <2>3. row \in [Ghosts -> [data : Versions, mixed : BOOLEAN]] BY Zenon, <2>2, <1>5
  <2> QED BY <1>5, <1>6, <2>1, <2>3 DEF Shown
<1>8. Truth
  <2>1. \A g \in Ghosts : row[g].data = stamp[g] /\ data[g] = stamp[g] BY <1>5
  <2> QED BY Zenon, <1>5, <2>1 DEF Truth, StampTellsTruth
<1>9. Fields
  <2>1. client = TRUE /\ made = TRUE /\ link = TRUE /\ panic = "none" /\ command = "idle"
    BY Zenon DEF Init
  <2> QED BY <2>1 DEF Fields
<1>11. Boots
  <2>1. /\ panic = "none" /\ connect = "begin" /\ consume = "none" /\ wire = "off"
        /\ loop = "none" /\ requests = {}
    BY Zenon DEF Init
  <2> QED BY <2>1 DEF Boots, Booting
<1>10. Refusal
  <2>1. token = TRUE /\ wire = "off" /\ consume = "none" /\ events = <<>> BY Zenon DEF Init
  <2> QED BY <2>1 DEF Refusal
<1> QED BY Zenon, <1>1, <1>2, <1>3, <1>4, <1>7, <1>8, <1>9, <1>10, <1>11 DEF Kept

(* Every step keeps it.                                                     *)
LEMMA KeptNext == ASSUME Kept, [Next]_vars PROVE Kept'
<1>1. Flags' /\ Steps' BY Zenon, FlagsKept, StepsKept DEF Kept
<1>2. Numbers' BY Zenon, NumbersKept DEF Kept
<1>3. Queued' BY Zenon, <1>2, QueuedKept DEF Kept
<1>4. Shown' /\ Truth' BY Zenon, ShownKept DEF Kept
<1>5. Fields' BY Zenon, FieldsKept DEF Kept
<1>6. Refusal' BY Zenon, <1>2, RefusalKept DEF Kept
<1>7. Boots' BY Zenon, BootsKept DEF Kept
<1> QED BY Zenon, <1>1, <1>2, <1>3, <1>4, <1>5, <1>6, <1>7 DEF Kept

(* So it always holds.                                                      *)
LEMMA KeptAlways == Spec => []Kept
BY KeptInit, KeptNext, PTL DEF Spec

(* The groups are the type invariant.                                       *)
LEMMA KeptTypes == ASSUME Kept PROVE Types
<1> USE DEF Kept
<1>1. /\ {real, valid, saved, up, token, made, client, link, boot, stop, short, teardown, early,
           unbooted} \subseteq BOOLEAN
      /\ panic \in Pointers \cup {"none"}
  BY SMT DEF Flags
<1>2. {version, data, stamp} \subseteq [Ghosts -> Versions] BY DEF Numbers, Shown
<1>3. fresh \in [Ghosts -> BOOLEAN] /\ mixed \in [Ghosts -> BOOLEAN] BY Zenon DEF Shown
<1> QED BY Zenon, <1>1, <1>2, <1>3 DEF Types, Steps, Queued, Numbers, Shown, MaxLeft

(* The types; until a session is left its fields are as LoadUserLogin made  *)
(* them and no goroutine finds Client, RTM or SocketMode nil; BootResp is   *)
(* there before the goroutines of the connection are, and is nil only for   *)
(* the answer to a caller of GetUserInfo who asked before (Connect, the     *)
(* consumers, resyncUsers, runSocketMode, disconnect, wrapUserInfo).        *)
THEOREM Invariance == Spec => []Inv
<1>1. Kept => Inv BY Zenon, KeptTypes, FieldsSafe DEF Kept, Inv
<1> QED BY <1>1, KeptAlways, PTL

(* The stamp of a ghost is that of what the ghost shows, unless two calls   *)
(* of UpdateInfo overlapped, across restarts and panics (wrapUserInfo).     *)
THEOREM StampsTellTruth == Spec => []StampTellsTruth
<1>1. Kept => StampTellsTruth BY Zenon DEF Kept, Truth
<1> QED BY <1>1, KeptAlways, PTL

(* No event of the old connection hides bad credentials (HandleSlackEvent). *)
THEOREM BadCredentialsStay == Spec => BadIsFinal
<1>1. ASSUME Kept, [Next]_vars
      PROVE  [state = "bad" /\ ~token /\ command = "idle" /\ state' # "bad"
                => state' = "none"]_vars
  BY Zenon, <1>1, BadStays DEF Kept
<1> QED BY <1>1, KeptAlways, PTL DEF Spec, BadIsFinal

=============================================================================
