-------------------------- MODULE HrcWorkerProofs --------------------------
(***************************************************************************)
(* Wakeups and the steps of the program keep IInv of HrcWorkerInv.  The    *)
(* invariants of the hierarchical scheduler follow from it, and the        *)
(* scheduler implements TaskPark.                                          *)
(***************************************************************************)
EXTENDS HrcWorkerSteps, FiniteSetTheorems

USE ZenonT(60), SMTT(60), SMTT(120)

----------------------------------------------------------------------------
(* Wakeups *)

(* A wakeup for a task of the master. *)
LEMMA UnblockServedKeeps ==
  ASSUME IInv, NEW c \in Ctx, NEW t \in Tasks, NEW u \in Served,
         LpelTaskUnblock(c, t, u)
  PROVE  IInv'
  <1>1. PICK m, M, N, x :
          /\ m = MasterState /\ M = Range(mastermb) /\ N = Range(mastermb')
          /\ x = Msg("WAKEUP", u)
    OBVIOUS
  <1>2. /\ TypeOK /\ FreeList /\ MasterInv(m, M) /\ StopInv
        /\ m \in MasterStates /\ BoxesOK(m.mb) /\ m.state = state
    BY <1>1, Parts
  <1>3. TaskInv(m, M, u) /\ u \in Tasks BY <1>2 DEF MasterInv, Served
  <1>4. worker_context[u] \notin Wrappers BY <1>3, CtxIs DEF TaskInv
  <1>5. /\ park[u] = "parking" /\ park' = [park EXCEPT ![u] = "granted"]
        /\ ToMaster(x)
        /\ UNCHANGED <<mailbox, mpc, mterminate, ready_tasks, waitworkers,
                       pc, on, current_task, freewrappers, unused, state,
                       worker_context, wakenup, valid, freed, started, stopped>>
    BY <1>1, <1>4 DEF LpelTaskUnblock, mastervars, ctxvars, taskvars
  <1>6. m = MasterState' BY <1>1, <1>5 DEF MasterState
  <1>7. m.state[u] \in {"RUNNING", "BLOCKED", "RETURNED"} /\ x \notin M
    <2>1. m.state[u] \in States BY <1>2, <1>3, FieldsAre
    <2> QED BY <1>1, <1>3, <1>5, <2>1 DEF TaskInv, Parked, States
  <1>8. x \in MasterMessages BY <1>1, MasterMessageOf
  <1>9. mastermb' \in Seq(MasterMessages) /\ Distinct(mastermb') /\ N = M \cup {x}
    BY <1>1, <1>2, <1>5, <1>7, <1>8, SentToMaster
  <1>10. park'[u] = "granted" /\ \A v \in Tasks \ {u} : park'[v] = park[v]
    BY <1>2, <1>3, <1>5 DEF TypeOK
  <1>11. \A y, v : Msg(y, v) # x => (Msg(y, v) \in N <=> Msg(y, v) \in M)
    BY <1>9
  <1>12. \A v : Still(v) /\ Living(v) /\ SamePlace(m, M, m, N, v)
    <2>1. \A v : Still(v) /\ Living(v) BY <1>5 DEF Still, Ons, Living
    <2>2. \A v : SamePlace(m, M, m, N, v)
      BY SMTT(60), SMTT(120), <1>1, <1>11, MsgIs DEF SamePlace
    <2> QED BY <2>1, <2>2
  <1>13. \A v \in Served : v # u => Same(m, M, m, N, v) /\ Still(v) /\ Kept(v)
    BY SMTT(60), SMTT(120), <1>1, <1>5, <1>10, <1>11, <1>12, MsgIs
       DEF Same, Kept, Served
  <1>14. TaskInv(m, N, u)'
    <2>1. Located(m, N, u)' BY <1>3, <1>12, LocatedFrame DEF TaskInv
    <2>2. Parked(m, M, u) BY <1>3 DEF TaskInv
    <2>3. ~wakenup[u] BY <1>5, <2>2 DEF Parked
    <2>4. x \in N BY <1>9
    <2>5. Parked(m, N, u)' BY <1>1, <1>5, <1>7, <1>10, <2>3, <2>4 DEF Parked
    <2> QED BY <1>3, <1>5, <2>1, <2>5 DEF TaskInv
  <1>15. \A w \in Workers :
           SameWorker(m, M, m, N, w) /\ pc'[w] = pc[w] /\ on'[w] = on[w]
    BY SMTT(60), SMTT(120), <1>1, <1>5, <1>11, MsgIs DEF SameWorker
  <1>16. NoWrapper(m, m)
    <2>1. \A v \in Wrapped : v \in Tasks \ {u} BY HrcAssumption DEF Served
    <2> QED BY <1>5, <1>10, <2>1 DEF NoWrapper
  <1>17. MasterInv(m, N)'
    BY <1>2, <1>5, <1>13, <1>14, <1>15, <1>16, ServedStep DEF Going
  <1>18. TypeOK'
    <2>1. park' \in [Tasks -> {"running", "parking", "granted"}]
      BY <1>2, <1>5 DEF TypeOK
    <2> QED BY <1>2, <1>5, <1>9, <2>1 DEF TypeOK
  <1>19. StopInv'
    <2>1. Msg("TERMINATE", NULL) \in N <=> Msg("TERMINATE", NULL) \in M
      BY SMTT(60), SMTT(120), <1>1, <1>11, MsgIs
    <2> QED BY <1>1, <1>2, <1>5, <2>1, StopSame
  <1>20. FreeList' BY <1>2, <1>5 DEF FreeList, Range
  <1> QED BY <1>1, <1>6, <1>17, <1>18, <1>19, <1>20, Whole

(* A wakeup for the task of a wrapper. *)
LEMMA UnblockWrappedKeeps ==
  ASSUME IInv, NEW c \in Ctx, NEW t \in Tasks, NEW u \in Wrapped,
         LpelTaskUnblock(c, t, u)
  PROVE  IInv'
  <1>1. PICK m, M, n, x, d :
          /\ m = MasterState /\ M = Range(mastermb) /\ n = MasterState'
          /\ x = Msg("WAKEUP", u) /\ d = worker_context[u]
    OBVIOUS
  <1>2. /\ TypeOK /\ FreeList /\ MasterInv(m, M) /\ StopInv
        /\ m \in MasterStates /\ BoxesOK(mailbox) /\ m.mb = mailbox
        /\ m.state = state
    BY <1>1, Parts
  <1>3. /\ park[u] = "parking" /\ park' = [park EXCEPT ![u] = "granted"]
        /\ UNCHANGED <<mpc, mterminate, ready_tasks, waitworkers,
                       pc, on, current_task, freewrappers, unused, state,
                       worker_context, wakenup, valid, freed, started, stopped>>
    BY DEF LpelTaskUnblock, mastervars, ctxvars, taskvars
  <1>4. u \in Tasks BY HrcAssumption
  <1>5. WrappedInv(m, u) BY <1>2 DEF MasterInv
  <1>6. d \in Wrappers /\ u \in started \ freed /\ AtWrapper(m, d, u) /\ Owns(d, u)
    BY <1>1, <1>3, <1>5 DEF WrappedInv, Owns
  <1>7. d \in Ctx BY <1>6, CtxIs
  <1>8. mailbox' = Posted(mailbox, d, x) /\ mastermb' = mastermb
    BY <1>1, <1>6 DEF LpelTaskUnblock, Posted
  <1>9. Woken(u) = {} /\ Range(mailbox[d]) = {}
    BY <1>2, <1>3, <1>6 DEF AtWrapper, Wraps, Woken
  <1>10. x \in Messages /\ x \notin Range(mailbox[d])
    BY <1>1, <1>4, <1>9, MessageOf
  <1>11. /\ BoxesOK(mailbox') /\ Range(mailbox'[d]) = {x}
         /\ \A e \in Ctx : e # d => mailbox'[e] = mailbox[e]
    BY SMTT(60), SMTT(120), <1>2, <1>7, <1>8, <1>9, <1>10, Post
  <1>12. park'[u] = "granted" /\ \A v \in Tasks \ {u} : park'[v] = park[v]
    BY <1>2, <1>3, <1>4 DEF TypeOK
  <1>13. /\ n \in MasterStates /\ BoxesOK(n.mb) /\ n.mb = mailbox'
         /\ n.state = m.state /\ n.ready = m.ready /\ n.wait = m.wait
    <2>1. /\ m = MasterState /\ n = MasterState' /\ ready_tasks' = ready_tasks
          /\ waitworkers' = waitworkers /\ valid' = valid /\ state' = m.state
          /\ state' \in [Tasks -> States]
      BY <1>1, <1>2, <1>3, FieldsAre
    <2> QED BY <1>2, <1>11, <2>1, ThreadState
  <1>14. WrappedInv(n, u)'
    <2>1. Woken(u)' = {x} BY <1>1, <1>12 DEF Woken
    <2>2. AtWrapper(n, d, u)'
      BY <1>3, <1>6, <1>11, <1>12, <1>13, <2>1 DEF AtWrapper, Wraps
    <2> QED BY <1>1, <1>3, <1>6, <2>2 DEF WrappedInv
  <1>15. WrapperInv(n, d)'
    <2>1. WrapperInv(m, d) BY <1>2, <1>6 DEF MasterInv
    <2>2. pc[d] # "exit" /\ pc'[d] # "exit" BY <1>3, <1>6, AtWrapperIs
    <2> QED BY <1>3, <1>4, <1>6, <2>1, <2>2, WrapperGoes
  <1>16. MasterInv(n, M)'
    <2>1. Range(n.mb[d]) \subseteq {Msg("ASSIGN", u), Msg("WAKEUP", u)}
      BY <1>1, <1>11, <1>13
    <2>2. \A e \in Wrappers : e \in (unused \cup Range(freewrappers))' =>
                                e \in unused \cup Range(freewrappers)
      BY <1>3 DEF Range
    <2>3. \A v \in Tasks \ {u} : /\ n.state[v] = m.state[v] /\ park'[v] = park[v]
                                 /\ (v \in freed' <=> v \in freed)
      BY <1>3, <1>12, <1>13
    <2>4. UNCHANGED <<mpc, wakenup, started, worker_context>> BY <1>3
    <2>5. Alone(d) /\ on'[d] \in {u, NULL} BY <1>3, <1>6, AtWrapperIs DEF Alone
    <2>6. \A e \in Ctx \ {d} : n.mb[e] = m.mb[e] BY <1>2, <1>11, <1>13
    <2> QED BY <1>2, <1>6, <1>13, <1>14, <1>15, <2>1, <2>2, <2>3, <2>4, <2>5,
               <2>6, WrapperStep
  <1>17. TypeOK'
    <2>1. park' \in [Tasks -> {"running", "parking", "granted"}]
      BY <1>2, <1>3 DEF TypeOK
    <2> QED BY <1>2, <1>3, <1>8, <2>1 DEF TypeOK
  <1>18. StopInv' BY <1>2, <1>3, <1>8, StopSame
  <1>19. FreeList' BY <1>2, <1>3 DEF FreeList, Range
  <1>20. M = Range(mastermb') BY <1>1, <1>8
  <1> QED BY <1>1, <1>16, <1>17, <1>18, <1>19, <1>20, Whole

----------------------------------------------------------------------------
(* The program *)

(* The program starts a task. *)
LEMMA LpelTaskStartKeeps ==
  ASSUME IInv, NEW t \in Tasks, LpelTaskStart(t)
  PROVE  IInv'
  <1>1. PICK m, M, N, x :
          /\ m = MasterState /\ M = Range(mastermb) /\ N = Range(mastermb')
          /\ x = Msg("ASSIGN", t)
    OBVIOUS
  <1>2. /\ TypeOK /\ FreeList /\ MasterInv(m, M) /\ StopInv
        /\ m \in MasterStates /\ BoxesOK(m.mb) /\ m.state = state
    BY <1>1, Parts
  <1>3. /\ t \notin started /\ t \in Served /\ started' = started \cup {t}
        /\ ToMaster(x)
        /\ UNCHANGED <<mailbox, mpc, mterminate, ready_tasks, waitworkers,
                       pc, on, current_task, freewrappers, unused, state, park,
                       worker_context, wakenup, valid, freed, stopped>>
    BY <1>1 DEF LpelTaskStart, mastervars, ctxvars, taskvars, Served
  <1>4. m = MasterState' BY <1>1, <1>3 DEF MasterState
  <1>5. ~stopped /\ mpc = "loop" BY <1>2, <1>3 DEF StopInv
  <1>6. /\ TaskInv(m, M, t) /\ m.state[t] = "CREATED" /\ t \notin freed
        /\ At(m, M, t, FALSE, FALSE, {}, {})
    <2>1. TaskInv(m, M, t) BY <1>2, <1>3 DEF MasterInv
    <2>2. m.state[t] = "CREATED" /\ t \notin freed
      BY <1>3, <2>1 DEF TaskInv, Located
    <2>3. At(m, M, t, t \in started, FALSE, {}, {})
      BY <1>5, <2>1, <2>2 DEF TaskInv, Located
    <2> QED BY <1>3, <2>1, <2>2, <2>3 DEF At
  <1>7. x \in MasterMessages /\ x \notin M
    BY <1>1, <1>3, <1>6, MasterMessageOf DEF At
  <1>8. mastermb' \in Seq(MasterMessages) /\ Distinct(mastermb') /\ N = M \cup {x}
    BY <1>1, <1>2, <1>3, <1>7, SentToMaster
  <1>9. \A y, v : Msg(y, v) # x => (Msg(y, v) \in N <=> Msg(y, v) \in M)
    BY <1>8
  <1>10. \A v \in Served : v # t => Same(m, M, m, N, v) /\ Still(v) /\ Kept(v)
    <2>1. SUFFICES ASSUME NEW v \in Served, v # t
                   PROVE  Same(m, M, m, N, v) /\ Still(v) /\ Kept(v)
      OBVIOUS
    <2>2. Same(m, M, m, N, v)
      BY SMTT(60), SMTT(120), <1>1, <1>9, <2>1, MsgIs DEF Same, SamePlace
    <2> QED BY <1>3, <2>1, <2>2 DEF Still, Ons, Kept, Living
  <1>11. TaskInv(m, N, t)'
    <2>1. Ons(t)' = Ons(t) BY <1>3 DEF Ons
    <2>2. Msg("RETURN", t) # x /\ Msg("WAKEUP", t) # x
      BY SMTT(60), SMTT(120), <1>1, MsgIs
    <2>3. At(m, N, t, t \in started, FALSE, {}, {})'
      BY <1>1, <1>3, <1>6, <1>8, <1>9, <2>1, <2>2 DEF At, Holders
    <2>4. Located(m, N, t)' BY <1>3, <1>6, <2>3 DEF Located
    <2>5. Parked(m, N, t)' BY <1>3, <1>6, <1>9, <2>2 DEF TaskInv, Parked
    <2> QED BY <1>3, <1>6, <2>4, <2>5 DEF TaskInv
  <1>12. \A w \in Workers :
           SameWorker(m, M, m, N, w) /\ pc'[w] = pc[w] /\ on'[w] = on[w]
    BY SMTT(60), SMTT(120), <1>1, <1>3, <1>9, MsgIs DEF SameWorker
  <1>13. NoWrapper(m, m)
    <2>1. \A v \in Wrapped : v # t BY <1>3 DEF Served
    <2> QED BY <1>3, <2>1 DEF NoWrapper
  <1>14. MasterInv(m, N)'
    BY <1>2, <1>3, <1>10, <1>11, <1>12, <1>13, ServedStep DEF Going
  <1>15. TypeOK' BY <1>2, <1>3, <1>8 DEF TypeOK
  <1>16. StopInv'
    <2>1. Msg("TERMINATE", NULL) \in N <=> Msg("TERMINATE", NULL) \in M
      BY SMTT(60), SMTT(120), <1>1, <1>9, MsgIs
    <2>2. Msg("TERMINATE", NULL) \in Range(mastermb') => stopped
      BY <1>1, <1>2, <2>1 DEF StopInv
    <2> QED BY <1>2, <1>3, <1>5, <2>2 DEF StopInv, Range
  <1>17. FreeList' BY <1>2, <1>3 DEF FreeList, Range
  <1> QED BY <1>1, <1>4, <1>14, <1>15, <1>16, <1>17, Whole

(* The program stops the library. *)
LEMMA LpelStopKeeps ==
  ASSUME IInv, LpelStop
  PROVE  IInv'
  <1>1. PICK m, M, N, x :
          /\ m = MasterState /\ M = Range(mastermb) /\ N = Range(mastermb')
          /\ x = Msg("TERMINATE", NULL)
    OBVIOUS
  <1>2. /\ TypeOK /\ FreeList /\ MasterInv(m, M) /\ StopInv
        /\ m \in MasterStates /\ BoxesOK(m.mb) /\ m.state = state
    BY <1>1, Parts
  <1>3. /\ started = Tasks /\ (StopEarly \/ \A t \in Tasks : state[t] = "ZOMBIE")
        /\ ~stopped /\ stopped' = TRUE /\ ToMaster(x)
        /\ UNCHANGED <<mailbox, mpc, mterminate, ready_tasks, waitworkers,
                       pc, on, current_task, freewrappers, unused, state, park,
                       worker_context, wakenup, valid, freed, started>>
    BY <1>1 DEF LpelStop, mastervars, ctxvars, taskvars
  <1>4. m = MasterState' BY <1>1, <1>3 DEF MasterState
  <1>5. x \in MasterMessages /\ x \notin M
    BY <1>1, <1>2, <1>3, MasterMessageOf DEF StopInv
  <1>6. mastermb' \in Seq(MasterMessages) /\ Distinct(mastermb') /\ N = M \cup {x}
    BY <1>1, <1>2, <1>3, <1>5, SentToMaster
  <1>7. \A y, v : Msg(y, v) # x => (Msg(y, v) \in N <=> Msg(y, v) \in M)
    BY <1>6
  <1>8. \A v \in Served : Same(m, M, m, N, v) /\ Still(v) /\ Kept(v)
    <2>1. TAKE v \in Served
    <2>2. Same(m, M, m, N, v)
      BY SMTT(60), SMTT(120), <1>1, <1>7, MsgIs DEF Same, SamePlace
    <2> QED BY <1>3, <2>2 DEF Still, Ons, Kept, Living
  <1>9. \A w \in Workers :
          SameWorker(m, M, m, N, w) /\ pc'[w] = pc[w] /\ on'[w] = on[w]
    BY SMTT(60), SMTT(120), <1>1, <1>3, <1>7, MsgIs DEF SameWorker
  <1>10. NoWrapper(m, m) BY <1>3 DEF NoWrapper
  <1>11. MasterInv(m, N)'
    BY <1>2, <1>3, <1>8, <1>9, <1>10, ServedStep DEF Going
  <1>12. TypeOK' BY <1>2, <1>3, <1>6 DEF TypeOK
  <1>13. StopInv' BY <1>3 DEF StopInv
  <1>14. FreeList' BY <1>2, <1>3 DEF FreeList, Range
  <1> QED BY <1>1, <1>4, <1>11, <1>12, <1>13, <1>14, Whole

(* The program starts a task on a wrapper, a free one or a new one. *)
LEMMA StartWrapperKeeps ==
  ASSUME IInv, NEW t \in Tasks, StartWrapper(t)
  PROVE  IInv'
  <1>1. PICK m, M, n, x : /\ m = MasterState /\ M = Range(mastermb)
                          /\ n = MasterState' /\ x = Msg("ASSIGN", t)
    OBVIOUS
  <1>2. /\ TypeOK /\ FreeList /\ MasterInv(m, M) /\ StopInv
        /\ m \in MasterStates /\ BoxesOK(mailbox) /\ m.mb = mailbox
        /\ m.state = state
    BY <1>1, Parts
  <1>3. /\ t \in Wrapped /\ t \notin started /\ started' = started \cup {t}
        /\ UNCHANGED <<mastermb, mpc, mterminate, ready_tasks, waitworkers, on,
                       state, wakenup, valid, freed, park, stopped>>
    BY DEF StartWrapper, mastervars
  <1>4. PICK c \in Wrappers :
          /\ IF freewrappers # <<>>
             THEN /\ c = Head(freewrappers)
                  /\ freewrappers' = Tail(freewrappers)
                  /\ unused' = unused
             ELSE /\ c \in unused
                  /\ unused' = unused \ {c}
                  /\ freewrappers' = freewrappers
          /\ worker_context' = [worker_context EXCEPT ![t] = c]
          /\ current_task' = [current_task EXCEPT ![c] = NULL]
          /\ pc' = [pc EXCEPT ![c] = "recv"]
          /\ mailbox' = Posted(mailbox, c, x)
    BY <1>1 DEF StartWrapper, Posted
  <1>5. /\ freewrappers' \in Seq(Wrappers) /\ unused' \subseteq Wrappers
        /\ FreeList' /\ c \in unused \cup Range(freewrappers)
        /\ (unused \cup Range(freewrappers))'
             = (unused \cup Range(freewrappers)) \ {c}
    <2>1. PICK f, g : f = freewrappers /\ g = freewrappers' OBVIOUS
    <2>2. /\ f \in Seq(Wrappers) /\ Distinct(f) /\ unused \cap Range(f) = {}
          /\ unused \subseteq Wrappers
      BY <1>2, <2>1 DEF TypeOK, FreeList
    <2>3. CASE f # <<>>
      <3>1. c = Head(f) /\ g = Tail(f) /\ unused' = unused BY <1>4, <2>1, <2>3
      <3>2. /\ g \in Seq(Wrappers) /\ Distinct(g) /\ Range(g) = Range(f) \ {c}
            /\ c \in Range(f)
        BY <2>2, <2>3, <3>1, Shortened
      <3>3. FreeList'
        BY SMTT(60), SMTT(120), <2>1, <2>2, <3>1, <3>2 DEF FreeList, Range
      <3>4. (unused \cup Range(freewrappers))' = unused \cup Range(g)
        BY <2>1, <3>1 DEF Range
      <3> QED BY <2>1, <2>2, <3>1, <3>2, <3>3, <3>4
    <2>4. CASE f = <<>>
      <3>1. c \in unused /\ g = f /\ unused' = unused \ {c} BY <1>4, <2>1, <2>4
      <3>2. FreeList' BY <2>1, <2>2, <3>1 DEF FreeList, Range
      <3>3. (unused \cup Range(freewrappers))' = (unused \ {c}) \cup Range(f)
        BY <2>1, <3>1 DEF Range
      <3> QED BY <2>1, <2>2, <3>1, <3>2, <3>3
    <2> QED BY <2>3, <2>4
  <1>6. /\ WrapperInv(m, c) /\ pc[c] = "exit" /\ mailbox[c] = <<>> /\ on[c] = NULL
        /\ \A u \in Tasks : ~Owns(c, u)
    BY <1>2, <1>5 DEF MasterInv, WrapperInv
  <1>7. c \in Ctx /\ Range(mailbox[c]) = {} /\ x \in Messages
    BY SMTT(60), SMTT(120), <1>1, <1>6, CtxIs, MessageOf DEF Range
  <1>8. /\ BoxesOK(mailbox') /\ Range(mailbox'[c]) = {x}
        /\ \A d \in Ctx : d # c => mailbox'[d] = mailbox[d]
    BY SMTT(60), SMTT(120), <1>2, <1>4, <1>7, Post
  <1>9. /\ n \in MasterStates /\ BoxesOK(n.mb) /\ n.mb = mailbox'
        /\ n.state = m.state /\ n.ready = m.ready /\ n.wait = m.wait
    <2>1. /\ m = MasterState /\ n = MasterState' /\ ready_tasks' = ready_tasks
          /\ waitworkers' = waitworkers /\ valid' = valid /\ state' = m.state
          /\ state' \in [Tasks -> States]
      BY <1>1, <1>2, <1>3, FieldsAre
    <2> QED BY <1>2, <1>8, <2>1, ThreadState
  <1>10. pc'[c] = "recv" /\ on'[c] = NULL /\ current_task'[c] = NULL /\ Alone(c)
    BY <1>2, <1>3, <1>4, <1>6, <1>7 DEF TypeOK, Alone
  <1>11. /\ worker_context'[t] = c
         /\ \A u \in Tasks \ {t} : worker_context'[u] = worker_context[u]
    BY <1>2, <1>4 DEF TypeOK
  <1>12. m.state[t] = "CREATED" /\ park[t] = "running" /\ t \notin freed
    <2>1. WrappedInv(m, t) BY <1>2, <1>3 DEF MasterInv
    <2> QED BY <1>3, <2>1 DEF WrappedInv
  <1>13. \A u \in Served : Same(m, M, n, M, u) /\ Still(u) /\ Kept(u)
    <2>1. TAKE u \in Served
    <2>2. u # t /\ u \in Tasks /\ u # NULL BY <1>3, CtxIs DEF Served
    <2>3. Msg("ASSIGN", u) # x BY SMTT(60), SMTT(120), <1>1, <2>2, MsgIs
    <2>4. Holders(n, Msg("ASSIGN", u)) = Holders(m, Msg("ASSIGN", u))
      BY <1>2, <1>7, <1>8, <1>9, <2>3 DEF Holders
    <2>5. Same(m, M, n, M, u) BY <1>9, <2>4 DEF Same, SamePlace
    <2>6. Still(u) BY <1>6, <1>7, <1>10, <1>11, <2>2, StillOthers
    <2>7. Kept(u) BY <1>3, <2>2 DEF Kept, Living
    <2> QED BY <2>5, <2>6, <2>7
  <1>14. \A w \in Workers :
           SameWorker(m, M, n, M, w) /\ pc'[w] = pc[w] /\ on'[w] = on[w]
    <2>1. \A w \in Workers : w \in Ctx \ {c} BY CtxIs
    <2> QED BY <1>2, <1>3, <1>8, <1>9, <1>10, <2>1 DEF SameWorker, Alone
  <1>15. \A u \in Wrapped \ {t} :
           /\ n.state[u] = m.state[u] /\ park'[u] = park[u]
           /\ worker_context'[u] = worker_context[u]
           /\ (u \in freed' <=> u \in freed) /\ (u \in started' <=> u \in started)
           /\ ~Owns(c, u)
    BY <1>3, <1>6, <1>9, <1>11, HrcAssumption
  <1>16. \A d \in Wrappers \ {c} :
           /\ n.mb[d] = m.mb[d] /\ pc'[d] = pc[d] /\ on'[d] = on[d]
           /\ current_task'[d] = current_task[d] /\ (Owns(d, t)' <=> Owns(d, t))
           /\ d \in (unused \cup Range(freewrappers))' =>
                d \in unused \cup Range(freewrappers)
    <2>1. TAKE d \in Wrappers \ {c}
    <2>2. d \in Ctx \ {c} BY CtxIs
    <2>3. ~Owns(d, t) /\ ~Owns(d, t)' BY <1>3, <1>11 DEF Owns
    <2> QED BY <1>2, <1>5, <1>8, <1>9, <1>10, <2>2, <2>3 DEF Alone
  <1>17. WrappedInv(n, t)'
    <2>1. Wraps(n, c, t, {Msg("ASSIGN", t)}, "recv", NULL, NULL)'
      BY <1>1, <1>8, <1>9, <1>10 DEF Wraps
    <2>2. AtWrapper(n, c, t)' BY <1>3, <1>9, <1>12, <2>1 DEF AtWrapper
    <2> QED BY <1>3, <1>11, <1>12, <2>2 DEF WrappedInv
  <1>18. WrapperInv(n, c)'
    <2>1. Owns(c, t)' BY <1>3, <1>11, <1>12 DEF Owns
    <2>2. \A u \in Tasks : u # t => ~Owns(c, u)'
      BY <1>3, <1>6, <1>11 DEF Owns
    <2>3. c \notin (unused \cup Range(freewrappers))' BY <1>5
    <2> QED BY <1>10, <2>1, <2>2, <2>3 DEF WrapperInv
  <1>19. MasterInv(n, M)'
    BY <1>2, <1>3, <1>9, <1>13, <1>14, <1>15, <1>16, <1>17, <1>18, WrapperKeeps
       DEF Going
  <1>20. TypeOK'
    <2>1. pc' \in [Ctx -> {"start", "recv", "run", "back", "exit"}]
      BY <1>2, <1>4 DEF TypeOK
    <2>2. current_task' \in [Ctx -> Slot] BY <1>2, <1>4 DEF TypeOK, Slot
    <2>3. worker_context' \in [Tasks -> Ctx \cup {NULL}]
      BY <1>2, <1>4, <1>7 DEF TypeOK
    <2> QED BY <1>2, <1>3, <1>5, <2>1, <2>2, <2>3 DEF TypeOK
  <1>21. StopInv'
    <2>1. ~stopped BY <1>2, <1>3 DEF StopInv
    <2> QED BY <1>2, <1>3, <2>1 DEF StopInv, Range
  <1>22. M = Range(mastermb') BY <1>1, <1>3
  <1> QED BY <1>1, <1>5, <1>19, <1>20, <1>21, <1>22, Whole

(* A step that does not touch what the invariant is about. *)
LEMMA IdleKeeps ==
  ASSUME IInv,
         UNCHANGED <<mastermb, mailbox, mpc, mterminate, ready_tasks, waitworkers,
                     pc, on, current_task, freewrappers, unused, state, park,
                     worker_context, wakenup, valid, freed, started, stopped>>
  PROVE  IInv'
  <1>1. PICK m, M : m = MasterState /\ M = Range(mastermb) OBVIOUS
  <1>2. /\ TypeOK /\ FreeList /\ MasterInv(m, M) /\ StopInv
        /\ m \in MasterStates /\ BoxesOK(m.mb)
    BY <1>1, Parts
  <1>3. m = MasterState' /\ M = Range(mastermb') BY <1>1 DEF MasterState
  <1>4. \A v \in Served : Same(m, M, m, M, v) /\ Still(v) /\ Kept(v)
    BY DEF Same, SamePlace, Still, Ons, Kept, Living
  <1>5. \A w \in Workers :
          SameWorker(m, M, m, M, w) /\ pc'[w] = pc[w] /\ on'[w] = on[w]
    BY DEF SameWorker
  <1>6. NoWrapper(m, m) BY DEF NoWrapper
  <1>7. MasterInv(m, M)' BY <1>2, <1>4, <1>5, <1>6, ServedStep DEF Going
  <1>8. TypeOK' BY <1>2 DEF TypeOK
  <1>9. StopInv' BY <1>2, StopSame
  <1>10. FreeList' BY <1>2 DEF FreeList, Range
  <1> QED BY <1>3, <1>7, <1>8, <1>9, <1>10, Whole

----------------------------------------------------------------------------
(* The invariant *)

(* The invariant holds before any task is started. *)
LEMMA InitInv ==
  ASSUME Init
  PROVE  IInv
  <1>1. PICK m, M : m = MasterState /\ M = Range(mastermb) OBVIOUS
  <1>2. /\ mastermb = <<>> /\ mailbox = [c \in Ctx |-> <<>>]
        /\ freewrappers = <<>> /\ unused = Wrappers
        /\ state = [t \in Tasks |-> "CREATED"]
        /\ worker_context = [t \in Tasks |-> NULL]
        /\ wakenup = [t \in Tasks |-> FALSE] /\ valid = [t \in Tasks |-> TRUE]
        /\ ready_tasks = {} /\ waitworkers = {}
        /\ mterminate = FALSE /\ mpc = "loop"
        /\ pc = [c \in Ctx |-> IF c >= 0 THEN "start" ELSE "exit"]
        /\ on = [c \in Ctx |-> NULL] /\ current_task = [c \in Ctx |-> NULL]
        /\ freed = {} /\ park = [t \in Tasks |-> "running"]
        /\ started = {} /\ stopped = FALSE
    BY DEF Init, initLocalVar, LpelTaskCreate
  <1>3. /\ <<>> \in Seq(MasterMessages) /\ <<>> \in Seq(Messages)
        /\ <<>> \in Seq(Wrappers) /\ Distinct(<<>>) /\ Range(<<>>) = {}
    BY SMTT(60), SMTT(120) DEF Distinct, Range
  <1>4. M = {} BY <1>1, <1>2, <1>3
  <1>5. BoxesOK(mailbox) BY <1>2, <1>3 DEF BoxesOK
  <1>6. /\ m \in MasterStates /\ m.mb = mailbox /\ m.state = state /\ m.ready = {}
        /\ m.wait = {}
    <2>1. m = Rec(ready_tasks, waitworkers, mailbox, state, valid)
      BY <1>1 DEF MasterState, Rec
    <2>2. /\ state \in [Tasks -> States] /\ valid \in [Tasks -> BOOLEAN]
          /\ ready_tasks \in SUBSET Served /\ waitworkers \in SUBSET Workers
      BY <1>2 DEF States
    <2>3. mailbox \in [Ctx -> Seq(Messages)] BY <1>5 DEF BoxesOK
    <2>4. /\ m \in MasterStates /\ m.mb = mailbox /\ m.state = state
          /\ m.ready = ready_tasks /\ m.wait = waitworkers
      BY SMTT(60), SMTT(120), <2>1, <2>2, <2>3, RecIs
    <2> QED BY <1>2, <2>4
  <1>7. \A c \in Ctx : Range(m.mb[c]) = {} /\ on[c] = NULL BY <1>2, <1>3, <1>6
  <1>8. ASSUME NEW t \in Served PROVE TaskInv(m, M, t)
    <2>1. /\ t \in Tasks /\ t # NULL /\ state[t] = "CREATED" /\ ~wakenup[t]
          /\ park[t] = "running" /\ worker_context[t] = NULL
      BY <1>2, CtxIs DEF Served
    <2>2. At(m, M, t, FALSE, FALSE, {}, {})
      BY <1>4, <1>6, <1>7, <2>1 DEF At, Holders, Ons
    <2>3. At(m, M, t, t \in started, FALSE, {}, {})
      BY <1>2, <2>2 DEF At
    <2>4. Located(m, M, t) BY <1>2, <1>6, <2>1, <2>3 DEF Located
    <2>5. Parked(m, M, t) BY <1>4, <1>6, <2>1 DEF Parked
    <2> QED BY <2>1, <2>4, <2>5 DEF TaskInv
  <1>9. ASSUME NEW w \in Workers PROVE WorkerInv(m, M, w)
    <2>1. pc[w] = "start" /\ on[w] = NULL /\ Range(m.mb[w]) = {}
      BY <1>2, <1>7, CtxIs
    <2>2. Given(m, w) = {} BY <2>1 DEF Given
    <2>3. Asks(m, M, w, FALSE, FALSE, {}) BY <1>4, <1>6, <2>2 DEF Asks
    <2>4. NULL \notin Wrapped BY HrcAssumption
    <2> QED BY <2>1, <2>2, <2>3, <2>4 DEF WorkerInv
  <1>10. ASSUME NEW t \in Wrapped PROVE WrappedInv(m, t)
    BY <1>2, <1>6, HrcAssumption DEF WrappedInv
  <1>11. ASSUME NEW c \in Wrappers PROVE WrapperInv(m, c)
    <2>1. /\ pc[c] = "exit" /\ on[c] = NULL /\ m.mb[c] = <<>>
      BY <1>2, <1>6, CtxIs
    <2>2. \A t \in Tasks : ~Owns(c, t) BY <1>2 DEF Owns
    <2> QED BY <2>1, <2>2 DEF WrapperInv
  <1>12. MasterInv(m, M)
    BY <1>5, <1>6, <1>8, <1>9, <1>10, <1>11 DEF MasterInv
  <1>13. TypeOK
    <2>1. pc \in [Ctx -> {"start", "recv", "run", "back", "exit"}] BY <1>2
    <2>2. on \in [Ctx -> Slot] /\ current_task \in [Ctx -> Slot]
      BY <1>2 DEF Slot
    <2> QED BY <1>2, <1>3, <2>1, <2>2 DEF TypeOK
  <1>14. FreeList BY <1>2, <1>3 DEF FreeList
  <1>15. StopInv BY <1>1, <1>2, <1>4 DEF StopInv
  <1> QED BY <1>1, <1>12, <1>13, <1>14, <1>15 DEF IInv

(* Every operation of a running task keeps the invariant. *)
LEMMA TaskStepKeeps ==
  ASSUME IInv, NEW c \in Ctx, NEW t \in Tasks, TaskStep(c, t)
  PROVE  IInv'
  <1>1. ASSUME NEW s \in {"READY", "BLOCKED", "ZOMBIE"}, Runs(c, t), Leave(c, s),
               s = "BLOCKED" <=> park[t] # "running", park' = park
        PROVE  IInv'
    BY <1>1, LeaveWorkerKeeps, LeaveWrapperKeeps DEF Ctx
  <1>2. CASE Decide(c, t)
    BY <1>2, DecideWorkerKeeps, DecideWrapperKeeps DEF Ctx
  <1>3. CASE Demand(c, t)
    BY <1>3, IdleKeeps DEF Demand, mastervars, ctxvars, taskvars
  <1>4. CASE LpelTaskBlockStream(c, t)
    BY <1>1, <1>4 DEF LpelTaskBlockStream
  <1>5. CASE LpelTaskYield(c, t)
    BY <1>1, <1>5 DEF LpelTaskYield
  <1>6. CASE LpelTaskExit(c, t)
    BY <1>1, <1>6 DEF LpelTaskExit
  <1>7. ASSUME NEW whom \in Tasks, LpelTaskUnblock(c, t, whom) PROVE IInv'
    BY <1>7, UnblockServedKeeps, UnblockWrappedKeeps DEF Served
  <1> QED BY <1>2, <1>3, <1>4, <1>5, <1>6, <1>7 DEF TaskStep

(* Every step of a worker or a wrapper keeps the invariant. *)
LEMMA ThreadKeeps ==
  ASSUME IInv, NEW c \in Ctx, Thread(c)
  PROVE  IInv'
  BY WorkerFirstKeeps, WorkerAssignKeeps, WorkerReturnKeeps,
     WorkerTerminateKeeps,
     WrapperRunKeeps, WrapperRecvKeeps, WrapperExitKeeps DEF Thread

(* Every step keeps the invariant. *)
LEMMA NextKeeps ==
  ASSUME IInv, [Next]_vars
  PROVE  IInv'
  <1>1. CASE Master BY <1>1, MasterLoopKeeps, MasterBroadcastKeeps DEF Master
  <1>2. ASSUME NEW c \in Ctx, Thread(c) \/ \E t \in Tasks : TaskStep(c, t)
        PROVE  IInv'
    BY <1>2, ThreadKeeps, TaskStepKeeps
  <1>3. CASE Program
    BY <1>3, LpelTaskStartKeeps, StartWrapperKeeps, LpelStopKeeps, CleanupKeeps
       DEF Program
  <1>4. CASE UNCHANGED vars
    BY <1>4, IdleKeeps DEF vars, mastervars, ctxvars, taskvars, envvars
  <1> QED BY <1>1, <1>2, <1>3, <1>4 DEF Next, Done

(* The hierarchical scheduler keeps the invariant: a task is in the one    *)
(* place that its state says, the request of a worker that runs no task is *)
(* in one place, and a wrapper is with the one task it was started for.    *)
THEOREM HrcInvariant == Spec => []IInv
  <1>1. Init => IInv BY InitInv
  <1>2. IInv /\ [Next]_vars => IInv' BY NextKeeps
  <1> QED BY <1>1, <1>2, PTL DEF Spec

----------------------------------------------------------------------------
(* What the invariant says of stacks and states *)

(* A task on the stack of a thread is on no other. *)
LEMMA OnIs ==
  ASSUME IInv, NEW c \in Ctx, NEW t, t = on[c], t # NULL
  PROVE  /\ t \in Tasks /\ t \notin freed
         /\ \/ c \in Workers /\ t \in Served /\ Ons(t) = {c}
            \/ c \in Wrappers /\ t \in Wrapped /\ worker_context[t] = c
  <1>1. PICK m, M : m = MasterState /\ M = Range(mastermb) OBVIOUS
  <1>2. TypeOK /\ MasterInv(m, M) BY <1>1, Parts
  <1>3. t \in Tasks BY <1>2 DEF TypeOK, Slot
  <1>4. CASE c \in Workers
    <2>1. t \in Served BY <1>2, <1>3, <1>4 DEF MasterInv, WorkerInv, Served
    <2>2. TaskInv(m, M, t) BY <1>2, <2>1 DEF MasterInv
    <2>3. t \in started \ freed /\ At(m, M, t, FALSE, FALSE, {}, {c})
      BY <2>2, AtOn
    <2> QED BY <1>3, <1>4, <2>1, <2>3 DEF At
  <1>5. CASE c \in Wrappers
    <2>1. pc[c] # "exit" BY <1>2, <1>5 DEF MasterInv, WrapperInv
    <2>2. PICK u \in Wrapped : /\ AtWrapper(m, c, u) /\ worker_context[u] = c
                               /\ u \in started \ freed
      BY <1>2, <1>5, <2>1, WrapperIs
    <2> QED BY <1>3, <1>5, <2>2, AtWrapperIs
  <1> QED BY <1>4, <1>5 DEF Ctx

(* No two threads are on one stack, and none on that of a destroyed task:  *)
(* a worker has left the stack of a task before the master can send the    *)
(* task to another worker or destroy it, whenever the messages arrive.     *)
THEOREM StacksAreSafe == Spec => []OneThreadPerStack
  <1>1. ASSUME IInv PROVE OneThreadPerStack
    <2>1. ASSUME NEW c \in Ctx, NEW d \in Ctx, on[c] = on[d], c # d
          PROVE  on[c] = NULL
      <3>1. SUFFICES ASSUME on[c] # NULL PROVE FALSE OBVIOUS
      <3>2. PICK t : t = on[c] OBVIOUS
      <3>3. \/ c \in Workers /\ t \in Served /\ Ons(t) = {c}
            \/ c \in Wrappers /\ t \in Wrapped /\ worker_context[t] = c
        BY <1>1, <3>1, <3>2, OnIs
      <3>4. \/ d \in Workers /\ t \in Served /\ Ons(t) = {d}
            \/ d \in Wrappers /\ t \in Wrapped /\ worker_context[t] = d
        BY <1>1, <2>1, <3>1, <3>2, OnIs
      <3> QED BY <2>1, <3>3, <3>4 DEF Served
    <2>2. ASSUME NEW c \in Ctx PROVE on[c] \notin freed
      <3>1. NULL \notin freed BY <1>1, CtxIs DEF IInv, TypeOK
      <3> QED BY <1>1, <3>1, OnIs
    <2>3. ASSUME NEW c \in Ctx, NEW t \in Tasks, Runs(c, t)
          PROVE  current_task[c] = t /\ worker_context[t] = c
      <3>1. PICK m, M : m = MasterState /\ M = Range(mastermb) OBVIOUS
      <3>2. TypeOK /\ MasterInv(m, M) BY <1>1, <3>1, Parts
      <3> QED BY <2>3, <3>2, RunnerIs DEF Wraps
    <2> QED BY <2>1, <2>2, <2>3 DEF OneThreadPerStack
  <1> QED BY <1>1, HrcInvariant, PTL

(* The assertions of the master, the workers and the wrappers on the state *)
(* of the task in a message hold when the message is taken.                *)
THEOREM StatesAreExpected == Spec => []StateAsExpected
  <1>1. ASSUME IInv PROVE StateAsExpected
    <2>1. PICK m, M : m = MasterState /\ M = Range(mastermb) OBVIOUS
    <2>2. /\ TypeOK /\ MasterInv(m, M) /\ m.mb = mailbox /\ m.state = state
          /\ BoxesOK(mailbox)
      BY <1>1, <2>1, Parts
    <2>3. ASSUME NEW t \in Tasks, NEW y \in {"ASSIGN", "RETURN"}, Msg(y, t) \in M
          PROVE  TaskInv(m, M, t)
      <3>1. Msg(y, t) \in MasterMessages
        BY SMTT(60), SMTT(120), <2>1, <2>2, <2>3 DEF TypeOK, Range
      <3>2. t \in Served
        BY SMTT(60), SMTT(120), <2>3, <3>1, MasterMessageIs, MsgIs
      <3> QED BY <2>2, <3>2 DEF MasterInv
    <2>4. ASSUME NEW t \in Tasks
          PROVE  /\ Msg("ASSIGN", t) \in M => state[t] = "CREATED"
                 /\ Msg("RETURN", t) \in M => state[t] \in {"BLOCKED", "READY", "ZOMBIE"}
      BY <2>2, <2>3, AtAssign, AtReturn
    <2>5. ASSUME NEW w \in Workers, NEW t \in Tasks
          PROVE  /\ Msg("ASSIGN", t) \in Range(mailbox[w]) => state[t] = "READY"
                 /\ Msg("WAKEUP", t) \notin Range(mailbox[w])
      <3>1. WorkerInv(m, M, w) BY <2>2 DEF MasterInv
      <3>2. Msg("WAKEUP", t) \notin Range(mailbox[w])
        BY <2>2, <3>1 DEF WorkerInv
      <3>3. ASSUME Msg("ASSIGN", t) \in Range(mailbox[w]) PROVE state[t] = "READY"
        <4>1. t \in Served BY <2>2, <3>1, <3>3 DEF WorkerInv, Given
        <4>2. TaskInv(m, M, t) BY <2>2, <4>1 DEF MasterInv
        <4> QED BY <2>2, <3>3, <4>2, AtGiven, CtxIs
      <3> QED BY <3>2, <3>3
    <2>6. ASSUME NEW c \in Wrappers, NEW t \in Tasks
          PROVE  /\ Msg("ASSIGN", t) \in Range(mailbox[c]) => state[t] = "CREATED"
                 /\ /\ Msg("WAKEUP", t) \in Range(mailbox[c])
                    /\ pc[c] = "recv" /\ current_task[c] = NULL
                    => state[t] = "BLOCKED"
      <3>1. CASE pc[c] = "exit"
        <4>1. mailbox[c] = <<>> BY <2>2, <3>1 DEF MasterInv, WrapperInv
        <4> QED BY SMTT(60), SMTT(120), <4>1 DEF Range
      <3>2. CASE pc[c] # "exit"
        <4>1. PICK u \in Wrapped : AtWrapper(m, c, u) BY <2>2, <3>2, WrapperIs
        <4>2. u \in Tasks /\ u # NULL BY CtxIs, HrcAssumption
        <4>3. /\ Msg("ASSIGN", t) = Msg("ASSIGN", u) => t = u
              /\ Msg("WAKEUP", t) = Msg("WAKEUP", u) => t = u
              /\ Msg("ASSIGN", t) # Msg("WAKEUP", u)
              /\ Msg("WAKEUP", t) # Msg("ASSIGN", u)
          BY SMTT(60), SMTT(120), MsgIs
        <4> QED BY <2>2, <4>1, <4>2, <4>3 DEF AtWrapper, Wraps, Woken
      <3> QED BY <3>1, <3>2
    <2>7. ASSUME NEW c \in Ctx, NEW t \in Tasks
          PROVE  /\ c >= 0 /\ Msg("ASSIGN", t) \in Range(mailbox[c]) => state[t] = "READY"
                 /\ c < 0 /\ Msg("ASSIGN", t) \in Range(mailbox[c]) => state[t] = "CREATED"
                 /\ /\ Msg("WAKEUP", t) \in Range(mailbox[c])
                    /\ pc[c] = "recv" /\ current_task[c] = NULL
                    => state[t] = "BLOCKED"
      <3>1. CASE c \in Workers
        <4>1. ~(c < 0) BY <3>1, CtxIs
        <4> QED BY <2>5, <3>1, <4>1
      <3>2. CASE c \in Wrappers
        <4>1. ~(c >= 0) BY <3>2, CtxIs
        <4> QED BY <2>6, <3>2, <4>1
      <3> QED BY <3>1, <3>2 DEF Ctx
    <2> QED BY <2>1, <2>4, <2>7 DEF StateAsExpected
  <1> QED BY <1>1, HrcInvariant, PTL

(* A wrapper in the free list is there once, has no message and no task:   *)
(* LpelCreateWrapperContext gives the next task a wrapper as if new.       *)
THEOREM FreeWrappersIdle == Spec => []FreeWrapperIdle
  <1>1. ASSUME IInv PROVE FreeWrapperIdle
    <2>1. PICK m, M : m = MasterState /\ M = Range(mastermb) OBVIOUS
    <2>2. TypeOK /\ FreeList /\ MasterInv(m, M) /\ m.mb = mailbox
      BY <1>1, <2>1, Parts
    <2>3. ASSUME NEW c \in Range(freewrappers)
          PROVE  /\ mailbox[c] = <<>> /\ pc[c] = "exit"
                 /\ \A t \in started : worker_context[t] = c => t \in freed
      <3>1. c \in Wrappers BY SMTT(60), SMTT(120), <2>2 DEF TypeOK, Range
      <3>2. /\ mailbox[c] = <<>> /\ pc[c] = "exit" /\ \A t \in Tasks : ~Owns(c, t)
        BY <2>2, <3>1 DEF MasterInv, WrapperInv
      <3>3. ASSUME NEW t \in started, worker_context[t] = c PROVE t \in freed
        <4>1. t \in Tasks BY <2>2 DEF TypeOK
        <4>2. CASE t \in Wrapped BY <3>2, <3>3, <4>1, <4>2 DEF Owns
        <4>3. CASE t \notin Wrapped
          <5>1. worker_context[t] \in Workers \cup {NULL}
            BY <2>2, <4>1, <4>3 DEF MasterInv, TaskInv, Served
          <5> QED BY <3>1, <3>3, <5>1, CtxIs
        <4> QED BY <4>2, <4>3
      <3> QED BY <3>2, <3>3
    <2>4. Distinct(freewrappers) BY <2>2 DEF FreeList
    <2> QED BY <2>3, <2>4 DEF FreeWrapperIdle, Distinct
  <1> QED BY <1>1, HrcInvariant, PTL

----------------------------------------------------------------------------
(* Counting messages and places *)

(* A message that is sent once is counted once. *)
LEMMA TimesIs ==
  ASSUME NEW s, Distinct(s), NEW x
  PROVE  Times(x, s) = One(x \in Range(s))
  <1>1. PICK S : S = {i \in DOMAIN s : s[i] = x} OBVIOUS
  <1>2. CASE x \in Range(s)
    <2>1. PICK i \in DOMAIN s : s[i] = x BY <1>2 DEF Range
    <2>2. S = {i} BY <1>1, <2>1 DEF Distinct
    <2> QED BY <1>1, <1>2, <2>2, FS_Singleton DEF Times, One
  <1>3. CASE x \notin Range(s)
    <2>1. S = {} BY <1>1, <1>3 DEF Range
    <2> QED BY <1>1, <1>3, <2>1, FS_EmptySet DEF Times, One
  <1> QED BY <1>2, <1>3

(* A started task is in one place, counted as NoTaskLost counts. *)
LEMMA LocatedOnce ==
  ASSUME IInv, NEW t \in started \ Wrapped, mpc = "clean" => state[t] # "CREATED"
  PROVE  Times(Msg("ASSIGN", t), mastermb) + Times(Msg("RETURN", t), mastermb)
           + One(t \in ready_tasks) + One(state[t] = "RETURNED")
           + Cardinality({c \in Workers : Msg("ASSIGN", t) \in Range(mailbox[c])})
           + Cardinality({c \in Workers : on[c] = t}) + One(t \in freed) = 1
  <1>1. PICK m, M : m = MasterState /\ M = Range(mastermb) OBVIOUS
  <1>2. TypeOK /\ MasterInv(m, M) /\ m.state = state BY <1>1, Parts
  <1>3. t \in Tasks /\ t \in Served BY <1>2 DEF TypeOK, Served
  <1>4. Located(m, M, t) BY <1>2, <1>3 DEF MasterInv, TaskInv
  <1>5. PICK G, O :
          /\ G = {c \in Workers : Msg("ASSIGN", t) \in Range(mailbox[c])}
          /\ O = {c \in Workers : on[c] = t}
    OBVIOUS
  <1>6. PICK a, r, q, h, f :
          /\ a = Times(Msg("ASSIGN", t), mastermb)
          /\ r = Times(Msg("RETURN", t), mastermb)
          /\ q = One(t \in ready_tasks) /\ h = One(state[t] = "RETURNED")
          /\ f = One(t \in freed)
    OBVIOUS
  <1>7. /\ Cardinality({}) = 0 /\ \A c : Cardinality({c}) = 1
    BY FS_EmptySet, FS_Singleton
  <1>8. /\ (Msg("ASSIGN", t) \in M => a = 1) /\ (Msg("ASSIGN", t) \notin M => a = 0)
        /\ (Msg("RETURN", t) \in M => r = 1) /\ (Msg("RETURN", t) \notin M => r = 0)
    <2>1. Distinct(mastermb) BY <1>2 DEF TypeOK
    <2>2. a = One(Msg("ASSIGN", t) \in M) /\ r = One(Msg("RETURN", t) \in M)
      BY <1>1, <1>6, <2>1, TimesIs
    <2> QED BY <2>2 DEF One
  <1>9. /\ (t \in m.ready => q = 1) /\ (t \notin m.ready => q = 0)
        /\ (state[t] = "RETURNED" => h = 1) /\ (state[t] # "RETURNED" => h = 0)
        /\ (t \in freed => f = 1) /\ (t \notin freed => f = 0)
    <2>1. m.ready = ready_tasks BY <1>1, Parts
    <2> QED BY <1>6, <2>1 DEF One
  <1>10. /\ G = Holders(m, Msg("ASSIGN", t)) \cap Workers
         /\ O = Ons(t) \cap Workers
    <2>1. m.mb = mailbox BY <1>1, Parts
    <2> QED BY <1>5, <2>1, CtxIs DEF Holders, Ons
  <1>11. SUFFICES a + r + q + h + Cardinality(G) + Cardinality(O) + f = 1
    BY <1>5, <1>6
  <1>12. CASE state[t] = "CREATED"
    <2>1. t \notin freed /\ At(m, M, t, TRUE, FALSE, {}, {})
      BY <1>2, <1>4, <1>12 DEF Located, At
    <2>2. a = 1 /\ r = 0 /\ G = {} /\ O = {} /\ q = 0 /\ h = 0 /\ f = 0
      BY <1>2, <1>8, <1>9, <1>10, <1>12, <2>1 DEF At
    <2> QED BY SMTT(60), SMTT(120), <1>7, <2>2
  <1>13. CASE state[t] \in {"INQUEUE", "RETURNED"}
    <2>1. t \notin freed /\ At(m, M, t, FALSE, FALSE, {}, {})
      BY <1>2, <1>4, <1>13 DEF Located
    <2>2. /\ a = 0 /\ r = 0 /\ G = {} /\ O = {} /\ f = 0
          /\ (q = 1 /\ h = 0) \/ (q = 0 /\ h = 1)
      BY <1>2, <1>8, <1>9, <1>10, <1>13, <2>1 DEF At
    <2> QED BY SMTT(60), SMTT(120), <1>7, <2>2
  <1>14. CASE state[t] \in {"READY", "RUNNING", "BLOCKED", "ZOMBIE"}
    <2>1. t \in m.ready <=> m.state[t] = "INQUEUE" BY <1>4 DEF Located, At
    <2>2. q = 0 /\ h = 0 BY <1>2, <1>9, <1>14, <2>1
    <2>3. CASE t \notin freed /\ \E c \in Workers : At(m, M, t, FALSE, FALSE, {c}, {})
      <3>1. PICK c \in Workers : At(m, M, t, FALSE, FALSE, {c}, {}) BY <2>3
      <3>2. G = {c} /\ O = {} /\ a = 0 /\ r = 0 /\ f = 0
        BY <1>8, <1>9, <1>10, <2>3, <3>1 DEF At
      <3>3. Cardinality(G) = 1 /\ Cardinality(O) = 0 BY <1>7, <3>2
      <3> QED BY SMTT(60), SMTT(120), <2>2, <3>2, <3>3
    <2>4. CASE t \notin freed /\ \E c \in Workers : At(m, M, t, FALSE, FALSE, {}, {c})
      <3>1. PICK c \in Workers : At(m, M, t, FALSE, FALSE, {}, {c}) BY <2>4
      <3>2. G = {} /\ O = {c} /\ a = 0 /\ r = 0 /\ f = 0
        BY <1>8, <1>9, <1>10, <2>4, <3>1 DEF At
      <3>3. Cardinality(G) = 0 /\ Cardinality(O) = 1 BY <1>7, <3>2
      <3> QED BY SMTT(60), SMTT(120), <2>2, <3>2, <3>3
    <2>5. CASE t \notin freed /\ At(m, M, t, FALSE, TRUE, {}, {})
      <3>1. G = {} /\ O = {} /\ a = 0 /\ r = 1 /\ f = 0
        BY <1>8, <1>9, <1>10, <2>5 DEF At
      <3> QED BY SMTT(60), SMTT(120), <1>7, <2>2, <3>1
    <2>6. CASE t \in freed /\ At(m, M, t, FALSE, FALSE, {}, {})
      <3>1. G = {} /\ O = {} /\ a = 0 /\ r = 0 /\ f = 1
        BY <1>8, <1>9, <1>10, <2>6 DEF At
      <3> QED BY SMTT(60), SMTT(120), <1>7, <2>2, <3>1
    <2> QED BY <1>2, <1>4, <1>14, <2>3, <2>4, <2>5, <2>6 DEF Located
  <1>15. state[t] \in States BY <1>2, <1>3, FieldsAre DEF MasterInv
  <1> QED BY <1>12, <1>13, <1>14, <1>15 DEF States

(* A started task of the master is in one place and a wakeup for it is     *)
(* kept once, whatever the order in which the requests, returns and        *)
(* wakeups reach the master, as long as LPEL has not been cleaned up; and  *)
(* after that, if LpelStop was called when the tasks had ended.            *)
THEOREM TasksAreKept == Spec => []((mpc = "clean" => ~StopEarly) => NoTaskLost)
  <1>1. ASSUME IInv, mpc = "clean" => ~StopEarly PROVE NoTaskLost
    <2>1. PICK m, M : m = MasterState /\ M = Range(mastermb) OBVIOUS
    <2>2. TypeOK /\ MasterInv(m, M) /\ StopInv /\ m.state = state
      BY <1>1, <2>1, Parts
    <2>3. mpc = "clean" => \A t \in Tasks : state[t] = "ZOMBIE"
      BY <1>1, <2>2 DEF StopInv
    <2>4. ASSUME NEW t \in started \ Wrapped
          PROVE  Times(Msg("WAKEUP", t), mastermb) + One(wakenup[t]) =
                   One(park[t] = "granted" /\ state[t] \in {"RUNNING", "BLOCKED", "RETURNED"})
      <3>1. t \in Tasks /\ t \in Served BY <2>2 DEF TypeOK, Served
      <3>2. Parked(m, M, t) BY <2>2, <3>1 DEF MasterInv, TaskInv
      <3>3. PICK k, h, g :
              /\ k = Times(Msg("WAKEUP", t), mastermb) /\ h = One(wakenup[t])
              /\ g = One(park[t] = "granted" /\ state[t] \in {"RUNNING", "BLOCKED", "RETURNED"})
        OBVIOUS
      <3>4. k = One(Msg("WAKEUP", t) \in M)
        BY <2>1, <2>2, <3>3, TimesIs DEF TypeOK
      <3>5. CASE wakenup[t]
        <4>1. /\ park[t] = "granted" /\ Msg("WAKEUP", t) \notin M
              /\ state[t] \in {"RUNNING", "BLOCKED"}
          BY <2>2, <3>2, <3>5 DEF Parked
        <4>2. k = 0 /\ h = 1 /\ g = 1 BY <3>3, <3>4, <3>5, <4>1 DEF One
        <4> QED BY SMTT(60), SMTT(120), <3>3, <4>2
      <3>6. CASE Msg("WAKEUP", t) \in M
        <4>1. /\ park[t] = "granted" /\ ~wakenup[t]
              /\ state[t] \in {"RUNNING", "BLOCKED", "RETURNED"}
          BY <2>2, <3>2, <3>6 DEF Parked
        <4>2. k = 1 /\ h = 0 /\ g = 1 BY <3>3, <3>4, <3>6, <4>1 DEF One
        <4> QED BY SMTT(60), SMTT(120), <3>3, <4>2
      <3>7. CASE ~wakenup[t] /\ Msg("WAKEUP", t) \notin M
        <4>1. ~(park[t] = "granted" /\ state[t] \in {"RUNNING", "BLOCKED", "RETURNED"})
          BY <2>2, <2>3, <3>1, <3>2, <3>7 DEF Parked
        <4>2. k = 0 /\ h = 0 /\ g = 0 BY <3>3, <3>4, <3>7, <4>1 DEF One
        <4> QED BY SMTT(60), SMTT(120), <3>3, <4>2
      <3> QED BY <3>5, <3>6, <3>7
    <2>5. ASSUME NEW t \in started \ Wrapped
          PROVE  mpc = "clean" => state[t] # "CREATED"
      BY <2>2, <2>3 DEF TypeOK
    <2> QED BY <1>1, <2>4, <2>5, LocatedOnce DEF NoTaskLost
  <1> QED BY <1>1, HrcInvariant, PTL

(* The request of a worker that runs no task is in one place: no worker    *)
(* waits for a task that nobody will send, and none is sent two.           *)
THEOREM RequestsAreKept == Spec => []OneRequestPerWorker
  <1>1. ASSUME IInv, NEW w \in Workers, pc[w] \notin {"start", "exit"}
        PROVE  Times(Msg("REQUEST", w), mastermb) + One(w \in waitworkers)
                 + Cardinality({t \in Tasks : Msg("ASSIGN", t) \in Range(mailbox[w])})
                 + One(pc[w] = "run") = 1
    <2>1. PICK m, M : m = MasterState /\ M = Range(mastermb) OBVIOUS
    <2>2. TypeOK /\ MasterInv(m, M) /\ m.mb = mailbox /\ m.wait = waitworkers
      BY <1>1, <2>1, Parts
    <2>3. WorkerInv(m, M, w) BY <2>2 DEF MasterInv
    <2>4. PICK k, h, g : /\ k = Times(Msg("REQUEST", w), mastermb)
                         /\ h = One(w \in waitworkers) /\ g = One(pc[w] = "run")
      OBVIOUS
    <2>5. Given(m, w) = {t \in Tasks : Msg("ASSIGN", t) \in Range(mailbox[w])}
      BY <2>2 DEF Given
    <2>6. k = One(Msg("REQUEST", w) \in M)
      BY <2>1, <2>2, <2>4, TimesIs DEF TypeOK
    <2>7. SUFFICES k + h + Cardinality(Given(m, w)) + g = 1 BY <2>4, <2>5
    <2>8. Cardinality({}) = 0 /\ \A t : Cardinality({t}) = 1
      BY FS_EmptySet, FS_Singleton
    <2>9. CASE pc[w] = "run"
      <3>1. Asks(m, M, w, FALSE, FALSE, {}) BY <2>3, <2>9 DEF WorkerInv
      <3>2. k = 0 /\ h = 0 /\ Given(m, w) = {} /\ g = 1
        BY <2>2, <2>4, <2>6, <2>9, <3>1 DEF Asks, One
      <3> QED BY SMTT(60), SMTT(120), <2>8, <3>2
    <2>10. CASE pc[w] \in {"recv", "back"}
      <3>1. g = 0 BY <2>4, <2>10 DEF One
      <3>2. CASE Asks(m, M, w, TRUE, FALSE, {})
        <4>1. k = 1 /\ h = 0 /\ Given(m, w) = {}
          BY <2>2, <2>4, <2>6, <3>2 DEF Asks, One
        <4> QED BY SMTT(60), SMTT(120), <2>8, <3>1, <4>1
      <3>3. CASE Asks(m, M, w, FALSE, TRUE, {})
        <4>1. k = 0 /\ h = 1 /\ Given(m, w) = {}
          BY <2>2, <2>4, <2>6, <3>3 DEF Asks, One
        <4> QED BY SMTT(60), SMTT(120), <2>8, <3>1, <4>1
      <3>4. CASE \E t \in Served : Asks(m, M, w, FALSE, FALSE, {t})
        <4>1. PICK t : k = 0 /\ h = 0 /\ Given(m, w) = {t}
          BY <2>2, <2>4, <2>6, <3>4 DEF Asks, One
        <4> QED BY SMTT(60), SMTT(120), <2>8, <3>1, <4>1
      <3> QED BY <2>3, <2>10, <3>2, <3>3, <3>4 DEF WorkerInv
    <2>11. pc[w] \in {"start", "recv", "run", "back", "exit"}
      BY <2>2, CtxIs DEF TypeOK
    <2> QED BY <1>1, <2>9, <2>10, <2>11
  <1>2. IInv => OneRequestPerWorker BY <1>1 DEF OneRequestPerWorker
  <1> QED BY <1>2, HrcInvariant, PTL

----------------------------------------------------------------------------
(* Work is conserved *)

Conserves(m) == m.wait # {} => \A t \in m.ready : ~m.valid[t]

(* No two entry tasks feed one task: updateNeighours serves one request,   *)
(* for the one task that may have become valid.                            *)
OneFeeder == \A a, b \in Entry : Feeds[a] = Feeds[b] => a = b

(* processTaskReady does not leave a worker waiting with work for it. *)
LEMMA ReadyConserves ==
  ASSUME NEW m \in MasterStates, NEW t \in Served, t \notin m.ready, Conserves(m)
  PROVE  Conserves(processTaskReady(m, t))
  <1>1. PICK u, n : u = LpelTaskUpdateValid(m, {t}) /\ n = processTaskReady(m, t)
    OBVIOUS
  <1>2. /\ Revalues(m, u)
        /\ \A x \in Tasks : x # t => u.valid[x] = m.valid[x]
    <2>1. /\ Revalues(m, u)
          /\ \A x \in Tasks :
               u.valid[x] = IF x \in {t} \cap Entry THEN x \notin over ELSE m.valid[x]
      BY SMTT(60), SMTT(120), <1>1, UpdateIs
    <2> QED BY <2>1
  <1>3. /\ u \in MasterStates /\ u.ready = m.ready /\ u.wait = m.wait
        /\ m.ready \subseteq Tasks
    BY <1>2, FieldsAre DEF Revalues, Served
  <1>4. u.wait # {} => \A x \in u.ready : ~u.valid[x]
    BY <1>2, <1>3 DEF Conserves
  <1>5. n = IF u.valid[t] /\ u.wait # {} THEN servePendingReq(u, t)
                                         ELSE LpelTaskqueuePush(u, t)
    BY <1>1 DEF processTaskReady
  <1>6. CASE u.valid[t] /\ u.wait # {}
    <2>1. PICK w : Sends(u, n, w, t) /\ n.valid = u.valid
      BY <1>3, <1>5, <1>6, ServeSends
    <2> QED BY <1>1, <1>4, <1>6, <2>1 DEF Sends, Conserves
  <1>7. CASE ~(u.valid[t] /\ u.wait # {})
    <2>1. Queues(u, n, t) /\ n.valid = u.valid BY <1>3, <1>5, <1>7, PushIs
    <2> QED BY <1>1, <1>4, <1>7, <2>1 DEF Queues, Conserves
  <1> QED BY <1>6, <1>7

(* Nor does updateNeighours, when one task at most can become valid by     *)
(* it.                                                                     *)
LEMMA NeighboursConserve ==
  ASSUME OneFeeder, NEW m \in MasterStates, NEW t, NEW n \in updateNeighours(m, t),
         Conserves(m)
  PROVE  Conserves(n) /\ n \in MasterStates /\ n.ready \subseteq m.ready
  <1>1. PICK S, u : /\ S = {e \in m.ready \cap Entry :
                              Feeds[e] = t /\ state[t] # "ZOMBIE"}
                    /\ u = LpelTaskUpdateValid(m, S)
    OBVIOUS
  <1>2. /\ Revalues(m, u)
        /\ \A x \in Tasks :
             u.valid[x] = IF x \in S \cap Entry THEN x \notin over ELSE m.valid[x]
    BY SMTT(60), SMTT(120), <1>1, UpdateIs
  <1>3. /\ u \in MasterStates /\ u.ready = m.ready /\ u.wait = m.wait
        /\ m.ready \subseteq Served /\ m.ready \subseteq Tasks
    BY <1>2, FieldsAre DEF Revalues, Served
  <1>4. CASE u.ready = {} \/ u.wait = {}
    <2>1. n = u BY <1>1, <1>4 DEF updateNeighours
    <2> QED BY <1>3, <1>4, <2>1 DEF Conserves
  <1>5. CASE u.ready # {} /\ u.wait # {}
    <2>1. PICK top \in LpelTaskqueuePeek(u) :
            n = IF u.valid[top]
                THEN LpelTaskqueueOccupyTask(servePendingReq(u, top), top) ELSE u
      BY <1>1, <1>5 DEF updateNeighours
    <2>2. top \in u.ready /\ (u.valid[top] \/ \A x \in u.ready : ~u.valid[x])
      BY <2>1, PeekIs
    <2>3. CASE u.valid[top]
      <3>1. PICK w : Sends(u, n, w, top) /\ n.valid = u.valid
        BY <1>3, <1>5, <2>1, <2>2, <2>3, ServeSends
      <3>2. ASSUME NEW x \in u.ready, u.valid[x] PROVE x = top
        <4>1. \A y \in u.ready : u.valid[y] => y \in S
          BY <1>2, <1>3, <1>5 DEF Conserves
        <4>2. x \in S /\ top \in S BY <2>2, <2>3, <3>2, <4>1
        <4> QED BY <1>1, <4>2 DEF OneFeeder
      <3> QED BY <1>3, <3>1, <3>2 DEF Sends, Conserves
    <2>4. CASE ~u.valid[top]
      BY <1>3, <2>1, <2>2, <2>4 DEF Conserves
    <2> QED BY <2>3, <2>4
  <1> QED BY <1>4, <1>5

(* Nor does the handler of ASSIGN. *)
LEMMA AssignConserves ==
  ASSUME NEW m \in MasterStates, NEW t \in Served, t \notin m.ready, Conserves(m),
         NEW n,
         n = IF m.wait # {} THEN servePendingReq(m, t) ELSE LpelTaskqueuePush(m, t)
  PROVE  Conserves(n)
  <1>1. CASE m.wait # {}
    <2>1. PICK w : Sends(m, n, w, t) /\ n.valid = m.valid BY <1>1, ServeSends
    <2> QED BY <1>1, <2>1 DEF Sends, Conserves
  <1>2. CASE m.wait = {}
    <2>1. Queues(m, n, t) BY <1>2, PushIs
    <2> QED BY <1>2, <2>1 DEF Queues, Conserves
  <1> QED BY <1>1, <1>2

(* Nor does processTaskReq. *)
LEMMA RequestConserves ==
  ASSUME NEW m \in MasterStates, NEW w \in Workers, NEW n \in processTaskReq(m, w),
         Conserves(m)
  PROVE  Conserves(n)
  <1>1. PICK k : k = [m EXCEPT !.wait = @ \cup {w}] OBVIOUS
  <1>2. k.ready = m.ready /\ k.valid = m.valid BY <1>1 DEF MasterStates
  <1>3. CASE m.ready = {}
    <2>1. n = k BY <1>1, <1>3 DEF processTaskReq
    <2> QED BY <1>2, <1>3, <2>1 DEF Conserves
  <1>4. ASSUME NEW t \in m.ready,
               n = LpelTaskqueueOccupyTask(SendTask(m, w, t), t)
        PROVE  n.ready = m.ready \ {t} /\ n.wait = m.wait /\ n.valid = m.valid
    <2>1. PICK s : s = SendTask(m, w, t) OBVIOUS
    <2>2. t \in Served BY FieldsAre
    <2>3. /\ s \in MasterStates /\ s.ready = m.ready /\ s.wait = m.wait
          /\ s.mb = [m.mb EXCEPT ![w] = Append(@, Msg("ASSIGN", t))]
          /\ s.state = [m.state EXCEPT ![t] = "READY"] /\ s.valid = m.valid
      BY SMTT(60), SMTT(120), <2>1, <2>2, SendIs
    <2>4. n.ready = s.ready \ {t} /\ n.wait = s.wait /\ n.valid = s.valid
      BY SMTT(60), SMTT(120), <1>4, <2>1, <2>3, OccupyIs
    <2> QED BY <2>3, <2>4
  <1>5. CASE m.ready # {}
    <2>1. PICK t \in LpelTaskqueuePeek(m) :
            n = IF m.valid[t] THEN LpelTaskqueueOccupyTask(SendTask(m, w, t), t)
                              ELSE k
      BY <1>1, <1>5 DEF processTaskReq
    <2>2. t \in m.ready /\ (m.valid[t] \/ \A u \in m.ready : ~m.valid[u])
      BY <2>1, PeekIs
    <2>3. CASE m.valid[t] BY <1>4, <2>1, <2>2, <2>3 DEF Conserves
    <2>4. CASE ~m.valid[t] BY <1>2, <2>1, <2>2, <2>4 DEF Conserves
    <2> QED BY <2>3, <2>4
  <1> QED BY <1>3, <1>5

(* Nor does a turn of MasterLoop. *)
LEMMA ConservesStep ==
  ASSUME OneFeeder, IInv, WorkConserving, MasterLoop
  PROVE  WorkConserving'
  <1>1. PICK m, M, N : m = MasterState /\ M = Range(mastermb) /\ N = Range(mastermb')
    OBVIOUS
  <1>2. PICK x : Handles(m, M, N, x) BY <1>1, HandlesIs
  <1>3. /\ m \in MasterStates /\ x = Head(mastermb) /\ m.ready = ready_tasks
        /\ m.wait = waitworkers /\ m.valid = valid /\ m.state = state
    BY <1>1, <1>2, Parts DEF Handles
  <1>4. Conserves(m) BY <1>3 DEF Conserves, WorkConserving
  <1>5. SUFFICES \E n : Become(n) /\ Conserves(n)
    BY DEF Become, Conserves, WorkConserving
  <1>6. CASE MasterAssign
    <2>1. PICK t, n : /\ t = x.body
                      /\ n = IF m.wait # {} THEN servePendingReq(m, t)
                                            ELSE LpelTaskqueuePush(m, t)
      OBVIOUS
    <2>2. x.type = "ASSIGN" /\ Become(n)
      BY <1>1, <1>3, <1>6, <2>1 DEF MasterAssign
    <2>3. t \in Served /\ x = Msg("ASSIGN", t) /\ TaskInv(m, M, t)
      BY SMTT(60), SMTT(120), <1>2, <2>1, <2>2, HandlesTask
    <2>4. t \notin m.ready
      BY SMTT(60), SMTT(120), <1>2, <2>3, AtAssign DEF Handles, At
    <2> QED BY <1>3, <1>4, <2>1, <2>2, <2>3, <2>4, AssignConserves
  <1>7. CASE MasterReturn
    <2>1. PICK t : t = x.body OBVIOUS
    <2>2. PICK k \in updateNeighours(m, t) :
            CASE state[t] = "BLOCKED" /\ ~wakenup[t] ->
                   Become([k EXCEPT !.state[t] = "RETURNED"])
              [] state[t] = "READY" \/ (state[t] = "BLOCKED" /\ wakenup[t]) ->
                   Become(processTaskReady(k, t))
              [] state[t] = "ZOMBIE" -> Become(k)
      BY <1>1, <1>3, <1>7, <2>1 DEF MasterReturn
    <2>3. x.type = "RETURN" BY <1>3, <1>7 DEF MasterReturn
    <2>4. t \in Served /\ x = Msg("RETURN", t) /\ TaskInv(m, M, t)
      BY SMTT(60), SMTT(120), <1>2, <2>1, <2>3, HandlesTask
    <2>5. t \notin m.ready /\ state[t] \in {"READY", "BLOCKED", "ZOMBIE"}
      BY SMTT(60), SMTT(120), <1>2, <1>3, <2>4, AtReturn DEF Handles, At
    <2>6. Conserves(k) /\ k \in MasterStates /\ k.ready \subseteq m.ready
      BY <1>3, <1>4, NeighboursConserve
    <2>7. Conserves(processTaskReady(k, t))
      BY <2>4, <2>5, <2>6, ReadyConserves
    <2>8. Conserves([k EXCEPT !.state[t] = "RETURNED"])
      <3>1. PICK n : n = [k EXCEPT !.state[t] = "RETURNED"] OBVIOUS
      <3>2. n.ready = k.ready /\ n.wait = k.wait /\ n.valid = k.valid
        BY <2>6, <3>1 DEF MasterStates
      <3> QED BY <2>6, <3>1, <3>2 DEF Conserves
    <2> QED BY <2>2, <2>5, <2>6, <2>7, <2>8
  <1>8. CASE MasterWakeup
    <2>1. PICK t : t = x.body OBVIOUS
    <2>2. /\ x.type = "WAKEUP"
          /\ IF state[t] # "RETURNED" THEN Become(m) ELSE Become(processTaskReady(m, t))
      BY <1>1, <1>3, <1>8, <2>1 DEF MasterWakeup
    <2>3. t \in Served /\ TaskInv(m, M, t) BY <1>2, <2>1, <2>2, HandlesTask
    <2>4. state[t] = "RETURNED" => t \notin m.ready
      BY <1>3, <2>3, AtReturned DEF At
    <2> QED BY <1>3, <1>4, <2>2, <2>3, <2>4, ReadyConserves
  <1>9. CASE MasterRequest
    <2>1. x.type = "REQUEST" /\ \E n \in processTaskReq(m, x.body) : Become(n)
      BY <1>1, <1>3, <1>9 DEF MasterRequest
    <2>2. x.body \in Workers BY <1>2, <2>1, MasterMessageIs DEF Handles
    <2> QED BY <1>3, <1>4, <2>1, <2>2, RequestConserves
  <1>10. CASE MasterTerminate BY <1>1, <1>4, <1>10 DEF MasterTerminate
  <1> QED BY <1>6, <1>7, <1>8, <1>9, <1>10 DEF MasterLoop

(* The other steps do not touch the queue of the master. *)
LEMMA QueueKept ==
  ASSUME Next, ~MasterLoop
  PROVE  UNCHANGED <<ready_tasks, waitworkers, valid>>
  <1>1. CASE MasterBroadcast BY <1>1 DEF MasterBroadcast, taskvars
  <1>2. ASSUME NEW c \in Ctx, Thread(c)
        PROVE  UNCHANGED <<ready_tasks, waitworkers, valid>>
    BY <1>2
       DEF Thread, WorkerFirst, WorkerAssign, WorkerReturn, WorkerTerminate,
                WrapperRun, WrapperRecv, WrapperExit, mastervars, taskvars
  <1>3. ASSUME NEW c \in Ctx, NEW t \in Tasks, TaskStep(c, t)
        PROVE  UNCHANGED <<ready_tasks, waitworkers, valid>>
    BY <1>3 DEF TaskStep, Decide, Demand, LpelTaskBlockStream, LpelTaskYield,
                LpelTaskExit, Leave, LpelTaskUnblock, mastervars, taskvars
  <1>4. CASE Program
    BY <1>4
       DEF Program, LpelTaskStart, StartWrapper, LpelStop, LpelWorkersCleanup,
                mastervars, taskvars
  <1>5. CASE Done BY <1>5 DEF Done, vars, mastervars, taskvars
  <1> QED BY <1>1, <1>2, <1>3, <1>4, <1>5 DEF Next, Master

(* No worker waits while a valid task is in the queue: the requests and    *)
(* the ready tasks meet in the master, whichever comes first, provided     *)
(* that no two entry tasks feed one task.                                  *)
THEOREM WorkIsConserved ==
  ASSUME OneFeeder
  PROVE  Spec => []WorkConserving
  <1>1. Init => WorkConserving BY DEF Init, WorkConserving
  <1>2. IInv /\ WorkConserving /\ [Next]_vars => WorkConserving'
    <2>1. SUFFICES ASSUME IInv, WorkConserving, [Next]_vars PROVE WorkConserving'
      OBVIOUS
    <2>2. CASE MasterLoop BY <2>1, <2>2, ConservesStep
    <2>3. CASE Next /\ ~MasterLoop BY <2>1, <2>3, QueueKept DEF WorkConserving
    <2>4. CASE UNCHANGED vars
      BY <2>1, <2>4 DEF WorkConserving, vars, mastervars, taskvars
    <2> QED BY <2>1, <2>2, <2>3, <2>4
  <1> QED BY <1>1, <1>2, HrcInvariant, PTL DEF Spec

----------------------------------------------------------------------------
(* The contract of TaskPark *)

(* A thread switches to a task that is not parking. *)
LEMMA SwitchParks ==
  ASSUME TypeOK, NEW c, NEW t \in Tasks, SwitchTo(c, t), park[t] # "parking"
  PROVE  [Park!Next]_park
  <1>1. park' = [park EXCEPT ![t] = "running"] BY DEF SwitchTo
  <1>2. CASE park[t] = "granted"
    <2>1. Park!Resume(t) BY <1>1, <1>2 DEF Park!Resume
    <2> QED BY <2>1 DEF Park!Next
  <1>3. CASE park[t] = "running" BY <1>1, <1>3 DEF TypeOK
  <1> QED BY <1>2, <1>3 DEF TypeOK

(* A worker that resumes a task takes a step of TaskPark. *)
LEMMA WorkerAssignParks ==
  ASSUME IInv, NEW c \in Ctx, WorkerAssign(c)
  PROVE  [Park!Next]_park
  <1>1. PICK m, M, x, t : /\ m = MasterState /\ M = Range(mastermb)
                          /\ x = Head(mailbox[c]) /\ t = x.body
    OBVIOUS
  <1>2. TypeOK /\ MasterInv(m, M) /\ BoxesOK(mailbox) /\ m.mb = mailbox
    BY <1>1, Parts
  <1>3. c \in Workers /\ mailbox[c] # <<>> /\ x.type = "ASSIGN" /\ SwitchTo(c, t)
    BY <1>1, CtxIs DEF WorkerAssign
  <1>4. x \in Messages /\ x \in Range(mailbox[c]) BY <1>1, <1>2, <1>3, Take
  <1>5. x = Msg("ASSIGN", t) /\ t \in Tasks
    BY <1>1, <1>3, <1>4, MessageIs, CtxIs
  <1>6. t \in Served
    BY <1>2, <1>3, <1>4, <1>5 DEF MasterInv, WorkerInv, Given
  <1>7. TaskInv(m, M, t) BY <1>2, <1>6 DEF MasterInv
  <1>8. m.state[t] = "READY" BY <1>2, <1>4, <1>5, <1>7, AtGiven
  <1>9. park[t] # "parking" BY <1>7, <1>8 DEF TaskInv, Parked
  <1> QED BY <1>2, <1>3, <1>5, <1>9, SwitchParks

(* A wrapper that resumes its task takes a step of TaskPark. *)
LEMMA WrapperRunParks ==
  ASSUME IInv, NEW c \in Ctx, WrapperRun(c)
  PROVE  [Park!Next]_park
  <1>1. PICK m, M, t : /\ m = MasterState /\ M = Range(mastermb)
                       /\ t = current_task[c]
    OBVIOUS
  <1>2. TypeOK /\ MasterInv(m, M) BY <1>1, Parts
  <1>3. /\ pc[c] = "recv" /\ c \in Wrappers /\ t # NULL /\ SwitchTo(c, t)
    BY <1>1, CtxIs DEF WrapperRun
  <1>4. PICK u \in Wrapped : AtWrapper(m, c, u) BY <1>2, <1>3, WrapperIs
  <1>5. u = t /\ park[t] # "parking" BY <1>1, <1>3, <1>4 DEF AtWrapper, Wraps
  <1>6. t \in Tasks BY <1>4, <1>5, HrcAssumption
  <1> QED BY <1>2, <1>3, <1>5, <1>6, SwitchParks

(* An operation of a task is a step of TaskPark, or none. *)
LEMMA TaskStepParks ==
  ASSUME NEW c \in Ctx, NEW t \in Tasks, TaskStep(c, t)
  PROVE  [Park!Next]_park
  <1>1. CASE Decide(c, t)
    <2>1. Park!Decide(t) BY <1>1 DEF Decide, Park!Decide
    <2> QED BY <2>1 DEF Park!Next
  <1>2. ASSUME NEW whom \in Tasks, LpelTaskUnblock(c, t, whom)
        PROVE  [Park!Next]_park
    <2>1. Park!Unblock(whom) BY <1>2 DEF LpelTaskUnblock, Park!Unblock
    <2> QED BY <2>1 DEF Park!Next
  <1>3. CASE Demand(c, t) BY <1>3 DEF Demand
  <1>4. CASE LpelTaskBlockStream(c, t) BY <1>4 DEF LpelTaskBlockStream
  <1>5. CASE LpelTaskYield(c, t) BY <1>5 DEF LpelTaskYield
  <1>6. CASE LpelTaskExit(c, t) BY <1>6 DEF LpelTaskExit
  <1> QED BY <1>1, <1>2, <1>3, <1>4, <1>5, <1>6 DEF TaskStep

(* Every step is a step of TaskPark, or none. *)
LEMMA NextParks ==
  ASSUME IInv, [Next]_vars
  PROVE  [Park!Next]_park
  <1>1. ASSUME NEW c \in Ctx, Thread(c) PROVE [Park!Next]_park
    <2>1. CASE WorkerAssign(c) BY <2>1, WorkerAssignParks
    <2>2. CASE WrapperRun(c) BY <2>2, WrapperRunParks
    <2>3. CASE WorkerFirst(c) BY <2>3 DEF WorkerFirst, envvars
    <2>4. CASE WorkerReturn(c) BY <2>4 DEF WorkerReturn, envvars
    <2>5. CASE WorkerTerminate(c) BY <2>5 DEF WorkerTerminate, envvars
    <2>6. CASE WrapperRecv(c) BY <2>6 DEF WrapperRecv, envvars
    <2>7. CASE WrapperExit(c) BY <2>7 DEF WrapperExit, envvars
    <2> QED BY <1>1, <2>1, <2>2, <2>3, <2>4, <2>5, <2>6, <2>7 DEF Thread
  <1>2. CASE Master BY <1>2 DEF Master, MasterLoop, MasterBroadcast, envvars
  <1>3. CASE Program
    BY <1>3
       DEF Program, LpelTaskStart, StartWrapper, LpelStop, LpelWorkersCleanup,
                envvars
  <1>4. CASE Done \/ UNCHANGED vars BY <1>4 DEF Done, vars, envvars
  <1> QED BY <1>1, <1>2, <1>3, <1>4, TaskStepParks DEF Next

(* The scheduler keeps the contract of TaskPark: a task that has blocked   *)
(* runs again only after LpelTaskUnblock, and once, whether a worker or a  *)
(* wrapper runs it.                                                        *)
THEOREM ParkContract == Spec => Park!Spec
  <1>1. Init => Park!Init BY DEF Init, Park!Init
  <1>2. IInv /\ [Next]_vars => [Park!Next]_park BY NextParks
  <1> QED BY <1>1, <1>2, HrcInvariant, PTL DEF Spec, Park!Spec
=============================================================================
