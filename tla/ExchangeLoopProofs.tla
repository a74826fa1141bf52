------------------------- MODULE ExchangeLoopProofs -------------------------
(***************************************************************************)
(* The deaths of any number of traders, seen as SIGCHLD, as a hang-up, or  *)
(* as both, are counted once each; and the exchange comes to no end that   *)
(* has not one of the causes it should have, whatever becomes of its       *)
(* queues.                                                                 *)
(***************************************************************************)
EXTENDS ExchangeLoop, FiniteSetTheorems, TLAPS

Positions == Starting \cup Over \cup {"top", "pausing", "usr", "popUsr", "storeUsr", "read",
                                      "blocked", "parse", "chld", "popChld", "storeChld", "poll",
                                      "polling"}
Alive == {t \in Traders : alive[t]}

\* While traders are being started, all but the current one have been connected.
StartedInTurn ==
  /\ pc \in {"fork", "open", "opening"} =>
       \A t \in Traders : process[t] # "unborn" => alive[t] \/ (pc # "fork" /\ t = current)
  /\ pc = "welcome" => /\ \A t \in Traders : alive[t]
                       /\ numActive = Cardinality(Traders)

\* SIGCHLD, pending, queued or in main's hands, tells of traders that have
\* exited.
NewsOfTheDead ==
  /\ pendingChld # None => process[pendingChld] = "exited"
  /\ \A i \in 0 .. Slots - 1 : chld.queue[i] # None => process[chld.queue[i]] = "exited"
  /\ pc \in {"popChld", "storeChld"} /\ current # None => process[current] = "exited"

\* Main reads messages of traders, and parses those of living ones.
MainHolds ==
  /\ pc \in {"read", "blocked", "parse"} => current \in Traders
  /\ pc = "parse" => alive[current]

IInv == TypeOK /\ StartedInTurn /\ NewsOfTheDead /\ MainHolds /\ DeathsCountedOnce /\ DeadAreGone

\* A set of traders is finite and no larger than that of all of them.
LEMMA AliveFinite ==
  ASSUME TypeOK
  PROVE  /\ IsFiniteSet(Alive) /\ Cardinality(Traders) \in Nat
         /\ Cardinality(Alive) \in 0 .. Cardinality(Traders)
<1>1. Alive \subseteq Traders
  BY DEF Alive
<1>2. IsFiniteSet(Alive) /\ Cardinality(Alive) <= Cardinality(Traders)
  BY <1>1, FS_Subset, ExchangeLoopAssumption
<1>3. Cardinality(Alive) \in Nat /\ Cardinality(Traders) \in Nat
  <2>1. IsFiniteSet(Traders)
    BY ExchangeLoopAssumption
  <2> QED
    BY <1>2, <2>1, FS_CardinalityType, Zenon
<1> QED
  BY <1>2, <1>3

\* An index that goes up by one, or back to 0, is an index.
LEMMA AdvancedType == \A i \in 0 .. Slots - 1 : Advanced(i) \in 0 .. Slots - 1
BY ExchangeLoopAssumption DEF Advanced

\* What a queue is after a handler's step, whatever was in it.
LEMMA PutType ==
  ASSUME NEW r \in Ring, NEW t \in Traders \cup {None}
  PROVE  /\ Put(r, t) \in Ring /\ Put(r, t).len = r.len + 1
         /\ Put(r, t).front = r.front /\ Put(r, t).back = Advanced(r.back)
         /\ \A i \in 0 .. Slots - 1 :
              Put(r, t).queue[i] = IF i = r.back THEN t ELSE r.queue[i]
<1>1. /\ r.queue \in [0 .. Slots - 1 -> Traders \cup {None}] /\ r.back \in 0 .. Slots - 1
      /\ r.front \in 0 .. Slots - 1 /\ r.len \in Int /\ Advanced(r.back) \in 0 .. Slots - 1
  BY AdvancedType DEF Ring
<1>2. /\ [r.queue EXCEPT ![r.back] = t] \in [0 .. Slots - 1 -> Traders \cup {None}]
      /\ \A i \in 0 .. Slots - 1 :
           [r.queue EXCEPT ![r.back] = t][i] = IF i = r.back THEN t ELSE r.queue[i]
  BY <1>1
<1>3. /\ Put(r, t).queue = [r.queue EXCEPT ![r.back] = t] /\ Put(r, t).front = r.front
      /\ Put(r, t).back = Advanced(r.back) /\ Put(r, t).len = r.len + 1
  BY DEF Put
<1>4. Put(r, t) \in Ring
  BY <1>1, <1>2 DEF Put, Ring
<1> QED
  BY <1>2, <1>3, <1>4

\* What it is after the first lines of a pop.
LEMMA GivenUpType ==
  ASSUME NEW r \in Ring
  PROVE  /\ GivenUp(r) \in Ring /\ GivenUp(r).len = r.len
         /\ GivenUp(r).front = Advanced(r.front) /\ GivenUp(r).back = r.back
         /\ \A i \in 0 .. Slots - 1 :
              GivenUp(r).queue[i] = IF i = r.front THEN None ELSE r.queue[i]
BY AdvancedType DEF GivenUp, Ring

\* No trader has been started.
LEMMA InitInvariant == Init => IInv
<1> SUFFICES ASSUME Init PROVE IInv
  OBVIOUS
<1>1. TypeOK
  <2>1. /\ process \in [Traders -> {"unborn", "started", "open", "closed", "exited"}]
        /\ pipe \in [Traders -> Seq(Messages)]
    BY DEF Init
  <2>4. EmptyRing \in Ring
    BY ExchangeLoopAssumption DEF EmptyRing, Ring
  <2>2. alive \in [Traders -> BOOLEAN] /\ eintr \in BOOLEAN /\ overrun \in BOOLEAN
    BY Zenon DEF Init
  <2>3. numActive \in 0 .. Cardinality(Traders)
    <3>1. IsFiniteSet(Traders)
      BY ExchangeLoopAssumption
    <3>2. Cardinality(Traders) \in Nat
      BY <3>1, FS_CardinalityType, Zenon
    <3> QED
      BY <3>2 DEF Init
  <2> QED
    BY <2>1, <2>2, <2>3, <2>4 DEF Init, TypeOK, Starting
<1>2. pc = "fork" /\ ~ Looping
  BY DEF Init, Looping, Starting
<1>3. StartedInTurn
  BY <1>2 DEF Init, StartedInTurn
<1>5. MainHolds
  BY <1>2 DEF MainHolds
<1>4. NewsOfTheDead
  BY DEF Init, NewsOfTheDead, EmptyRing
<1> QED
  BY <1>1, <1>2, <1>3, <1>4, <1>5 DEF IInv, DeathsCountedOnce, DeadAreGone
-----------------------------------------------------------------------------
\* The traders and the signals touch neither the register nor main, but to
\* interrupt it.
LEMMA InterruptPlaces ==
  ASSUME TypeOK, Running, Interrupt
  PROVE  /\ pc' \in Positions /\ eintr' \in BOOLEAN /\ errno' \in {"EINTR", "other"}
         /\ pc \in Starting => pc' = pc \/ pc' = "aborted"
         /\ pc \notin Starting => pc' \notin Starting \cup {"aborted", "completed"}
         /\ pc' \in {"popChld", "storeChld", "read", "blocked", "parse"} => pc' = pc
<1>1. /\ pc' \in Positions
      /\ pc \in Starting => pc' = pc \/ pc' = "aborted"
      /\ pc \notin Starting => pc' \notin Starting \cup {"aborted", "completed"}
      /\ pc' \in {"popChld", "storeChld", "read", "blocked", "parse"} => pc' = pc
  BY DEF Interrupt, TypeOK, Running, Positions, Starting, Over
<1>2. eintr' \in BOOLEAN
  BY Zenon DEF Interrupt, TypeOK
<1>3. errno' \in {"EINTR", "other"}
  BY DEF Interrupt, TypeOK
<1> QED
  BY <1>1, <1>2, <1>3

\* A trader's step.
LEMMA TraderKeeps ==
  ASSUME IInv, NEW t \in Traders, Trader(t)
  PROVE  IInv'
<1>1. UNCHANGED <<usr, chld, overrun, pc, current, msg, loaded, eintr, errno, alive, numActive>>
  BY DEF Trader, Send, Resend, Close, Exit, signals, locals, register
<1>2. TypeOK'
  <2>1. process' \in [Traders -> {"unborn", "started", "open", "closed", "exited"}]
    BY DEF IInv, TypeOK, Trader, Send, Resend, Close, Exit
  <2>2. pipe' \in [Traders -> Seq(Messages)]
    <3>1. pipe \in [Traders -> Seq(Messages)]
      BY DEF IInv, TypeOK
    <3>2. \/ pipe' = pipe
          \/ \E m \in Messages : pipe' = [pipe EXCEPT ![t] = Append(pipe[t], m)]
      BY DEF Trader, Send, Resend, Close, Exit
    <3>3. ASSUME NEW m \in Messages PROVE Append(pipe[t], m) \in Seq(Messages)
      BY <3>1
    <3> QED
      BY <3>1, <3>2, <3>3
  <2>4. sent' \in Nat /\ odd' \subseteq OddMessages \cup {"resend"}
    <3>1. sent \in Nat /\ odd \subseteq OddMessages \cup {"resend"}
      BY DEF IInv, TypeOK
    <3>2. sent' \in {sent, sent + 1}
      BY DEF Trader, Send, Resend, Close, Exit
    <3>3. \/ odd' = odd \/ odd' = odd \cup {"resend"}
          \/ \E m \in Messages : odd' = odd \cup ({m} \cap OddMessages)
      BY DEF Trader, Send, Resend, Close, Exit
    <3> QED
      BY <3>1, <3>2, <3>3
  <2>3. /\ pendingUsr' \in {pendingUsr, t} /\ pendingChld' \in {pendingChld, t}
    BY Zenon DEF Trader, Send, Resend, Close, Exit, Merged, signals
  <2> QED
    BY <1>1, <2>1, <2>2, <2>3, <2>4 DEF IInv, TypeOK
<1>3. \A u \in Traders : /\ process'[u] = "unborn" <=> process[u] = "unborn"
                         /\ process[u] = "exited" => process'[u] = "exited"
                         /\ Gone(u) => Gone(u)'
  BY DEF IInv, TypeOK, Trader, Send, Resend, Close, Exit, Gone
<1>4. pendingChld' = pendingChld \/ (pendingChld' = t /\ process'[t] = "exited")
  BY DEF IInv, TypeOK, Trader, Send, Resend, Close, Exit, Merged, signals
<1>5. NewsOfTheDead'
  <2>1. \A i \in 0 .. Slots - 1 : chld.queue[i] \in Traders \cup {None}
    BY DEF IInv, TypeOK, Ring
  <2>2. \A i \in 0 .. Slots - 1 : chld.queue[i] # None => process'[chld.queue[i]] = "exited"
    BY <1>3, <2>1 DEF IInv, NewsOfTheDead
  <2>3. pendingChld' # None => process'[pendingChld'] = "exited"
    BY <1>3, <1>4 DEF IInv, TypeOK, NewsOfTheDead
  <2>4. pc \in {"popChld", "storeChld"} /\ current # None => process'[current] = "exited"
    BY <1>3 DEF IInv, TypeOK, NewsOfTheDead
  <2> QED
    BY <1>1, <2>2, <2>3, <2>4 DEF NewsOfTheDead
<1>6. StartedInTurn'
  BY <1>1, <1>3 DEF IInv, StartedInTurn
<1>7. MainHolds' /\ DeathsCountedOnce' /\ DeadAreGone'
  BY <1>1, <1>3 DEF IInv, MainHolds, DeathsCountedOnce, DeadAreGone, Looping
<1> QED
  BY <1>2, <1>5, <1>6, <1>7 DEF IInv

\* A handler's step.
LEMMA SignalKeeps ==
  ASSUME IInv, Signal
  PROVE  IInv'
<1>1. /\ UNCHANGED <<process, pipe, sent, odd, current, msg, loaded, alive, numActive>>
      /\ Running /\ Interrupt
  BY DEF Signal, UsrHandler, ChldHandler, environment, locals, register
<1>2. /\ pendingUsr' \in {pendingUsr, None} /\ overrun' \in BOOLEAN
      /\ usr' = usr \/ (pendingUsr \in Traders /\ usr' = Put(usr, pendingUsr))
  <2>1. overrun' \in BOOLEAN
    BY Zenon DEF IInv, TypeOK, Signal, UsrHandler, ChldHandler
  <2> QED
    BY <2>1 DEF IInv, TypeOK, Signal, UsrHandler, ChldHandler
<1>3. /\ pendingChld' \in {pendingChld, None}
      /\ \/ chld' = chld
         \/ /\ pendingChld \in Traders /\ process[pendingChld] = "exited"
            /\ chld' = Put(chld, pendingChld)
  BY DEF IInv, TypeOK, NewsOfTheDead, Signal, UsrHandler, ChldHandler
<1>4. TypeOK'
  <2>1. usr' \in Ring /\ chld' \in Ring
    <3>1. usr \in Ring /\ chld \in Ring
      BY DEF IInv, TypeOK
    <3>2. usr' \in Ring
      BY <1>2, <3>1, PutType
    <3>3. chld' \in Ring
      BY <1>3, <3>1, PutType
    <3> QED
      BY <3>2, <3>3
  <2> QED
    BY <1>1, <1>2, <1>3, <2>1, InterruptPlaces DEF IInv, TypeOK, Positions
<1>5. NewsOfTheDead'
  <2>1. ASSUME NEW i \in 0 .. Slots - 1, chld'.queue[i] # None
        PROVE  process[chld'.queue[i]] = "exited"
    <3>1. chld \in Ring
      BY DEF IInv, TypeOK
    <3>2. chld'.queue[i] \in {chld.queue[i], pendingChld}
      BY <1>3, <3>1, PutType
    <3> QED
      BY <1>3, <2>1, <3>1, <3>2, PutType DEF IInv, NewsOfTheDead
  <2> QED
    BY <1>1, <1>3, <2>1, InterruptPlaces DEF IInv, NewsOfTheDead
<1>6. StartedInTurn'
  BY <1>1, InterruptPlaces DEF IInv, StartedInTurn, Starting
<1>7. MainHolds' /\ DeathsCountedOnce' /\ DeadAreGone'
  BY <1>1, InterruptPlaces
  DEF IInv, MainHolds, DeathsCountedOnce, DeadAreGone, Looping, Running, Over, Gone
<1> QED
  BY <1>4, <1>5, <1>6, <1>7 DEF IInv
-----------------------------------------------------------------------------
\* A step of main that leaves the traders' lives and deaths alone.
LEMMA CalmKeeps ==
  ASSUME IInv, TypeOK', NewsOfTheDead', MainHolds', UNCHANGED <<process, alive, numActive>>,
         pc \notin Starting \cup {"aborted", "completed"},
         pc' \notin Starting \cup {"aborted", "completed"}
  PROVE  IInv'
<1>1. StartedInTurn'
  BY DEF StartedInTurn, Starting
<1>2. DeathsCountedOnce' /\ DeadAreGone'
  BY DEF IInv, DeathsCountedOnce, DeadAreGone, Looping, Gone
<1> QED
  BY <1>1, <1>2 DEF IInv

\* Counting a death: trader_died removes one living trader, or nothing.
LEMMA DeathKeeps ==
  ASSUME IInv, NEW t \in Traders \cup {None}, t # None => Gone(t), pc \in {"storeChld", "polling"},
         NEW next \in {"chld", "top"}, TraderDied(t, next), process' = process
  PROVE  /\ alive' \in [Traders -> BOOLEAN] /\ numActive' \in 0 .. Cardinality(Traders)
         /\ errno' \in {"EINTR", "other"} /\ pc' \in {"completed", "chld", "top"}
         /\ DeathsCountedOnce' /\ DeadAreGone'
<1>1. /\ Looping /\ pc # "completed"
      /\ numActive = Cardinality(Alive) /\ numActive # 0
      /\ \A u \in Traders : ~ alive[u] => Gone(u)
  BY DEF IInv, DeathsCountedOnce, DeadAreGone, Looping, Starting, Alive
<1>2. /\ IsFiniteSet(Alive) /\ Cardinality(Traders) \in Nat
      /\ Cardinality(Alive) \in 0 .. Cardinality(Traders)
  BY AliveFinite DEF IInv
<1>3. /\ pc' = IF numActive' = 0 THEN "completed" ELSE next
      /\ pc' \in {"completed", "chld", "top"} /\ Looping'
  BY DEF TraderDied, Looping, Starting
<1>4. alive' \in [Traders -> BOOLEAN] /\ errno' \in {"EINTR", "other"}
  <2>1. alive \in [Traders -> BOOLEAN] /\ errno \in {"EINTR", "other"}
    BY DEF IInv, TypeOK
  <2>2. errno' \in {"EINTR", "other"}
    BY <2>1 DEF TraderDied
  <2>3. alive' = alive \/ alive' = [alive EXCEPT ![t] = FALSE]
    BY DEF TraderDied, register
  <2> QED
    BY <2>1, <2>2, <2>3
<1>5. numActive' = Cardinality(Alive') /\ numActive' \in 0 .. Cardinality(Traders)
  <2>1. CASE t # None /\ alive[t]
    <3>1. t \in Alive /\ alive' = [alive EXCEPT ![t] = FALSE] /\ numActive' = numActive - 1
      BY <2>1 DEF TraderDied, Alive
    <3>2. Alive' = Alive \ {t}
      BY <3>1 DEF IInv, TypeOK, Alive
    <3>3. Cardinality(Alive') = Cardinality(Alive) - 1
      BY <1>2, <3>1, <3>2, FS_RemoveElement
    <3>4. numActive \in 0 .. Cardinality(Traders) /\ numActive # 0
      BY <1>1, <1>2
    <3>5. numActive - 1 \in 0 .. Cardinality(Traders)
      BY <1>2, <3>4
    <3> QED
      BY <1>1, <3>1, <3>3, <3>5
  <2>2. CASE ~ (t # None /\ alive[t])
    BY <1>1, <1>2, <2>2 DEF TraderDied, register, Alive
  <2> QED
    BY <2>1, <2>2
<1>6. DeathsCountedOnce'
  BY <1>3, <1>5 DEF DeathsCountedOnce, Alive
<1>7. DeadAreGone'
  <2>1. \A u \in Traders : ~ alive'[u] => ~ alive[u] \/ (u = t /\ t # None)
    BY DEF IInv, TypeOK, TraderDied, register
  <2>2. \A u \in Traders : Gone(u) => Gone(u)'
    BY DEF Gone
  <2> QED
    BY <1>1, <2>1, <2>2 DEF DeadAreGone
<1> QED
  BY <1>3, <1>4, <1>5, <1>6, <1>7

\* The steps that start the exchange.
LEMMA StartKeeps ==
  ASSUME IInv,
         (\E t \in Traders : Fork(t)) \/ ForkFails \/ OpenPipes \/ Connect \/ AllForked \/ Welcome
  PROVE  IInv'
<1>1. CASE \E t \in Traders : Fork(t)
  <2>1. PICK t \in Traders : Fork(t)
    BY <1>1
  <2>2. /\ process' = [process EXCEPT ![t] = "started"] /\ current' = t /\ process[t] = "unborn"
        /\ pc = "fork" /\ pc' = "open"
        /\ UNCHANGED <<pipe, sent, odd, pendingUsr, pendingChld, usr, chld, overrun, msg, loaded,
                       eintr, errno, alive, numActive>>
    BY <2>1 DEF Fork, signals, register
  <2>3. TypeOK'
    BY <2>2 DEF IInv, TypeOK, Starting
  <2>4. StartedInTurn'
    BY <2>2 DEF IInv, TypeOK, StartedInTurn
  <2>5. \A u \in Traders : process[u] = "exited" => process'[u] = "exited"
    BY <2>2 DEF IInv, TypeOK
  <2>6. NewsOfTheDead'
    <3>1. /\ \A i \in 0 .. Slots - 1 : chld.queue[i] \in Traders \cup {None}
          /\ pendingChld \in Traders \cup {None}
      BY DEF IInv, TypeOK, Ring
    <3> QED
      BY <2>2, <2>5, <3>1 DEF IInv, NewsOfTheDead
  <2>7. ~ Looping'
    BY <2>2 DEF Looping, Starting
  <2>8. MainHolds'
    BY <2>2 DEF MainHolds
  <2> QED
    BY <2>3, <2>4, <2>6, <2>7, <2>8 DEF IInv, DeathsCountedOnce, DeadAreGone
<1>2. CASE ForkFails \/ OpenPipes
  <2>1. /\ pc \in Starting /\ pc' \in {"aborted", "opening"} /\ pc # "welcome"
        /\ errno' \in {errno, "other"}
        /\ UNCHANGED <<process, pipe, sent, odd, pendingUsr, pendingChld, usr, chld, overrun,
                       current, msg, loaded, eintr, alive, numActive>>
    BY <1>2 DEF ForkFails, OpenPipes, environment, signals, locals, register, Starting
  <2>2. TypeOK'
    BY <2>1 DEF IInv, TypeOK, Starting, Over
  <2>3. StartedInTurn' /\ NewsOfTheDead' /\ MainHolds'
    BY <1>2, <2>1 DEF IInv, StartedInTurn, NewsOfTheDead, MainHolds, ForkFails, OpenPipes
  <2>4. ~ Looping'
    BY <2>1 DEF Looping, Starting
  <2> QED
    BY <2>2, <2>3, <2>4 DEF IInv, DeathsCountedOnce, DeadAreGone
<1>3. CASE Connect
  <2>1. /\ process' = [process EXCEPT ![current] = "open"] /\ process[current] = "started"
        /\ alive' = [alive EXCEPT ![current] = TRUE] /\ pc = "opening" /\ pc' = "fork"
        /\ UNCHANGED <<pipe, sent, odd, pendingUsr, pendingChld, usr, chld, overrun, current, msg,
                       loaded, eintr, errno, numActive>>
    BY <1>3 DEF Connect, signals, locals
  <2>2. alive' \in [Traders -> BOOLEAN]
    BY <2>1 DEF IInv, TypeOK
  <2>3. TypeOK'
    BY <2>1, <2>2 DEF IInv, TypeOK, Starting
  <2>4. StartedInTurn'
    BY <2>1 DEF IInv, TypeOK, StartedInTurn
  <2>5. \A u \in Traders : process[u] = "exited" => process'[u] = "exited"
    BY <2>1 DEF IInv, TypeOK
  <2>6. NewsOfTheDead'
    <3>1. /\ \A i \in 0 .. Slots - 1 : chld.queue[i] \in Traders \cup {None}
          /\ pendingChld \in Traders \cup {None}
      BY DEF IInv, TypeOK, Ring
    <3> QED
      BY <2>1, <2>5, <3>1 DEF IInv, NewsOfTheDead
  <2>7. ~ Looping'
    BY <2>1 DEF Looping, Starting
  <2>8. MainHolds'
    BY <2>1 DEF MainHolds
  <2> QED
    BY <2>3, <2>4, <2>6, <2>7, <2>8 DEF IInv, DeathsCountedOnce, DeadAreGone
<1>4. CASE AllForked
  <2>1. /\ pc = "fork" /\ pc' = "welcome" /\ numActive' = Cardinality(Traders)
        /\ \A t \in Traders : process[t] # "unborn"
        /\ UNCHANGED <<process, pipe, sent, odd, pendingUsr, pendingChld, usr, chld, overrun,
                       current, msg, loaded, eintr, errno, alive>>
    BY <1>4 DEF AllForked, environment, signals, locals
  <2>2. Cardinality(Traders) \in Nat
    <3>1. IsFiniteSet(Traders)
      BY ExchangeLoopAssumption
    <3> QED
      BY <3>1, FS_CardinalityType, Zenon
  <2>3. numActive' \in 0 .. Cardinality(Traders)
    BY <2>1, <2>2
  <2>4. TypeOK'
    BY <2>1, <2>3 DEF IInv, TypeOK, Starting
  <2>5. StartedInTurn' /\ NewsOfTheDead' /\ MainHolds'
    BY <2>1 DEF IInv, StartedInTurn, NewsOfTheDead, MainHolds
  <2>6. ~ Looping'
    BY <2>1 DEF Looping, Starting
  <2> QED
    BY <2>4, <2>5, <2>6 DEF IInv, DeathsCountedOnce, DeadAreGone
<1>5. CASE Welcome
  <2>1. /\ pc = "welcome" /\ pc' \in {"top", "aborted"} /\ current' = None
        /\ UNCHANGED <<process, pipe, sent, odd, pendingUsr, pendingChld, usr, chld, overrun,
                       msg, loaded, eintr, errno, alive, numActive>>
    BY <1>5 DEF Welcome, WriteTo, environment, signals, register
  <2>2. TypeOK'
    BY <2>1 DEF IInv, TypeOK, Starting, Over
  <2>3. StartedInTurn' /\ NewsOfTheDead' /\ MainHolds'
    BY <2>1 DEF IInv, StartedInTurn, NewsOfTheDead, MainHolds
  <2>4. (\A t \in Traders : alive[t]) /\ numActive = Cardinality(Traders)
    BY <2>1 DEF IInv, StartedInTurn
  <2>5. {t \in Traders : alive[t]} = Traders
    BY <2>4
  <2>6. Cardinality(Traders) # 0
    BY FS_EmptySet, ExchangeLoopAssumption
  <2>7. DeathsCountedOnce' /\ DeadAreGone'
    BY <2>1, <2>4, <2>5, <2>6 DEF DeathsCountedOnce, DeadAreGone
  <2> QED
    BY <2>2, <2>3, <2>7 DEF IInv
<1> QED
  BY <1>1, <1>2, <1>3, <1>4, <1>5

\* The steps of the loop.
LEMMA LoopKeeps ==
  ASSUME IInv,
         \/ Top \/ TakeUsr \/ PopUsr \/ StoreUsr \/ UsrDone \/ Read \/ ReadNothing \/ ParseMsg
         \/ TakeChld \/ PopChld \/ StoreChld \/ ChldDone \/ Poll \/ Timeout
         \/ \E t \in Traders : HangUp(t)
  PROVE  IInv'
<1> USE DEF environment, signals, locals, register
<1>1. CASE Top \/ UsrDone \/ ReadNothing \/ ChldDone \/ Poll \/ Timeout
  <2>1. /\ pc \notin Starting \cup {"aborted", "completed"}
        /\ pc' \in Positions /\ pc' \notin Starting \cup {"aborted", "completed"}
        /\ pc' \notin {"popChld", "storeChld"}
    BY <1>1 DEF Top, UsrDone, ReadNothing, ChldDone, Poll, Timeout, Starting, Over, Positions
  <2>2. eintr' \in {eintr, TRUE, FALSE}
    BY <1>1 DEF Top, UsrDone, ReadNothing, ChldDone, Poll, Timeout
  <2>3. UNCHANGED <<process, pipe, sent, odd, pendingUsr, pendingChld, usr, chld, overrun,
                    current, msg, loaded, errno, alive, numActive>>
    BY <1>1 DEF Top, UsrDone, ReadNothing, ChldDone, Poll, Timeout
  <2>4. TypeOK'
    BY <2>1, <2>2, <2>3 DEF IInv, TypeOK, Positions
  <2>5. NewsOfTheDead' /\ MainHolds'
    BY <1>1, <2>1, <2>3
    DEF IInv, NewsOfTheDead, MainHolds, Top, UsrDone, ReadNothing, ChldDone, Poll, Timeout
  <2> QED
    BY <2>1, <2>3, <2>4, <2>5, CalmKeeps
<1>2. CASE ParseMsg
  <2>1. /\ pc = "parse" /\ pc' \in {"usr", "killed"} /\ current' = None /\ msg' = None
        /\ errno' \in {errno, "other"}
        /\ UNCHANGED <<process, pipe, sent, odd, pendingUsr, pendingChld, usr, chld, overrun,
                       loaded, eintr, alive, numActive>>
    BY <1>2 DEF ParseMsg, WriteTo
  <2>2. TypeOK' /\ NewsOfTheDead' /\ MainHolds'
    BY <2>1 DEF IInv, TypeOK, NewsOfTheDead, MainHolds, Starting, Over
  <2> QED
    BY <2>1, <2>2, CalmKeeps DEF Starting
<1>3. CASE TakeUsr
  <2>1. /\ current' = usr.queue[usr.front] /\ pc = "usr" /\ pc' = "popUsr"
        /\ UNCHANGED <<process, pipe, sent, odd, pendingUsr, pendingChld, usr, chld, overrun,
                       msg, loaded, eintr, errno, alive, numActive>>
    BY <1>3 DEF TakeUsr
  <2>2. current' \in Traders \cup {None}
    BY <2>1 DEF IInv, TypeOK, Ring
  <2>3. TypeOK' /\ NewsOfTheDead' /\ MainHolds'
    BY <2>1, <2>2 DEF IInv, TypeOK, NewsOfTheDead, MainHolds
  <2> QED
    BY <2>1, <2>3, CalmKeeps DEF Starting
<1>4. CASE PopUsr \/ StoreUsr
  <2>1. /\ pc \in {"popUsr", "storeUsr"} /\ pc' \in {"storeUsr", "killed", "read"}
        /\ pc' = "read" => current # None
        /\ UNCHANGED <<process, pipe, sent, odd, pendingUsr, pendingChld, chld, overrun,
                       current, msg, eintr, errno, alive, numActive>>
    BY <1>4 DEF PopUsr, StoreUsr
  <2>2. usr' \in Ring /\ loaded' \in Int
    <3>1. usr \in Ring /\ loaded \in Int /\ usr.len \in Int
      BY DEF IInv, TypeOK, Ring
    <3>2. [usr EXCEPT !.len = loaded - 1] \in Ring
      BY <3>1 DEF Ring
    <3> QED
      BY <1>4, <3>1, <3>2, GivenUpType DEF PopUsr, StoreUsr
  <2>3. TypeOK' /\ NewsOfTheDead' /\ MainHolds'
    BY <2>1, <2>2 DEF IInv, TypeOK, NewsOfTheDead, MainHolds, Starting, Over
  <2> QED
    BY <2>1, <2>3, CalmKeeps DEF Starting
<1>5. CASE Read
  <2>1. /\ pipe' = [pipe EXCEPT ![current] = Tail(pipe[current])] /\ pipe[current] # <<>>
        /\ msg' = Head(pipe[current]) /\ alive[current]
        /\ pc \in {"read", "blocked"} /\ pc' \in {"undefined", "killed", "parse"}
        /\ UNCHANGED <<process, sent, odd, pendingUsr, pendingChld, usr, chld, overrun, current,
                       loaded, eintr, errno, alive, numActive>>
    BY <1>5 DEF Read
  <2>2. current \in Traders => pipe' \in [Traders -> Seq(Messages)] /\ msg' \in Messages
    <3>1. pipe \in [Traders -> Seq(Messages)]
      BY DEF IInv, TypeOK
    <3>2. current \in Traders => /\ Tail(pipe[current]) \in Seq(Messages)
                                 /\ Head(pipe[current]) \in Messages
      BY <2>1, <3>1
    <3> QED
      BY <2>1, <3>1, <3>2
  <2>3. current \in Traders
    BY <2>1 DEF IInv, MainHolds
  <2>4. TypeOK' /\ NewsOfTheDead' /\ MainHolds'
    BY <2>1, <2>2, <2>3 DEF IInv, TypeOK, NewsOfTheDead, MainHolds, Starting, Over
  <2> QED
    BY <2>1, <2>4, CalmKeeps DEF Starting
<1>6. CASE TakeChld
  <2>1. /\ current' = chld.queue[chld.front] /\ pc = "chld" /\ pc' = "popChld"
        /\ UNCHANGED <<process, pipe, sent, odd, pendingUsr, pendingChld, usr, chld, overrun,
                       msg, loaded, eintr, errno, alive, numActive>>
    BY <1>6 DEF TakeChld
  <2>2. chld.front \in 0 .. Slots - 1 /\ current' \in Traders \cup {None}
    BY <2>1 DEF IInv, TypeOK, Ring
  <2>3. current' # None => process[current'] = "exited"
    BY <2>1, <2>2 DEF IInv, NewsOfTheDead
  <2>4. TypeOK' /\ NewsOfTheDead' /\ MainHolds'
    BY <2>1, <2>2, <2>3 DEF IInv, TypeOK, NewsOfTheDead, MainHolds
  <2> QED
    BY <2>1, <2>4, CalmKeeps DEF Starting
<1>7. CASE PopChld
  <2>1. /\ chld' = GivenUp(chld) /\ loaded' = chld.len /\ pc = "popChld" /\ pc' = "storeChld"
        /\ UNCHANGED <<process, pipe, sent, odd, pendingUsr, pendingChld, usr, overrun, current,
                       msg, eintr, errno, alive, numActive>>
    BY <1>7 DEF PopChld
  <2>2. chld \in Ring /\ loaded' \in Int
    BY <2>1 DEF IInv, TypeOK, Ring
  <2>3. /\ chld' \in Ring
        /\ \A i \in 0 .. Slots - 1 : chld'.queue[i] \in {None, chld.queue[i]}
    BY <2>1, <2>2, GivenUpType
  <2>4. NewsOfTheDead' /\ MainHolds'
    BY <2>1, <2>3 DEF IInv, NewsOfTheDead, MainHolds
  <2>5. TypeOK'
    BY <2>1, <2>2, <2>3 DEF IInv, TypeOK
  <2> QED
    BY <2>1, <2>4, <2>5, CalmKeeps DEF Starting
<1>8. CASE StoreChld
  <2>1. /\ chld' = [chld EXCEPT !.len = loaded - 1] /\ loaded' = 0 /\ current' = None
        /\ TraderDied(current, "chld") /\ pc = "storeChld"
        /\ UNCHANGED <<process, pipe, sent, odd, pendingUsr, pendingChld, usr, overrun, msg, eintr>>
    BY <1>8 DEF StoreChld
  <2>2. current \in Traders \cup {None} /\ (current # None => Gone(current))
    BY <2>1 DEF IInv, TypeOK, NewsOfTheDead, Gone
  <2>3. /\ alive' \in [Traders -> BOOLEAN] /\ numActive' \in 0 .. Cardinality(Traders)
        /\ errno' \in {"EINTR", "other"} /\ pc' \in {"completed", "chld", "top"}
        /\ DeathsCountedOnce' /\ DeadAreGone'
    BY <2>1, <2>2, DeathKeeps
  <2>4. chld' \in Ring /\ chld'.queue = chld.queue
    <3>1. chld \in Ring /\ loaded \in Int
      BY DEF IInv, TypeOK
    <3> QED
      BY <2>1, <3>1 DEF Ring
  <2>5. TypeOK'
    BY <2>1, <2>3, <2>4 DEF IInv, TypeOK, Starting, Over
  <2>6. NewsOfTheDead' /\ StartedInTurn' /\ MainHolds'
    BY <2>1, <2>3, <2>4 DEF IInv, NewsOfTheDead, StartedInTurn, MainHolds
  <2> QED
    BY <2>3, <2>5, <2>6 DEF IInv
<1>9. ASSUME NEW t \in Traders, HangUp(t) PROVE IInv'
  <2>1. /\ Gone(t) /\ TraderDied(t, "top") /\ pc = "polling"
        /\ UNCHANGED <<process, pipe, sent, odd, pendingUsr, pendingChld, usr, chld, overrun,
                       current, msg, loaded, eintr>>
    BY <1>9 DEF HangUp, HungUp
  <2>2. /\ alive' \in [Traders -> BOOLEAN] /\ numActive' \in 0 .. Cardinality(Traders)
        /\ errno' \in {"EINTR", "other"} /\ pc' \in {"completed", "chld", "top"}
        /\ DeathsCountedOnce' /\ DeadAreGone'
    BY <2>1, DeathKeeps
  <2>3. TypeOK'
    BY <2>1, <2>2 DEF IInv, TypeOK, Starting, Over
  <2>4. NewsOfTheDead' /\ StartedInTurn' /\ MainHolds'
    BY <2>1, <2>2 DEF IInv, NewsOfTheDead, StartedInTurn, MainHolds
  <2> QED
    BY <2>2, <2>3, <2>4 DEF IInv
<1> QED
  BY <1>1, <1>2, <1>3, <1>4, <1>5, <1>6, <1>7, <1>8, <1>9
-----------------------------------------------------------------------------
\* The inductive invariant of the exchange and its traders.
THEOREM LoopInvariant == Spec => []IInv
<1>1. IInv /\ [Next]_vars => IInv'
  <2> SUFFICES ASSUME IInv, [Next]_vars PROVE IInv'
    OBVIOUS
  <2>1. ASSUME NEW t \in Traders, Trader(t) PROVE IInv'
    BY <2>1, TraderKeeps
  <2>2. CASE Signal
    BY <2>2, SignalKeeps
  <2>3. CASE Connect \/ Main
    BY <2>3, StartKeeps, LoopKeeps DEF Main
  <2>4. CASE UNCHANGED vars
    BY <2>4 DEF IInv, TypeOK, StartedInTurn, NewsOfTheDead, MainHolds, DeathsCountedOnce,
                DeadAreGone, Looping, Gone, vars, environment, signals, locals, register
  <2> QED
    BY <2>1, <2>2, <2>3, <2>4 DEF Next
<1> QED
  BY InitInvariant, <1>1, PTL DEF Spec

\* The state of the loop keeps its shape; num_active never leaves its range.
THEOREM TypeCorrect == Spec => []TypeOK
<1>1. IInv => TypeOK
  BY DEF IInv
<1> QED
  BY <1>1, LoopInvariant, PTL

\* num_active is the number of traders not yet declared dead, however their
\* deaths are noticed, and trading is completed exactly when it is 0.
THEOREM CountedOnce == Spec => []DeathsCountedOnce
<1>1. IInv => DeathsCountedOnce
  BY DEF IInv
<1> QED
  BY <1>1, LoopInvariant, PTL

\* No trader is declared dead that still holds its pipes.
THEOREM NoneDeclaredDeadAlive == Spec => []DeadAreGone
<1>1. IInv => DeadAreGone
  BY DEF IInv
<1> QED
  BY <1>1, LoopInvariant, PTL
-----------------------------------------------------------------------------
(* The causes of an end *)

\* The k-th slot from f on, around the corner.
Slot(f, k) == IF f + k < Slots THEN f + k ELSE f + k - Slots

\* As long as no unread entry of usr is overwritten, its entries fill n slots
\* from front on, and no length that main sees or has loaded is more than that.
Filled(n) ==
  /\ usr.back = Slot(usr.front, n)
  /\ \A k \in 0 .. Slots - 1 : usr.queue[Slot(usr.front, k)] # None <=> k < n
  /\ usr.len <= n + (IF pc = "storeUsr" THEN 1 ELSE 0)
  /\ pc = "popUsr" => n > 0
  /\ pc = "storeUsr" => loaded <= n + 1

UsrHolds ==
  ~ overrun => /\ \E n \in 0 .. Slots : Filled(n)
               /\ pc \in {"popUsr", "storeUsr"} => current # None

Same(a, b) == IF a = b THEN 1 ELSE 0

\* The slots with a signal of trader t; main has already read the one it clears.
Held(t) == {i \in 0 .. Slots - 1 : usr.queue[i] = t /\ ~ (pc = "popUsr" /\ i = usr.front)}

\* The messages of trader t that main is going to read, for the signals of t
\* that are pending, queued, or being attended to.
Promised(t) ==
  Cardinality(Held(t)) + Same(pendingUsr, t)
    + (IF pc \in {"popUsr", "storeUsr", "read"} THEN Same(current, t) ELSE 0)

\* A message comes before its signal, and signals that merge, are overwritten
\* or go uncounted leave messages unread, but no read without a message.
PromisesCovered ==
  "resend" \notin odd => /\ pc # "blocked"
                        /\ \A t \in Traders : Promised(t) <= Len(pipe[t])

\* Main gets no odd message that was not sent.
OddKnown ==
  /\ \A t \in Traders : \A i \in 1 .. Len(pipe[t]) : pipe[t][i] \in OddMessages => pipe[t][i] \in odd
  /\ pc = "parse" /\ msg \in OddMessages => msg \in odd

\* What the interrupt that ended the first pause has left in errno stays there
\* but for two causes.
ErrnoKnown ==
  Looping /\ (pc \notin {"top", "pausing"} \/ eintr) =>
    errno = "EINTR" \/ "huge" \in odd \/ \E t \in Traders : ~ alive[t]

\* Traders wait for MARKET OPEN.
QuietStart == pc \in Starting => pendingUsr = None /\ ~ eintr

Causes == UsrHolds /\ PromisesCovered /\ OddKnown /\ ErrnoKnown /\ QuietStart /\ EndsHaveCauses

\* How the slots follow one another, and that Slots of them in a row are all
\* different, so that the one after them is the first again.
LEMMA SlotsInARow ==
  ASSUME NEW f \in 0 .. Slots - 1
  PROVE  /\ Slot(f, 0) = f /\ Slot(f, Slots) = f
         /\ \A k \in 0 .. Slots : Slot(f, k) \in 0 .. Slots - 1
         /\ \A k \in 0 .. Slots - 1 : /\ Advanced(Slot(f, k)) = Slot(f, k + 1)
                                     /\ Slot(Advanced(f), k) = Slot(f, k + 1)
         /\ \A j, k \in 0 .. Slots - 1 : Slot(f, j) = Slot(f, k) => j = k
BY ExchangeLoopAssumption DEF Slot, Advanced

\* A set of slots with one more, or one less.
LEMMA SlotSets ==
  ASSUME NEW A, NEW B, NEW x, A \subseteq 0 .. Slots - 1, B \subseteq A \cup {x}
  PROVE  /\ IsFiniteSet(A) /\ Cardinality(A) \in Nat
         /\ IsFiniteSet(B) /\ Cardinality(B) \in Nat
         /\ Cardinality(B) <= Cardinality(A) + 1
         /\ B \subseteq A => Cardinality(B) <= Cardinality(A)
         /\ B \subseteq A /\ x \in A \ B => Cardinality(B) + 1 <= Cardinality(A)
<1>1. IsFiniteSet(0 .. Slots - 1)
  BY FS_Interval, ExchangeLoopAssumption
<1>2. IsFiniteSet(A) /\ Cardinality(A) \in Nat
  BY <1>1, FS_Subset, FS_CardinalityType
<1>3. /\ IsFiniteSet(A \cup {x}) /\ Cardinality(A \cup {x}) \in Nat
      /\ Cardinality(A \cup {x}) <= Cardinality(A) + 1
  <2>1. CASE x \in A
    <3>1. A \cup {x} = A
      BY <2>1
    <3>2. Cardinality(A \cup {x}) = Cardinality(A) /\ IsFiniteSet(A \cup {x})
      BY <1>2, <3>1, Zenon
    <3> QED
      BY <1>2, <3>2
  <2>2. CASE x \notin A
    <3>1. IsFiniteSet(A \cup {x}) /\ Cardinality(A \cup {x}) = Cardinality(A) + 1
      BY <1>2, <2>2, FS_AddElement
    <3> QED
      BY <1>2, <3>1
  <2> QED
    BY <2>1, <2>2
<1>4. IsFiniteSet(B) /\ Cardinality(B) \in Nat /\ Cardinality(B) <= Cardinality(A \cup {x})
  BY <1>3, FS_Subset, FS_CardinalityType
<1>5. B \subseteq A => Cardinality(B) <= Cardinality(A)
  BY <1>2, FS_Subset
<1>6. ASSUME B \subseteq A, x \in A \ B PROVE Cardinality(B) + 1 <= Cardinality(A)
  <2>1. IsFiniteSet(A \ {x}) /\ Cardinality(A \ {x}) = Cardinality(A) - 1
    BY <1>2, <1>6, FS_RemoveElement
  <2>2. B \in SUBSET (A \ {x})
    BY <1>6
  <2>3. Cardinality(B) <= Cardinality(A \ {x})
    BY <2>1, <2>2, FS_Subset
  <2> QED
    BY <1>2, <1>4, <2>1, <2>3
<1> QED
  BY <1>2, <1>3, <1>4, <1>5, <1>6

\* The counts are numbers.
LEMMA PromisedType ==
  ASSUME TypeOK, NEW t
  PROVE  /\ Held(t) \subseteq 0 .. Slots - 1 /\ Cardinality(Held(t)) \in Nat /\ Promised(t) \in Nat
         /\ Same(pendingUsr, t) \in {0, 1} /\ Same(current, t) \in {0, 1}
<1>1. Held(t) \subseteq 0 .. Slots - 1
  BY DEF Held
<1>2. Cardinality(Held(t)) \in Nat
  BY <1>1, SlotSets
<1>3. Same(pendingUsr, t) \in {0, 1} /\ Same(current, t) \in {0, 1}
  BY DEF Same
<1> QED
  BY <1>1, <1>2, <1>3 DEF Promised
-----------------------------------------------------------------------------
\* A message comes with one signal.
LEMMA SendCauses ==
  ASSUME IInv, Causes, NEW t \in Traders, NEW m \in Messages, Send(t, m)
  PROVE  Causes'
<1> DEFINE p == pipe[t]
<1>1. /\ UNCHANGED <<process, usr, overrun, pc, current, msg, loaded, eintr, errno, alive>>
      /\ pipe' = [pipe EXCEPT ![t] = Append(p, m)] /\ Running /\ pc \notin Starting
      /\ odd' = odd \cup ({m} \cap OddMessages) /\ pendingUsr' = Merged(pendingUsr, t)
  BY DEF Send, locals, register
<1>2. p \in Seq(Messages) /\ pipe \in [Traders -> Seq(Messages)] /\ Len(p) \in Nat
  BY DEF IInv, TypeOK
<1>3. /\ pipe'[t] = Append(p, m) /\ Len(Append(p, m)) = Len(p) + 1
      /\ \A i \in 1 .. Len(p) : Append(p, m)[i] = p[i]
      /\ Append(p, m)[Len(p) + 1] = m
      /\ \A u \in Traders : u # t => pipe'[u] = pipe[u]
  BY <1>1, <1>2
<1>4. UsrHolds'
  BY <1>1 DEF Causes, UsrHolds, Filled
<1>5. PromisesCovered'
  <2> SUFFICES ASSUME "resend" \notin odd' PROVE PromisesCovered'
    BY DEF PromisesCovered
  <2>1. pc # "blocked" /\ \A u \in Traders : Promised(u) <= Len(pipe[u])
    BY <1>1 DEF Causes, PromisesCovered
  <2>2. ASSUME NEW u \in Traders PROVE Promised(u)' <= Len(pipe'[u])
    <3>1. /\ Promised(u) \in Nat /\ Cardinality(Held(u)) \in Nat /\ Same(t, u) \in {0, 1}
          /\ Same(pendingUsr, u) \in {0, 1} /\ Same(current, u) \in {0, 1}
      BY PromisedType DEF IInv, Same
    <3>2. Same(pendingUsr, u)' \in {Same(pendingUsr, u), Same(t, u)}
      BY <1>1 DEF Same, Merged
    <3>3. Held(u)' = Held(u) /\ Same(current, u)' = Same(current, u)
      BY <1>1 DEF Held, Same
    <3>4. Promised(u)' = Cardinality(Held(u)) + Same(pendingUsr, u)'
              + (IF pc \in {"popUsr", "storeUsr", "read"} THEN Same(current, u) ELSE 0)
      BY <1>1, <3>3 DEF Promised
    <3>5. Promised(u)' <= Promised(u) + Same(t, u)
      BY <3>1, <3>2, <3>4 DEF Promised
    <3>6. Promised(u)' \in Nat
      BY <3>1, <3>2, <3>4
    <3>7. Len(pipe'[u]) = Len(pipe[u]) + Same(t, u) /\ Len(pipe[u]) \in Nat
      BY <1>2, <1>3 DEF Same
    <3> HIDE DEF Promised
    <3> QED
      BY <2>1, <3>1, <3>5, <3>6, <3>7
  <2> HIDE DEF Promised
  <2> QED
    BY <1>1, <2>1, <2>2 DEF PromisesCovered
<1>6. OddKnown'
  <2>1. ASSUME NEW u \in Traders, NEW i \in 1 .. Len(pipe'[u]), pipe'[u][i] \in OddMessages
        PROVE  pipe'[u][i] \in odd'
    <3>1. CASE u = t
      <4>1. i \in 1 .. Len(p) \/ i = Len(p) + 1
        BY <1>2, <1>3, <2>1, <3>1
      <4> QED
        BY <1>1, <1>3, <2>1, <3>1, <4>1 DEF Causes, OddKnown
    <3>2. CASE u # t
      BY <1>1, <1>3, <2>1, <3>2 DEF Causes, OddKnown
    <3> QED
      BY <3>1, <3>2
  <2> QED
    BY <1>1, <2>1 DEF Causes, OddKnown
<1>7. ErrnoKnown' /\ QuietStart' /\ EndsHaveCauses'
  BY <1>1 DEF Causes, ErrnoKnown, QuietStart, EndsHaveCauses, Looping, Running, Over
<1> QED
  BY <1>4, <1>5, <1>6, <1>7 DEF Causes

\* Whoever signals in vain, or leaves, is one of the causes.
LEMMA TraderCauses ==
  ASSUME IInv, Causes, NEW t \in Traders, Trader(t)
  PROVE  Causes'
<1>1. CASE Resend(t)
  <2>1. /\ UNCHANGED <<process, pipe, usr, overrun, pc, current, msg, loaded, eintr, errno, alive>>
        /\ odd' = odd \cup {"resend"} /\ Running /\ pc \notin Starting
    BY <1>1 DEF Resend, locals, register
  <2>2. UsrHolds' /\ OddKnown'
    BY <2>1 DEF Causes, UsrHolds, Filled, OddKnown
  <2>3. PromisesCovered'
    BY <2>1 DEF PromisesCovered
  <2>4. ErrnoKnown' /\ QuietStart' /\ EndsHaveCauses'
    BY <2>1 DEF Causes, ErrnoKnown, QuietStart, EndsHaveCauses, Looping, Running, Over
  <2> QED
    BY <2>2, <2>3, <2>4 DEF Causes
<1>2. CASE Close(t) \/ Exit(t)
  <2>1. /\ UNCHANGED <<pipe, odd, pendingUsr, usr, overrun, pc, current, msg, loaded, eintr, errno,
                       alive>>
        /\ Running
    BY <1>2 DEF Close, Exit, signals, locals, register
  <2>2. UsrHolds' /\ OddKnown'
    BY <2>1 DEF Causes, UsrHolds, Filled, OddKnown
  <2>3. PromisesCovered'
    BY <2>1 DEF Causes, PromisesCovered, Promised, Held
  <2>4. ErrnoKnown' /\ QuietStart' /\ EndsHaveCauses'
    BY <2>1 DEF Causes, ErrnoKnown, QuietStart, EndsHaveCauses, Looping, Running, Over
  <2> QED
    BY <2>2, <2>3, <2>4 DEF Causes
<1> QED
  BY <1>1, <1>2, SendCauses DEF Trader

\* A step that reads and sends no message, and promises none, keeps what is
\* promised.
LEMMA LessPromised ==
  ASSUME IInv, Causes, UNCHANGED <<pipe, odd>>, pc' # "blocked",
         \A t \in Traders : Promised(t)' <= Promised(t)
  PROVE  PromisesCovered'
<1> SUFFICES ASSUME "resend" \notin odd, NEW t \in Traders PROVE Promised(t)' <= Len(pipe[t])
  BY DEF PromisesCovered
<1>1. Promised(t) <= Len(pipe[t]) /\ Promised(t)' <= Promised(t)
  BY DEF Causes, PromisesCovered
<1>2. Promised(t) \in Nat /\ Len(pipe[t]) \in Nat
  <2>1. pipe[t] \in Seq(Messages)
    BY DEF IInv, TypeOK
  <2> QED
    BY <2>1, PromisedType DEF IInv
<1>3. Promised(t)' \in Nat
  <2>1. Held(t)' \subseteq 0 .. Slots - 1
    BY DEF Held
  <2>2. Cardinality(Held(t)') \in Nat
    BY <2>1, SlotSets
  <2> QED
    BY <2>2 DEF Promised, Same
<1> HIDE DEF Promised
<1> QED
  BY <1>1, <1>2, <1>3
-----------------------------------------------------------------------------
\* The handler fills the slot behind those that are filled; if there is none
\* free, it overwrites the first.
LEMMA HandlerFills ==
  ASSUME IInv, Causes, UsrHandler
  PROVE  UsrHolds'
<1> SUFFICES ASSUME ~ overrun' PROVE UsrHolds'
  BY DEF UsrHolds
<1> DEFINE f == usr.front
<1>1. /\ usr' = Put(usr, pendingUsr) /\ pendingUsr \in Traders /\ pendingUsr # None
      /\ ~ overrun /\ usr.queue[usr.back] = None /\ usr \in Ring
      /\ UNCHANGED <<current, loaded>> /\ Running /\ Interrupt
  BY ExchangeLoopAssumption DEF UsrHandler, locals, IInv, TypeOK
<1>2. pc' \in {"popUsr", "storeUsr"} \/ pc \in {"popUsr", "storeUsr"} => pc' = pc
  BY <1>1 DEF Interrupt
<1>3. PICK n \in 0 .. Slots : Filled(n)
  BY <1>1 DEF Causes, UsrHolds
<1>4. /\ f \in 0 .. Slots - 1 /\ usr.back \in 0 .. Slots - 1 /\ Slots \in Nat \ {0} /\ usr.len \in Int
      /\ usr'.front = f /\ usr'.back = Advanced(usr.back) /\ usr'.len = usr.len + 1
      /\ \A i \in 0 .. Slots - 1 :
           usr'.queue[i] = IF i = usr.back THEN pendingUsr ELSE usr.queue[i]
  BY <1>1, PutType, ExchangeLoopAssumption DEF Ring
<1>3a. /\ usr.back = Slot(f, n)
       /\ \A k \in 0 .. Slots - 1 : usr.queue[Slot(f, k)] # None <=> k < n
  BY <1>3 DEF Filled
<1> HIDE DEF f
<1>3b. /\ Slot(f, 0) = Slot(f, Slots)
       /\ \A k \in 0 .. Slots - 1 : /\ Advanced(Slot(f, k)) = Slot(f, k + 1)
                                     /\ Slot(f, k) \in 0 .. Slots - 1
       /\ \A j, k \in 0 .. Slots - 1 : Slot(f, j) = Slot(f, k) => j = k
  <2>1. f \in 0 .. Slots - 1 /\ Slots \in Nat \ {0}
    BY <1>4
  <2> QED
    BY <2>1 DEF Slot, Advanced
<1>5. n \in 0 .. Slots - 1
  <2>1. ASSUME n = Slots PROVE FALSE
    <3>1. usr.back = Slot(f, Slots) /\ Slot(f, Slots) = Slot(f, 0)
      BY <1>3a, <1>3b, <2>1
    <3>2. usr.queue[Slot(f, 0)] # None
      BY <1>4, <1>3a, <2>1
    <3> QED
      BY <1>1, <3>1, <3>2
  <2> QED
    BY <1>3, <1>4, <2>1
<1>6. usr'.back = Slot(f, n + 1)
  BY <1>4, <1>5, <1>3a, <1>3b
<1>7. ASSUME NEW k \in 0 .. Slots - 1 PROVE usr'.queue[Slot(f, k)] # None <=> k < n + 1
  <2>1. usr.back = Slot(f, n) /\ (usr.queue[Slot(f, k)] # None <=> k < n)
    BY <1>3a
  <2>2. Slot(f, k) \in 0 .. Slots - 1 /\ (Slot(f, k) = usr.back => k = n)
    BY <1>5, <1>3b, <2>1
  <2>3. CASE k = n
    BY <1>1, <1>4, <1>5, <2>1, <2>2, <2>3
  <2>4. CASE k # n
    <3>1. usr'.queue[Slot(f, k)] = usr.queue[Slot(f, k)]
      BY <1>4, <2>2, <2>4
    <3> QED
      BY <1>5, <2>1, <2>4, <3>1
  <2> QED
    BY <2>3, <2>4
<1>8. /\ usr'.len <= (n + 1) + (IF pc' = "storeUsr" THEN 1 ELSE 0)
      /\ pc' = "popUsr" => n + 1 > 0
      /\ pc' = "storeUsr" => loaded' <= (n + 1) + 1
  <2>1. /\ usr.len <= n + (IF pc = "storeUsr" THEN 1 ELSE 0) /\ loaded \in Int
        /\ pc = "storeUsr" => loaded <= n + 1
    BY <1>3 DEF Filled, IInv, TypeOK
  <2> QED
    BY <1>1, <1>2, <1>4, <1>5, <2>1
<1>9. Filled(n + 1)' /\ n + 1 \in 0 .. Slots
  BY <1>4, <1>5, <1>6, <1>7, <1>8 DEF Filled, f
<1>10. pc' \in {"popUsr", "storeUsr"} => current' # None
  BY <1>1, <1>2 DEF Causes, UsrHolds
<1> QED
  BY <1>9, <1>10 DEF UsrHolds

\* It moves the promise of the pending signal to the queue, and may lose that
\* of the entry it overwrites.
LEMMA HandlerPromises ==
  ASSUME IInv, Causes, UsrHandler
  PROVE  PromisesCovered'
<1> SUFFICES ASSUME "resend" \notin odd PROVE PromisesCovered'
  BY DEF PromisesCovered, UsrHandler, environment
<1>1. /\ usr' = Put(usr, pendingUsr) /\ pendingUsr \in Traders /\ pendingUsr' = None /\ usr \in Ring
      /\ UNCHANGED <<pipe, odd, current>> /\ Running /\ Interrupt
  BY ExchangeLoopAssumption DEF UsrHandler, environment, locals, IInv, TypeOK
<1>2. pc # "blocked" /\ \A u \in Traders : Promised(u) <= Len(pipe[u])
  BY DEF Causes, PromisesCovered
<1>3. /\ pc' # "blocked"
      /\ \A x \in {"popUsr", "storeUsr", "read"} : pc' = x <=> pc = x
  BY <1>1, <1>2 DEF Interrupt
<1>4. ASSUME NEW u \in Traders PROVE Promised(u)' <= Promised(u)
  <2> DEFINE A == Held(u)  B == Held(u)'
  <2>1. /\ A \subseteq 0 .. Slots - 1
        /\ Same(pendingUsr, u) \in {0, 1} /\ Same(current, u) \in {0, 1}
    BY PromisedType DEF IInv
  <2>2. /\ usr'.front = usr.front
        /\ \A i \in 0 .. Slots - 1 :
             usr'.queue[i] = IF i = usr.back THEN pendingUsr ELSE usr.queue[i]
    BY <1>1, PutType
  <2>3. B \subseteq A \cup {usr.back} /\ (pendingUsr # u => B \subseteq A)
    BY <1>3, <2>2 DEF Held
  <2>4. Same(pendingUsr', u) = 0
    BY <1>1, ExchangeLoopAssumption DEF Same
  <2>5. /\ Promised(u) = Cardinality(A) + Same(pendingUsr, u)
             + (IF pc \in {"popUsr", "storeUsr", "read"} THEN Same(current, u) ELSE 0)
        /\ Promised(u)' = Cardinality(B) + 0
             + (IF pc \in {"popUsr", "storeUsr", "read"} THEN Same(current, u) ELSE 0)
    BY <1>1, <1>3, <2>4 DEF Promised
  <2> HIDE DEF A, B
  <2>6. /\ Cardinality(A) \in Nat /\ Cardinality(B) \in Nat
        /\ Cardinality(B) <= Cardinality(A) + Same(pendingUsr, u)
    <3>1. /\ Cardinality(A) \in Nat /\ Cardinality(B) \in Nat
          /\ Cardinality(B) <= Cardinality(A) + 1
          /\ B \subseteq A => Cardinality(B) <= Cardinality(A)
      BY <2>1, <2>3, SlotSets
    <3> QED
      BY <2>3, <3>1 DEF Same
  <2> QED
    BY <2>1, <2>5, <2>6
<1> QED
  BY <1>1, <1>3, <1>4, LessPromised

\* Both handlers leave EINTR to the call that they interrupt.
LEMMA SignalCauses ==
  ASSUME IInv, Causes, Signal
  PROVE  Causes'
<1>1. /\ UNCHANGED <<process, pipe, sent, odd, current, msg, loaded, alive, numActive>>
      /\ Running /\ Interrupt
  BY DEF Signal, UsrHandler, ChldHandler, environment, locals, register
<1>2. /\ \A x \in {"popUsr", "storeUsr", "read", "parse", "blocked"} : pc' = x => pc = x
      /\ \A x \in {"popUsr", "storeUsr", "read", "parse"} : pc = x => pc' = x
      /\ pc' = "top" => pc \in {"top", "polling"}
      /\ pc' \in Starting => pc' = pc
      /\ pc' \in Over => \/ pc = "blocked" /\ pc' = "undefined"
                         \/ pc = "opening" /\ pc' = "aborted"
  BY <1>1 DEF Interrupt, Running, Over, Starting
<1>3. UsrHolds' /\ PromisesCovered'
  <2>1. CASE UsrHandler
    BY <2>1, HandlerFills, HandlerPromises
  <2>2. CASE ChldHandler
    <3>1. UNCHANGED <<usr, overrun, pendingUsr>>
      BY <2>2 DEF ChldHandler
    <3>2. UsrHolds'
      BY <1>1, <1>2, <3>1 DEF Causes, UsrHolds, Filled
    <3>3. \A u \in Traders : Promised(u)' = Promised(u)
      <4>1. /\ pc' = "popUsr" <=> pc = "popUsr"
            /\ pc' \in {"popUsr", "storeUsr", "read"} <=> pc \in {"popUsr", "storeUsr", "read"}
        BY <1>2
      <4>2. \A u \in Traders : Held(u)' = Held(u)
        BY <3>1, <4>1 DEF Held
      <4> QED
        BY <1>1, <3>1, <4>1, <4>2 DEF Promised
    <3> HIDE DEF Promised
    <3>4. PromisesCovered'
      BY <1>1, <1>2, <3>3 DEF Causes, PromisesCovered
    <3> QED
      BY <3>2, <3>4
  <2> QED
    BY <2>1, <2>2 DEF Signal
<1>4. OddKnown'
  BY <1>1, <1>2 DEF Causes, OddKnown
<1>5. ErrnoKnown'
  BY <1>1, <1>2 DEF Causes, ErrnoKnown, Interrupt, Looping, Running, Over, Starting
<1>6. QuietStart'
  <2>1. pc' \in Starting => pendingUsr' = pendingUsr /\ eintr' = eintr
    BY <1>1, <1>2 DEF Causes, QuietStart, Signal, UsrHandler, ChldHandler, Interrupt, Starting
  <2> QED
    BY <1>2, <2>1 DEF Causes, QuietStart
<1>7. EndsHaveCauses'
  <2>1. CASE pc' \notin Over
    BY <2>1 DEF EndsHaveCauses, Over
  <2>2. CASE pc = "blocked" /\ pc' = "undefined"
    BY <1>1, <2>2 DEF EndsHaveCauses, Causes, PromisesCovered
  <2>3. CASE pc = "opening" /\ pc' = "aborted"
    <3>1. ~ UsrHandler
      BY <2>3 DEF Causes, QuietStart, Starting, UsrHandler
    <3>2. pendingChld \in Traders /\ process[pendingChld] = "exited"
      BY <3>1 DEF Signal, ChldHandler, IInv, TypeOK, NewsOfTheDead
    <3> QED
      BY <1>1, <2>3, <3>2 DEF EndsHaveCauses, Gone
  <2> QED
    BY <1>2, <2>1, <2>2, <2>3
<1> QED
  BY <1>3, <1>4, <1>5, <1>6, <1>7 DEF Causes
-----------------------------------------------------------------------------
\* Main takes the signal at the front: there is one, if lengths are to be
\* trusted, and no unread entry was overwritten.
LEMMA TakeCauses ==
  ASSUME IInv, Causes, TakeUsr
  PROVE  Causes'
<1>1. /\ current' = usr.queue[usr.front] /\ usr.len > 0 /\ pc = "usr" /\ pc' = "popUsr"
      /\ UNCHANGED <<process, pipe, odd, pendingUsr, usr, overrun, msg, loaded, eintr, errno, alive>>
  BY DEF TakeUsr, environment, signals, register
<1>2. usr.front \in 0 .. Slots - 1 /\ usr.len \in Int /\ Slots \in Nat \ {0}
  BY ExchangeLoopAssumption DEF IInv, TypeOK, Ring
<1>3. UsrHolds'
  <2> SUFFICES ASSUME ~ overrun PROVE UsrHolds'
    BY <1>1 DEF UsrHolds
  <2>1. PICK n \in 0 .. Slots : Filled(n)
    BY DEF Causes, UsrHolds
  <2>2. n > 0
    BY <1>1, <1>2, <2>1 DEF Filled
  <2>3. Filled(n)'
    BY <1>1, <2>1, <2>2 DEF Filled
  <2>4. current' # None
    <3>1. usr.queue[Slot(usr.front, 0)] # None
      BY <1>2, <2>1, <2>2 DEF Filled
    <3>2. Slot(usr.front, 0) = usr.front
      BY <1>2, SlotsInARow
    <3> QED
      BY <1>1, <3>1, <3>2
  <2> QED
    BY <2>3, <2>4 DEF UsrHolds
<1>4. PromisesCovered'
  <2>1. ASSUME NEW u \in Traders PROVE Promised(u)' <= Promised(u)
    <3> DEFINE A == Held(u)  B == Held(u)'
    <3>1. A \subseteq 0 .. Slots - 1 /\ Same(pendingUsr, u) \in {0, 1}
      BY PromisedType DEF IInv
    <3>2. B \subseteq A /\ (current' = u => usr.front \in A \ B)
      BY <1>1, <1>2 DEF Held
    <3>3. /\ Promised(u) = Cardinality(A) + Same(pendingUsr, u) + 0
          /\ Promised(u)' = Cardinality(B) + Same(pendingUsr, u) + Same(current', u)
      BY <1>1 DEF Promised, Same
    <3> HIDE DEF A, B
    <3>4. B \subseteq A \cup {usr.front}
      BY <3>2
    <3>5. /\ Cardinality(A) \in Nat /\ Cardinality(B) \in Nat
          /\ B \subseteq A => Cardinality(B) <= Cardinality(A)
          /\ B \subseteq A /\ usr.front \in A \ B => Cardinality(B) + 1 <= Cardinality(A)
      BY <3>1, <3>4, SlotSets
    <3>6. Cardinality(B) + Same(current', u) <= Cardinality(A) /\ Same(current', u) \in {0, 1}
      BY <3>2, <3>5 DEF Same
    <3> QED
      BY <3>1, <3>3, <3>5, <3>6
  <2> QED
    BY <1>1, <2>1, LessPromised
<1>5. OddKnown' /\ ErrnoKnown' /\ QuietStart' /\ EndsHaveCauses'
  BY <1>1 DEF Causes, OddKnown, ErrnoKnown, QuietStart, EndsHaveCauses, Looping, Starting
<1> QED
  BY <1>3, <1>4, <1>5 DEF Causes

\* It gives up the slot: one less is filled.
LEMMA PopCauses ==
  ASSUME IInv, Causes, PopUsr
  PROVE  Causes'
<1>1. /\ usr' = GivenUp(usr) /\ loaded' = usr.len /\ pc = "popUsr" /\ pc' = "storeUsr"
      /\ UNCHANGED <<process, pipe, odd, pendingUsr, overrun, current, msg, eintr, errno, alive>>
  BY DEF PopUsr, environment, register
<1> DEFINE f == usr.front
<1>2. /\ f \in 0 .. Slots - 1 /\ usr.len \in Int /\ Slots \in Nat \ {0}
      /\ usr'.front = Advanced(f) /\ usr'.back = usr.back /\ usr'.len = usr.len
      /\ \A i \in 0 .. Slots - 1 : usr'.queue[i] = IF i = f THEN None ELSE usr.queue[i]
  <2>1. usr \in Ring
    BY DEF IInv, TypeOK
  <2> QED
    BY <1>1, <2>1, GivenUpType, ExchangeLoopAssumption DEF Ring
<1>3. UsrHolds'
  <2> SUFFICES ASSUME ~ overrun PROVE UsrHolds'
    BY <1>1 DEF UsrHolds
  <2>1. PICK n \in 0 .. Slots : Filled(n)
    BY DEF Causes, UsrHolds
  <2>2. /\ usr.back = Slot(f, n) /\ usr.len <= n /\ n > 0
        /\ \A k \in 0 .. Slots - 1 : usr.queue[Slot(f, k)] # None <=> k < n
    BY <1>1, <1>2, <2>1 DEF Filled
  <2> HIDE DEF f
  <2>3. /\ \A k \in 0 .. Slots - 1 : Slot(Advanced(f), k) = Slot(f, k + 1)
        /\ Slot(f, Slots) = f
        /\ \A k \in 1 .. Slots - 1 : Slot(f, k) \in 0 .. Slots - 1 /\ Slot(f, k) # f
    <3>1. f \in 0 .. Slots - 1 /\ Slots \in Nat \ {0}
      BY <1>2
    <3> QED
      BY <3>1 DEF Slot, Advanced
  <2>4. n - 1 \in 0 .. Slots - 1 /\ (n - 1) + 1 = n
    BY <1>2, <2>1, <2>2
  <2>5. usr'.back = Slot(usr'.front, n - 1)
    <3>1. Slot(Advanced(f), n - 1) = Slot(f, (n - 1) + 1)
      BY <2>3, <2>4
    <3> QED
      BY <1>2, <2>2, <2>4, <3>1
  <2>6. ASSUME NEW k \in 0 .. Slots - 1
        PROVE  usr'.queue[Slot(usr'.front, k)] # None <=> k < n - 1
    <3>1. Slot(usr'.front, k) = Slot(f, k + 1)
      BY <1>2, <2>3
    <3>2. CASE k = Slots - 1
      <4>1. Slot(f, k + 1) = f /\ ~ k < n - 1
        BY <1>2, <2>1, <2>3, <3>2
      <4> QED
        BY <1>2, <3>1, <4>1
    <3>3. CASE k # Slots - 1
      <4>1. k + 1 \in 1 .. Slots - 1 /\ k + 1 \in 0 .. Slots - 1
        BY <1>2, <3>3
      <4>2. usr'.queue[Slot(f, k + 1)] = usr.queue[Slot(f, k + 1)]
        BY <1>2, <2>3, <4>1
      <4>3. usr.queue[Slot(f, k + 1)] # None <=> k + 1 < n
        BY <2>2, <4>1
      <4> QED
        BY <2>1, <3>1, <4>2, <4>3
    <3> QED
      BY <3>2, <3>3
  <2>7. Filled(n - 1)'
    <3>1. usr'.len <= (n - 1) + 1 /\ loaded' <= (n - 1) + 1
      BY <1>1, <1>2, <2>2, <2>4
    <3> QED
      BY <1>1, <2>5, <2>6, <3>1 DEF Filled
  <2>8. current' # None
    BY <1>1 DEF Causes, UsrHolds
  <2>9. n - 1 \in 0 .. Slots
    BY <1>2, <2>4
  <2> QED
    BY <2>7, <2>8, <2>9 DEF UsrHolds
<1>4. PromisesCovered'
  <2>1. ASSUME NEW u \in Traders PROVE Promised(u)' <= Promised(u)
    <3>1. Held(u)' = Held(u)
      BY <1>1, <1>2, ExchangeLoopAssumption DEF Held
    <3>2. Promised(u)' = Promised(u) /\ Promised(u) \in Nat
      BY <1>1, <3>1, PromisedType DEF Promised, IInv
    <3> HIDE DEF Promised
    <3> QED
      BY <3>2
  <2> QED
    BY <1>1, <2>1, LessPromised
<1>5. OddKnown' /\ ErrnoKnown' /\ QuietStart' /\ EndsHaveCauses'
  BY <1>1 DEF Causes, OddKnown, ErrnoKnown, QuietStart, EndsHaveCauses, Looping, Starting
<1> QED
  BY <1>3, <1>4, <1>5 DEF Causes

\* The length it stores is no more than there is.
LEMMA StoreCauses ==
  ASSUME IInv, Causes, StoreUsr
  PROVE  Causes'
<1>1. /\ usr' = [usr EXCEPT !.len = loaded - 1] /\ loaded' = 0 /\ pc = "storeUsr"
      /\ pc' = IF current = None THEN "killed" ELSE "read"
      /\ UNCHANGED <<process, pipe, odd, pendingUsr, overrun, current, msg, eintr, errno, alive>>
  BY DEF StoreUsr, environment, register
<1>2. /\ usr'.queue = usr.queue /\ usr'.front = usr.front /\ usr'.back = usr.back
      /\ usr'.len = loaded - 1 /\ loaded \in Int
  BY <1>1 DEF IInv, TypeOK, Ring
<1>3. UsrHolds'
  <2> SUFFICES ASSUME ~ overrun PROVE UsrHolds'
    BY <1>1 DEF UsrHolds
  <2>1. PICK n \in 0 .. Slots : Filled(n)
    BY DEF Causes, UsrHolds
  <2>2. Filled(n)'
    BY <1>1, <1>2, <2>1 DEF Filled
  <2> QED
    BY <1>1, <2>2 DEF UsrHolds
<1>4. PromisesCovered'
  <2>1. ASSUME NEW u \in Traders PROVE Promised(u)' <= Promised(u)
    <3>1. Held(u)' = Held(u)
      BY <1>1, <1>2 DEF Held
    <3>2. /\ Promised(u) = Cardinality(Held(u)) + Same(pendingUsr, u) + Same(current, u)
          /\ Promised(u)' \in {Promised(u), Cardinality(Held(u)) + Same(pendingUsr, u) + 0}
      BY <1>1, <3>1 DEF Promised, Same
    <3>3. /\ Cardinality(Held(u)) \in Nat
          /\ Same(pendingUsr, u) \in {0, 1} /\ Same(current, u) \in {0, 1}
      BY PromisedType DEF IInv
    <3> HIDE DEF Promised
    <3> QED
      BY <3>2, <3>3
  <2> QED
    BY <1>1, <2>1, LessPromised
<1>5. OddKnown' /\ ErrnoKnown' /\ QuietStart'
  BY <1>1 DEF Causes, OddKnown, ErrnoKnown, QuietStart, Looping, Starting
<1>6. EndsHaveCauses'
  <2>1. current = None => overrun
    BY <1>1 DEF Causes, UsrHolds
  <2> QED
    BY <1>1, <2>1 DEF EndsHaveCauses
<1> QED
  BY <1>3, <1>4, <1>5, <1>6 DEF Causes

\* A read that was promised finds a message.
LEMMA ReadCauses ==
  ASSUME IInv, Causes, Read \/ ReadNothing
  PROVE  Causes'
<1> DEFINE p == pipe[current]
<1>1. /\ current \in Traders /\ pc \in {"read", "blocked"} /\ p \in Seq(Messages)
      /\ pipe \in [Traders -> Seq(Messages)]
      /\ UNCHANGED <<process, odd, pendingUsr, usr, overrun, current, loaded, eintr, errno, alive>>
  BY DEF Read, ReadNothing, environment, signals, locals, register, IInv, TypeOK, MainHolds
<1>2. UsrHolds'
  <2>1. pc' \notin {"popUsr", "storeUsr"}
    BY DEF Read, ReadNothing
  <2> QED
    BY <1>1, <2>1 DEF Causes, UsrHolds, Filled
<1>3. ErrnoKnown' /\ QuietStart'
  BY <1>1 DEF Causes, ErrnoKnown, QuietStart, Looping, Starting, Read, ReadNothing
<1>4. ASSUME "resend" \notin odd
      PROVE  pc = "read" /\ Promised(current) <= Len(p) /\ Len(p) >= 1
  <2>1. pc = "read" /\ Promised(current) <= Len(p) /\ Len(p) \in Nat
    BY <1>1, <1>4 DEF Causes, PromisesCovered
  <2>2. /\ Promised(current) = Cardinality(Held(current)) + Same(pendingUsr, current) + 1
        /\ Cardinality(Held(current)) \in Nat /\ Same(pendingUsr, current) \in {0, 1}
    BY <1>1, <2>1, PromisedType DEF Promised, IInv, Same
  <2> HIDE DEF Promised
  <2> QED
    BY <2>1, <2>2
<1>5. CASE Read
  <2>1. /\ p # <<>> /\ pipe' = [pipe EXCEPT ![current] = Tail(p)] /\ msg' = Head(p)
        /\ pc' \in {"undefined", "killed", "parse"} /\ alive[current]
        /\ pc' \in {"undefined", "killed"} => msg' \in {";", "long line"}
        /\ pc' = "killed" => msg' = "long line"
    BY <1>5 DEF Read
  <2>2. /\ Len(Tail(p)) = Len(p) - 1 /\ Len(p) \in Nat /\ 1 \in 1 .. Len(p) /\ Head(p) = p[1]
        /\ \A i \in 1 .. Len(p) - 1 : i + 1 \in 1 .. Len(p) /\ Tail(p)[i] = p[i + 1]
    <3>1. p \in Seq(Messages) /\ p # <<>>
      BY <1>1, <2>1
    <3> HIDE DEF p
    <3> QED
      BY <3>1
  <2>3. pipe'[current] = Tail(p) /\ \A u \in Traders : u # current => pipe'[u] = pipe[u]
    BY <1>1, <2>1
  <2>4. PromisesCovered'
    <3> SUFFICES ASSUME "resend" \notin odd PROVE PromisesCovered'
      BY <1>1 DEF PromisesCovered
    <3>1. ASSUME NEW u \in Traders PROVE Promised(u)' <= Len(pipe'[u])
      <4>1. Held(u)' = Held(u)
        BY <1>1, <2>1 DEF Held
      <4>2. /\ Promised(u)' = Cardinality(Held(u)) + Same(pendingUsr, u) + 0
            /\ Promised(u) = Cardinality(Held(u)) + Same(pendingUsr, u) + Same(current, u)
        BY <1>1, <1>4, <2>1, <4>1 DEF Promised
      <4>3. /\ Cardinality(Held(u)) \in Nat
            /\ Same(pendingUsr, u) \in {0, 1} /\ Same(current, u) \in {0, 1}
        BY PromisedType DEF IInv
      <4>4. Promised(u) <= Len(pipe[u]) /\ Len(pipe[u]) \in Nat
        BY <1>1 DEF Causes, PromisesCovered
      <4> HIDE DEF Promised
      <4>5. CASE u = current
        <5>1. Same(current, u) = 1 /\ Len(pipe'[u]) = Len(pipe[u]) - 1
          BY <2>2, <2>3, <4>5 DEF Same
        <5> QED
          BY <4>2, <4>3, <4>4, <5>1
      <4>6. CASE u # current
        <5>1. Same(current, u) = 0 /\ pipe'[u] = pipe[u]
          BY <2>3, <4>6 DEF Same
        <5> QED
          BY <4>2, <4>3, <4>4, <5>1
      <4> QED
        BY <4>5, <4>6
    <3> HIDE DEF Promised
    <3> QED
      BY <2>1, <3>1 DEF PromisesCovered
  <2>5. msg' \in OddMessages => msg' \in odd
    BY <1>1, <2>1, <2>2 DEF Causes, OddKnown
  <2>6. OddKnown'
    <3>1. ASSUME NEW u \in Traders, NEW i \in 1 .. Len(pipe'[u]), pipe'[u][i] \in OddMessages
          PROVE  pipe'[u][i] \in odd
      <4>1. \A j \in 1 .. Len(pipe[u]) : pipe[u][j] \in OddMessages => pipe[u][j] \in odd
        BY DEF Causes, OddKnown
      <4>2. CASE u = current
        <5>1. /\ i \in 1 .. Len(p) - 1 /\ pipe'[u][i] = p[i + 1]
              /\ \A j \in 1 .. Len(p) : p[j] \in OddMessages => p[j] \in odd
          BY <2>2, <2>3, <3>1, <4>1, <4>2
        <5> HIDE DEF p
        <5> QED
          BY <2>2, <3>1, <5>1
      <4>3. CASE u # current
        BY <2>3, <3>1, <4>1, <4>3
      <4> QED
        BY <4>2, <4>3
    <3> QED
      BY <1>1, <2>5, <3>1 DEF OddKnown
  <2>7. EndsHaveCauses'
    BY <1>1, <2>1, <2>5 DEF EndsHaveCauses, OddMessages
  <2> QED
    BY <1>2, <1>3, <2>4, <2>6, <2>7 DEF Causes
<1>6. CASE ReadNothing
  <2>1. /\ UNCHANGED <<pipe, msg>> /\ pc' \in {"blocked", "undefined"}
        /\ alive[current] => p = <<>>
        /\ alive[current] \/ pc' = "undefined"
    BY <1>6 DEF ReadNothing, environment, locals
  <2>2. "resend" \in odd \/ ~ alive[current]
    <3>1. p = <<>> => ~ Len(p) >= 1
      OBVIOUS
    <3> QED
      BY <1>4, <2>1, <3>1
  <2>3. PromisesCovered'
    <3> SUFFICES ASSUME "resend" \notin odd PROVE PromisesCovered'
      BY <1>1 DEF PromisesCovered
    <3>1. pc' = "undefined" /\ pc = "read"
      BY <1>4, <2>1, <2>2
    <3>2. ASSUME NEW u \in Traders PROVE Promised(u)' <= Promised(u)
      <4>1. Held(u)' = Held(u)
        BY <1>1, <3>1 DEF Held
      <4>2. /\ Promised(u)' = Cardinality(Held(u)) + Same(pendingUsr, u) + 0
            /\ Promised(u) = Cardinality(Held(u)) + Same(pendingUsr, u) + Same(current, u)
        BY <1>1, <3>1, <4>1 DEF Promised
      <4>3. /\ Cardinality(Held(u)) \in Nat
            /\ Same(pendingUsr, u) \in {0, 1} /\ Same(current, u) \in {0, 1}
        BY PromisedType DEF IInv
      <4> HIDE DEF Promised
      <4> QED
        BY <4>2, <4>3
    <3> QED
      BY <1>1, <2>1, <3>1, <3>2, LessPromised
  <2>4. OddKnown' /\ EndsHaveCauses'
    BY <1>1, <2>1, <2>2 DEF Causes, OddKnown, EndsHaveCauses
  <2> QED
    BY <1>2, <1>3, <2>3, <2>4 DEF Causes
<1> QED
  BY <1>5, <1>6

\* A write to whoever has gone kills the exchange, and so may the name that is
\* too long.
LEMMA ParseCauses ==
  ASSUME IInv, Causes, ParseMsg
  PROVE  Causes'
<1>1. /\ pc = "parse" /\ pc' \in {"usr", "killed"} /\ current \in Traders /\ alive[current]
      /\ errno' = IF msg = "huge" THEN "other" ELSE errno
      /\ UNCHANGED <<process, pipe, odd, pendingUsr, usr, overrun, loaded, eintr, alive>>
  BY DEF ParseMsg, WriteTo, environment, signals, register, IInv, MainHolds
<1>2. msg \in OddMessages => msg \in odd
  BY <1>1 DEF Causes, OddKnown
<1>3. UsrHolds' /\ OddKnown' /\ QuietStart'
  BY <1>1 DEF Causes, UsrHolds, Filled, OddKnown, QuietStart, Starting
<1>4. PromisesCovered'
  <2>1. ASSUME NEW u \in Traders PROVE Promised(u)' <= Promised(u)
    <3>1. Held(u)' = Held(u)
      BY <1>1 DEF Held
    <3>2. Promised(u)' = Promised(u) /\ Promised(u) \in Nat
      BY <1>1, <3>1, PromisedType DEF Promised, IInv
    <3> HIDE DEF Promised
    <3> QED
      BY <3>2
  <2> QED
    BY <1>1, <2>1, LessPromised
<1>5. ErrnoKnown'
  BY <1>1, <1>2 DEF Causes, ErrnoKnown, Looping, Starting, OddMessages
<1>6. EndsHaveCauses'
  <2>1. pc' = "killed" => msg = "long name" \/ \E t \in Traders : alive[t] /\ Gone(t)
    BY <1>1 DEF ParseMsg, WriteTo
  <2>2. Unnoticed' = Unnoticed /\ ((\E t \in Traders : alive[t] /\ Gone(t)) => Unnoticed # {})
    BY <1>1 DEF Unnoticed, Gone
  <2> QED
    BY <1>1, <1>2, <2>1, <2>2 DEF EndsHaveCauses, OddMessages
<1> QED
  BY <1>3, <1>4, <1>5, <1>6 DEF Causes

\* The steps that have to do neither with usr nor with messages.
Elsewhere ==
  \/ \E t \in Traders : Fork(t) \/ HangUp(t)
  \/ ForkFails \/ OpenPipes \/ Connect \/ AllForked \/ Welcome
  \/ Top \/ UsrDone \/ TakeChld \/ PopChld \/ StoreChld \/ ChldDone \/ Poll \/ Timeout

LEMMA ElsewhereCauses ==
  ASSUME IInv, Causes, Elsewhere
  PROVE  Causes'
<1>1. UNCHANGED <<pipe, odd, pendingUsr, usr, overrun, msg>>
  BY DEF Elsewhere, Fork, HangUp, ForkFails, OpenPipes, Connect, AllForked, Welcome, Top, UsrDone,
         TakeChld, PopChld, StoreChld, ChldDone, Poll, Timeout, environment, signals, locals
<1>2. /\ {pc, pc'} \cap {"popUsr", "storeUsr", "read", "blocked", "parse", "undefined", "killed"} = {}
      /\ pc' \in Starting => pc \in Starting /\ eintr' = eintr
  BY DEF Elsewhere, Fork, HangUp, ForkFails, OpenPipes, Connect, AllForked, Welcome, WriteTo, Top,
         UsrDone, TakeChld, PopChld, StoreChld, TraderDied, ChldDone, Poll, Timeout, Starting
<1>3. UsrHolds' /\ OddKnown' /\ QuietStart'
  <2>1. /\ pc \notin {"popUsr", "storeUsr", "parse"} /\ pc' \notin {"popUsr", "storeUsr", "parse"}
    BY <1>2
  <2>2. UsrHolds'
    BY <1>1, <2>1 DEF Causes, UsrHolds, Filled
  <2>3. OddKnown'
    BY <1>1, <2>1 DEF Causes, OddKnown
  <2>4. QuietStart'
    BY <1>1, <1>2 DEF Causes, QuietStart
  <2> QED
    BY <2>2, <2>3, <2>4
<1>4. PromisesCovered'
  <2>1. ASSUME NEW u \in Traders PROVE Promised(u)' <= Promised(u)
    <3>1. Held(u)' = Held(u)
      BY <1>1, <1>2 DEF Held
    <3>2. Promised(u)' = Promised(u) /\ Promised(u) \in Nat
      BY <1>1, <1>2, <3>1, PromisedType DEF Promised, IInv
    <3> HIDE DEF Promised
    <3> QED
      BY <3>2
  <2> QED
    BY <1>1, <1>2, <2>1, LessPromised
<1>5. CASE (\E t \in Traders : Fork(t)) \/ ForkFails \/ OpenPipes \/ Connect \/ AllForked
  <2>1. /\ pc \in Starting /\ pc' \in Starting \cup {"aborted"}
        /\ pc' = "aborted" => \E t \in Traders : process[t] = "unborn" /\ process' = process
    BY <1>5 DEF Fork, ForkFails, OpenPipes, Connect, AllForked, environment, Starting
  <2>2. ErrnoKnown' /\ EndsHaveCauses'
    BY <2>1 DEF ErrnoKnown, EndsHaveCauses, Looping, Starting
  <2> QED
    BY <1>3, <1>4, <2>2 DEF Causes
<1>6. CASE Welcome
  <2>1. /\ pc = "welcome" /\ pc' \in {"top", "aborted"} /\ UNCHANGED <<process, eintr>>
        /\ pc' = "aborted" => \E t \in Traders : Gone(t)
    BY <1>6 DEF Welcome, WriteTo, environment
  <2>2. ErrnoKnown' /\ EndsHaveCauses'
    BY <2>1 DEF Causes, QuietStart, ErrnoKnown, EndsHaveCauses, Looping, Starting, Gone
  <2> QED
    BY <1>3, <1>4, <2>2 DEF Causes
<1>7. CASE StoreChld \/ \E t \in Traders : HangUp(t)
  <2>1. /\ pc \in {"storeChld", "polling"} /\ pc' \in {"chld", "top", "completed"} /\ eintr' = eintr
        /\ \/ UNCHANGED <<alive, errno>>
           \/ \E t \in Traders : alive' = [alive EXCEPT ![t] = FALSE]
    BY <1>7 DEF StoreChld, HangUp, TraderDied, register, IInv, TypeOK
  <2>2. (\E t \in Traders : ~ alive'[t]) \/ UNCHANGED <<alive, errno>>
    BY <2>1 DEF IInv, TypeOK
  <2>3. ErrnoKnown'
    BY <1>1, <2>1, <2>2 DEF Causes, ErrnoKnown, Looping, Starting
  <2>4. EndsHaveCauses'
    BY <2>1 DEF EndsHaveCauses
  <2> QED
    BY <1>3, <1>4, <2>3, <2>4 DEF Causes
<1>8. CASE Top \/ UsrDone \/ TakeChld \/ PopChld \/ ChldDone \/ Poll \/ Timeout
  <2>1. /\ UNCHANGED <<process, alive, errno>> /\ Looping /\ pc' \notin {"aborted", "undefined", "killed"}
        /\ pc' = "failed" => errno # "EINTR" /\ pc = "polling"
    BY <1>8 DEF Top, UsrDone, TakeChld, PopChld, ChldDone, Poll, Timeout, environment, register,
                Looping, Starting
  <2>2. ASSUME pc' \notin {"top", "pausing"} \/ eintr'
        PROVE  errno = "EINTR" \/ "huge" \in odd \/ \E t \in Traders : ~ alive[t]
    <3>1. pc \notin {"top", "pausing"} \/ eintr
      BY <1>8, <2>2 DEF Top, UsrDone, TakeChld, PopChld, ChldDone, Poll, Timeout
    <3> QED
      BY <2>1, <3>1 DEF Causes, ErrnoKnown
  <2>3. ErrnoKnown'
    BY <1>1, <2>1, <2>2 DEF ErrnoKnown
  <2>4. EndsHaveCauses'
    BY <1>1, <2>1, <2>2 DEF EndsHaveCauses
  <2> QED
    BY <1>3, <1>4, <2>3, <2>4 DEF Causes
<1> QED
  BY <1>5, <1>6, <1>7, <1>8 DEF Elsewhere
-----------------------------------------------------------------------------
\* At first nothing is promised, pending or queued.
LEMMA InitCauses == Init => Causes
<1> SUFFICES ASSUME Init PROVE Causes
  OBVIOUS
<1>1. /\ pc = "fork" /\ ~ Looping /\ ~ eintr /\ pendingUsr = None /\ odd = {}
      /\ usr = EmptyRing /\ loaded = 0 /\ \A t \in Traders : pipe[t] = <<>>
  BY DEF Init, Looping, Starting
<1>2. UsrHolds
  <2>1. Slots \in Nat \ {0} /\ usr.front = 0 /\ usr.back = 0 /\ usr.len = 0
    BY <1>1, ExchangeLoopAssumption DEF EmptyRing
  <2>2. \A k \in 0 .. Slots - 1 : Slot(0, k) \in 0 .. Slots - 1
    BY <2>1 DEF Slot
  <2>3. \A k \in 0 .. Slots - 1 : usr.queue[Slot(usr.front, k)] = None
    BY <1>1, <2>1, <2>2 DEF EmptyRing
  <2>4. Slot(usr.front, 0) = 0
    BY <2>1 DEF Slot
  <2>5. Filled(0)
    BY <1>1, <2>1, <2>3, <2>4 DEF Filled
  <2> QED
    BY <1>1, <2>1, <2>5 DEF UsrHolds
<1>3. PromisesCovered
  <2>1. ASSUME NEW t \in Traders PROVE Promised(t) = 0 /\ Len(pipe[t]) = 0
    <3>1. Held(t) = {}
      BY <1>1, ExchangeLoopAssumption DEF Held, EmptyRing
    <3>2. Cardinality(Held(t)) = 0
      BY <3>1, FS_EmptySet, Zenon
    <3>3. Same(pendingUsr, t) = 0
      BY <1>1, ExchangeLoopAssumption DEF Same
    <3> QED
      BY <1>1, <3>2, <3>3 DEF Promised
  <2> HIDE DEF Promised
  <2> QED
    BY <1>1, <2>1 DEF PromisesCovered
<1>4. OddKnown /\ ErrnoKnown /\ QuietStart /\ EndsHaveCauses
  BY <1>1 DEF OddKnown, ErrnoKnown, QuietStart, EndsHaveCauses
<1> QED
  BY <1>2, <1>3, <1>4 DEF Causes

\* What keeps the exchange from any other end is kept by every step.
THEOREM CausesInvariant == Spec => [](IInv /\ Causes)
<1>1. IInv /\ Causes /\ [Next]_vars => Causes'
  <2> SUFFICES ASSUME IInv, Causes, [Next]_vars PROVE Causes'
    OBVIOUS
  <2>1. ASSUME NEW t \in Traders, Trader(t) PROVE Causes'
    BY <2>1, TraderCauses
  <2>2. CASE Signal
    BY <2>2, SignalCauses
  <2>3. CASE TakeUsr \/ PopUsr \/ StoreUsr \/ Read \/ ReadNothing \/ ParseMsg
    BY <2>3, TakeCauses, PopCauses, StoreCauses, ReadCauses, ParseCauses
  <2>4. CASE Elsewhere
    BY <2>4, ElsewhereCauses
  <2>5. CASE UNCHANGED vars
    <3>1. UNCHANGED <<process, pipe, odd, pendingUsr, usr, overrun, pc, current, msg, loaded, eintr,
                      errno, alive>>
      BY <2>5 DEF vars, environment, signals, locals, register
    <3>2. UsrHolds' /\ OddKnown' /\ ErrnoKnown' /\ QuietStart'
      BY <3>1 DEF Causes, UsrHolds, Filled, OddKnown, ErrnoKnown, QuietStart, Looping
    <3>3. PromisesCovered'
      BY <3>1 DEF Causes, PromisesCovered, Promised, Held
    <3>4. EndsHaveCauses'
      BY <3>1 DEF Causes, EndsHaveCauses, Unnoticed, Gone
    <3> QED
      BY <3>2, <3>3, <3>4 DEF Causes
  <2> QED
    BY <2>1, <2>2, <2>3, <2>4, <2>5 DEF Next, Main, Elsewhere
<1> QED
  BY InitCauses, <1>1, LoopInvariant, PTL DEF Spec

\* The exchange gives up, is killed, fails, or goes on with memory it no longer
\* has, only for the causes that EndsHaveCauses names; in particular it never
\* does because signals were merged, overwritten or left uncounted, but for the
\* empty slot that an overwritten entry makes it take.
THEOREM CausesOfEnds == Spec => []EndsHaveCauses
<1>1. IInv /\ Causes => EndsHaveCauses
  BY DEF Causes
<1> QED
  BY <1>1, CausesInvariant, PTL
=============================================================================
