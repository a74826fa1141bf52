---------------------------- MODULE ExchangeLoop ----------------------------
(***************************************************************************)
(* main of pe_exchange.c from the first fork on: its traders, its signals  *)
(* and its system calls, and what each can do to the others.               *)
(*                                                                         *)
(* A handler runs between any two steps of main and interrupts the call    *)
(* that main is blocked in, and no other: a signal that comes just before  *)
(* the call is not noticed by it.  Each of the two signals has one pending *)
(* bit; what is sent while it is set is merged into it.                    *)
(*                                                                         *)
(* The two queues are the circular arrays of the code, which nobody tests  *)
(* for being full.  A pop is three steps: main reads the slot, gives it    *)
(* up and loads the length, and stores the length less one.  (SignalQueue  *)
(* has the five instructions; a handler that runs among those merged here  *)
(* leaves what it leaves when it runs after the store.)                    *)
(*                                                                         *)
(* Of a message matters here what it does to main on its way through       *)
(* process_msg and the parser.                                             *)
(***************************************************************************)
EXTENDS Integers, Sequences, FiniteSets

CONSTANTS
  Traders, None,
  Slots,         \* 50: where front and back of a queue go back to 0
  Messages,      \* what is sent
  MaxMessages,   \* bound: messages in a behaviour
  MaxOdd         \* bound: kinds of oddities in a behaviour, each of which happens once

\* One byte; with a number beyond a long; with a product name too long for
\* product[MAX_PROD]; too long for msg[MAX_LINE].
OddMessages == {";", "huge", "long name", "long line"}

ASSUME ExchangeLoopAssumption ==
  /\ IsFiniteSet(Traders) /\ Traders # {} /\ None \notin Traders
  /\ Slots \in Nat \ {0}
  /\ Messages \subseteq {"command"} \cup OddMessages
  /\ MaxMessages \in Nat /\ MaxOdd \in Nat

VARIABLES
  process,                  \* each trader: "unborn", "started", "open", "closed", "exited"
  pipe,                     \* the unread messages of each trader
  sent, odd,                \* how many messages, and what oddities, there have been
  pendingUsr, pendingChld,  \* the sender of the pending signal
  usr, chld,                \* the queues
  overrun,                  \* history: an unread entry of usr has been overwritten
  pc, current,              \* where main is, and the trader it is busy with
  msg, loaded,              \* the message in its hands; the length it has loaded
  eintr, errno,             \* eintr_epoll; "EINTR" or "other"
  alive, numActive

environment == <<process, pipe, sent, odd>>
signals == <<pendingUsr, pendingChld, usr, chld, overrun>>
locals == <<current, msg, loaded>>
register == <<alive, numActive>>
vars == <<environment, signals, pc, locals, eintr, errno, register>>

Starting == {"fork", "open", "opening", "welcome"}

\* The exchange is over: it never got to its loop; exit(0); return 1; memory
\* released or overwritten while main goes on, which is undefined; or death by
\* SIGPIPE, by a wild pointer or by the sanitizer of the Makefile.
Over == {"aborted", "completed", "failed", "undefined", "killed"}

Running == pc \notin Over
Looping == pc \notin Starting \cup {"aborted"}
Gone(t) == process[t] \in {"closed", "exited"}
Merged(bit, t) == IF bit = None THEN t ELSE bit
-----------------------------------------------------------------------------
(* The circular queues *)

Advanced(i) == IF i + 1 = Slots THEN 0 ELSE i + 1

EmptyRing == [queue |-> [i \in 0 .. Slots - 1 |-> None], front |-> 0, back |-> 0, len |-> 0]

Put(r, t) ==
  [queue |-> [r.queue EXCEPT ![r.back] = t], front |-> r.front, back |-> Advanced(r.back),
   len |-> r.len + 1]

\* pop_sigusr and pop_sigchld before their last line
GivenUp(r) ==
  [queue |-> [r.queue EXCEPT ![r.front] = None], front |-> Advanced(r.front), back |-> r.back,
   len |-> r.len]
-----------------------------------------------------------------------------
(* The traders, which may do any of this at any time *)

\* write, then kill(exchange_pid, SIGUSR1).  Traders wait for MARKET OPEN.
Send(t, m) ==
  /\ Running /\ pc \notin Starting
  /\ process[t] = "open" /\ sent < MaxMessages
  /\ m \in OddMessages => m \notin odd /\ Cardinality(odd) < MaxOdd
  /\ pipe' = [pipe EXCEPT ![t] = Append(@, m)]
  /\ sent' = sent + 1
  /\ odd' = odd \cup ({m} \cap OddMessages)
  /\ pendingUsr' = Merged(pendingUsr, t)
  /\ UNCHANGED <<process, pendingChld, usr, chld, overrun, pc, locals, eintr, errno, register>>

\* The signal again without a message, as pe_trader does every 0.3 s.
Resend(t) ==
  /\ Running /\ pc \notin Starting
  /\ process[t] = "open" /\ "resend" \notin odd /\ Cardinality(odd) < MaxOdd
  /\ odd' = odd \cup {"resend"}
  /\ pendingUsr' = Merged(pendingUsr, t)
  /\ UNCHANGED <<process, pipe, sent, pendingChld, usr, chld, overrun, pc, locals, eintr, errno,
                 register>>

\* A trader may close its pipes and live on.
Close(t) ==
  /\ Running /\ process[t] = "open"
  /\ process' = [process EXCEPT ![t] = "closed"]
  /\ UNCHANGED <<pipe, sent, odd, signals, pc, locals, eintr, errno, register>>

Exit(t) ==
  /\ Running /\ process[t] \in {"started", "open", "closed"}
  /\ process' = [process EXCEPT ![t] = "exited"]
  /\ pendingChld' = Merged(pendingChld, t)
  /\ UNCHANGED <<pipe, sent, odd, pendingUsr, usr, chld, overrun, pc, locals, eintr, errno,
                 register>>

Trader(t) == (\E m \in Messages : Send(t, m)) \/ Resend(t) \/ Close(t) \/ Exit(t)
-----------------------------------------------------------------------------
(* The signals *)

\* What a handler does to the call that main is blocked in: pause returns;
\* epoll_wait returns -1; read returns -1, process_msg returns 0 bytes and main
\* releases its memory; open returns -1 and the exchange gives up.
Interrupt ==
  /\ pc' = CASE pc = "pausing" -> "usr"
             [] pc = "polling" -> "top"
             [] pc = "blocked" -> "undefined"
             [] pc = "opening" -> "aborted"
             [] OTHER -> pc
  /\ eintr' = IF pc = "polling" THEN TRUE ELSE eintr
  /\ errno' = IF pc \in {"pausing", "polling", "blocked", "opening"} THEN "EINTR" ELSE errno

\* sigusr_handler, which does not look at what it writes over.
UsrHandler ==
  /\ Running /\ pendingUsr # None
  /\ usr' = Put(usr, pendingUsr)
  /\ overrun' = (overrun \/ usr.queue[usr.back] # None)
  /\ pendingUsr' = None
  /\ Interrupt
  /\ UNCHANGED <<environment, pendingChld, chld, locals, register>>

\* sigchld_handler; waitpid returns at once, as the child is dead.
ChldHandler ==
  /\ Running /\ pendingChld # None
  /\ chld' = Put(chld, pendingChld)
  /\ pendingChld' = None
  /\ Interrupt
  /\ UNCHANGED <<environment, pendingUsr, usr, overrun, locals, register>>

Signal == UsrHandler \/ ChldHandler
-----------------------------------------------------------------------------
(* fork_and_pipes, write_market_open, create_epoll *)

\* mkfifo, fork and exec for the next trader; nothing tells the traders apart.
Fork(t) ==
  /\ pc = "fork" /\ process[t] = "unborn"
  /\ process' = [process EXCEPT ![t] = "started"]
  /\ current' = t
  /\ pc' = "open"
  /\ UNCHANGED <<pipe, sent, odd, signals, msg, loaded, eintr, errno, register>>

\* mkfifo fails when an earlier exchange has left its FIFOs behind.
ForkFails ==
  /\ pc = "fork" /\ \E t \in Traders : process[t] = "unborn"
  /\ pc' = "aborted"
  /\ errno' = "other"
  /\ UNCHANGED <<environment, signals, locals, eintr, register>>

OpenPipes ==
  /\ pc = "open"
  /\ pc' = "opening"
  /\ UNCHANGED <<environment, signals, locals, eintr, errno, register>>

\* Opening a FIFO waits for the other end: both processes go on together.
\* Then initialise_trader.
Connect ==
  /\ pc = "opening" /\ process[current] = "started"
  /\ process' = [process EXCEPT ![current] = "open"]
  /\ alive' = [alive EXCEPT ![current] = TRUE]
  /\ pc' = "fork"
  /\ UNCHANGED <<pipe, sent, odd, signals, locals, eintr, errno, numActive>>

\* Mutant: the product file is counted as a trader.
AllForkedOneMore ==
  /\ pc = "fork" /\ \A t \in Traders : process[t] # "unborn"
  /\ numActive' = Cardinality(Traders) + 1
  /\ pc' = "welcome"
  /\ UNCHANGED <<environment, signals, locals, eintr, errno, alive>>

AllForked ==
  /\ pc = "fork" /\ \A t \in Traders : process[t] # "unborn"
  /\ numActive' = Cardinality(Traders)
  /\ pc' = "welcome"
  /\ UNCHANGED <<environment, signals, locals, eintr, errno, alive>>

\* Nothing handles SIGPIPE: a write to a trader that has gone kills the exchange.
WriteTo(audience, next, killed) == pc' = IF \E t \in audience : Gone(t) THEN killed ELSE next

Welcome ==
  /\ pc = "welcome"
  /\ WriteTo(Traders, "top", "aborted")
  /\ current' = None
  /\ UNCHANGED <<environment, signals, msg, loaded, eintr, errno, register>>
-----------------------------------------------------------------------------
(* The loop *)

Top ==
  /\ pc = "top"
  /\ pc' = IF eintr THEN "usr" ELSE "pausing"
  /\ eintr' = FALSE
  /\ UNCHANGED <<environment, signals, locals, errno, register>>

TakeUsr ==
  /\ pc = "usr" /\ usr.len > 0
  /\ current' = usr.queue[usr.front]
  /\ pc' = "popUsr"
  /\ UNCHANGED <<environment, signals, msg, loaded, eintr, errno, register>>

PopUsr ==
  /\ pc = "popUsr"
  /\ usr' = GivenUp(usr)
  /\ loaded' = usr.len
  /\ pc' = "storeUsr"
  /\ UNCHANGED <<environment, pendingUsr, pendingChld, chld, overrun, current, msg, eintr, errno,
                 register>>

\* Mutant: the length is stored as it was loaded.
StoreUsrUnchanged ==
  /\ pc = "storeUsr"
  /\ usr' = [usr EXCEPT !.len = loaded]
  /\ loaded' = 0
  /\ pc' = IF current = None THEN "killed" ELSE "read"
  /\ UNCHANGED <<environment, pendingUsr, pendingChld, chld, overrun, current, msg, eintr, errno,
                 register>>

\* The 0 of an empty slot is nobody's pid: main then uses trader_list[-1].
StoreUsr ==
  /\ pc = "storeUsr"
  /\ usr' = [usr EXCEPT !.len = loaded - 1]
  /\ loaded' = 0
  /\ pc' = IF current = None THEN "killed" ELSE "read"
  /\ UNCHANGED <<environment, pendingUsr, pendingChld, chld, overrun, current, msg, eintr, errno,
                 register>>

UsrDone ==
  /\ pc = "usr" /\ ~ usr.len > 0
  /\ pc' = "chld"
  /\ UNCHANGED <<environment, signals, locals, eintr, errno, register>>

\* process_msg finds a message.  Main takes its count of bytes for a status: a
\* message of one byte has the status of an error.  A line that is too long is
\* written over what is next to msg, unless the sanitizer stops it.
Read ==
  /\ pc \in {"read", "blocked"} /\ alive[current] /\ pipe[current] # <<>>
  /\ pipe' = [pipe EXCEPT ![current] = Tail(@)]
  /\ msg' = Head(pipe[current])
  /\ pc' \in CASE msg' = ";" -> {"undefined"}
              [] msg' = "long line" -> {"undefined", "killed"}
              [] OTHER -> {"parse"}
  /\ UNCHANGED <<process, sent, odd, signals, current, loaded, eintr, errno, register>>

\* The pipe is empty: end of file if the trader has closed its end, and a wait
\* otherwise.  The descriptor of a dead trader is closed: read fails.
ReadNothing ==
  /\ pc \in {"read", "blocked"} /\ (alive[current] => pipe[current] = <<>>)
  /\ IF alive[current] /\ ~ Gone(current)
     THEN pc = "read" /\ pc' = "blocked"
     ELSE pc' = "undefined"
  /\ UNCHANGED <<environment, signals, locals, eintr, errno, register>>

\* parse_msg answers the sender, alone if the message is invalid, and else
\* tells every other trader that it believes to be alive.  A name that is too
\* long is no product's; it is written behind product[MAX_PROD], which a
\* sanitizer or a stack protector turns into death.  A number beyond a long
\* leaves ERANGE in errno, and a value that may be valid or not.
ParseMsg ==
  /\ pc = "parse"
  /\ \/ WriteTo({current}, "usr", "killed")
     \/ msg # "long name" /\ WriteTo({current} \cup {t \in Traders : alive[t]}, "usr", "killed")
     \/ msg = "long name" /\ pc' = "killed"
  /\ errno' = IF msg = "huge" THEN "other" ELSE errno
  /\ current' = None /\ msg' = None
  /\ UNCHANGED <<environment, signals, loaded, eintr, register>>

\* Mutant: a death may be counted again.
TraderDiedAgain(t, next) ==
  /\ alive' = [alive EXCEPT ![t] = FALSE]
  /\ numActive' = numActive - 1
  /\ errno' \in {errno, "other"}
  /\ pc' = IF numActive' = 0 THEN "completed" ELSE next

\* trader_died and, if it was the last one, all_traders_died.  Its unlinks fail
\* with ENOENT if the trader has removed the FIFOs itself, as pe_trader does.
\* An empty slot is nobody's death.
TraderDied(t, next) ==
  /\ IF t # None /\ alive[t]
     THEN /\ alive' = [alive EXCEPT ![t] = FALSE]
          /\ numActive' = numActive - 1
          /\ errno' \in {errno, "other"}
     ELSE UNCHANGED <<register, errno>>
  /\ pc' = IF numActive' = 0 THEN "completed" ELSE next

\* Mutant: the last death stays in the queue.
DeathQueuedBehindAnother == chld.len > 1 /\ usr.len = 0

\* The condition of the second loop.
DeathQueued == chld.len > 0 /\ usr.len = 0

TakeChld ==
  /\ pc = "chld" /\ DeathQueued
  /\ current' = chld.queue[chld.front]
  /\ pc' = "popChld"
  /\ UNCHANGED <<environment, signals, msg, loaded, eintr, errno, register>>

PopChld ==
  /\ pc = "popChld"
  /\ chld' = GivenUp(chld)
  /\ loaded' = chld.len
  /\ pc' = "storeChld"
  /\ UNCHANGED <<environment, pendingUsr, pendingChld, usr, overrun, current, msg, eintr, errno,
                 register>>

StoreChld ==
  /\ pc = "storeChld"
  /\ chld' = [chld EXCEPT !.len = loaded - 1]
  /\ loaded' = 0 /\ current' = None
  /\ TraderDied(current, "chld")
  /\ UNCHANGED <<environment, pendingUsr, pendingChld, usr, overrun, msg, eintr>>

ChldDone ==
  /\ pc = "chld" /\ ~ DeathQueued
  /\ pc' = "poll"
  /\ UNCHANGED <<environment, signals, locals, eintr, errno, register>>

Poll ==
  /\ pc = "poll"
  /\ pc' = "polling"
  /\ UNCHANGED <<environment, signals, locals, eintr, errno, register>>

\* Mutant: only traders that have exited are noticed.
HungUpExited == {t \in Traders : alive[t] /\ process[t] = "exited"}

\* Mutant: the pipes are watched for input too.
HungUpOrReadable == {t \in Traders : alive[t] /\ (Gone(t) \/ pipe[t] # <<>>)}

\* The living traders are watched; their pipes hang up when they close them,
\* whatever is still in them.
HungUp == {t \in Traders : alive[t] /\ Gone(t)}

\* epoll_wait returns one event.
HangUp(t) ==
  /\ pc = "polling" /\ t \in HungUp
  /\ TraderDied(t, "top")
  /\ UNCHANGED <<environment, signals, locals, eintr>>

\* epoll_wait returns 0 after a second, and errno is what it was before.
Timeout ==
  /\ pc = "polling" /\ HungUp = {}
  /\ IF errno = "EINTR" THEN pc' = "top" /\ eintr' = TRUE
                        ELSE pc' = "failed" /\ UNCHANGED eintr
  /\ UNCHANGED <<environment, signals, locals, errno, register>>

Main ==
  \/ \E t \in Traders : Fork(t) \/ HangUp(t)
  \/ ForkFails \/ OpenPipes \/ AllForked \/ Welcome
  \/ Top \/ TakeUsr \/ PopUsr \/ StoreUsr \/ UsrDone \/ Read \/ ReadNothing \/ ParseMsg
  \/ TakeChld \/ PopChld \/ StoreChld \/ ChldDone \/ Poll \/ Timeout
-----------------------------------------------------------------------------
Init ==
  /\ process = [t \in Traders |-> "unborn"]
  /\ pipe = [t \in Traders |-> <<>>]
  /\ sent = 0 /\ odd = {}
  /\ pendingUsr = None /\ pendingChld = None
  /\ usr = EmptyRing /\ chld = EmptyRing /\ overrun = FALSE
  /\ pc = "fork" /\ current = None /\ msg = None /\ loaded = 0
  /\ eintr = FALSE /\ errno = "other"
  /\ alive = [t \in Traders |-> FALSE]
  /\ numActive = 0

Next ==
  \/ \E t \in Traders : Trader(t)
  \/ Signal
  \/ Connect
  \/ Main

\* Main is scheduled and a pending signal is delivered.  Traders do what they
\* like: one may never open its pipes.
Spec == Init /\ [][Next]_vars /\ WF_vars(Main) /\ WF_vars(Signal)
-----------------------------------------------------------------------------
(* Properties *)

Ring == [queue : [0 .. Slots - 1 -> Traders \cup {None}], front : 0 .. Slots - 1,
         back : 0 .. Slots - 1, len : Int]

\* The shape of the state.
TypeOK ==
  /\ process \in [Traders -> {"unborn", "started", "open", "closed", "exited"}]
  /\ pipe \in [Traders -> Seq(Messages)]
  /\ sent \in Nat /\ odd \subseteq OddMessages \cup {"resend"}
  /\ pendingUsr \in Traders \cup {None} /\ pendingChld \in Traders \cup {None}
  /\ usr \in Ring /\ chld \in Ring /\ overrun \in BOOLEAN
  /\ pc \in Starting \cup Over \cup {"top", "pausing", "usr", "popUsr", "storeUsr", "read",
                                     "blocked", "parse", "chld", "popChld", "storeChld", "poll",
                                     "polling"}
  /\ current \in Traders \cup {None} /\ msg \in Messages \cup {None} /\ loaded \in Int
  /\ eintr \in BOOLEAN /\ errno \in {"EINTR", "other"}
  /\ alive \in [Traders -> BOOLEAN] /\ numActive \in 0 .. Cardinality(Traders)

\* A death may be seen as SIGCHLD, as a hang-up, or as both, in either order:
\* num_active is always the number of traders not yet declared dead, so that
\* trading is completed exactly when it should be.
DeathsCountedOnce ==
  Looping => /\ numActive = Cardinality({t \in Traders : alive[t]})
             /\ pc = "completed" <=> numActive = 0

\* Whoever is declared dead has closed its pipe or exited; in particular
\* nobody is trading when trading is completed.
DeadAreGone == Looping => \A t \in Traders : ~ alive[t] => Gone(t)

Unnoticed == {t \in Traders : alive[t] /\ Gone(t)}

\* Every end of the exchange but the proper one has one of these causes.  In
\* particular neither merged signals, nor a lost count of the queue, nor a
\* hang-up seen before or after the SIGCHLD, makes main read from an empty pipe,
\* take an empty slot, or find anything but its own interrupts in errno.
EndsHaveCauses ==
  /\ pc = "aborted" => \E t \in Traders : process[t] = "unborn" \/ Gone(t)
  /\ pc = "undefined" => odd \cap {";", "long line", "resend"} # {} \/ ~ alive[current]
  /\ pc = "killed" => overrun \/ odd \cap {"long name", "long line"} # {} \/ Unnoticed # {}
  /\ pc = "failed" => "huge" \in odd \/ \E t \in Traders : ~ alive[t]

\* As long as main keeps going round, it keeps emptying both queues as far as
\* their lengths tell: no death waits behind messages for ever, though the
\* deaths are looked at only when no message is counted.
CountedAreServed ==
  []<>(pc = "top") => []<>(usr.len = 0 /\ chld.len = 0)

\* "The epoll is used just in case a trader closes a pipe": as long as main keeps
\* coming back to epoll_wait, no closed pipe is overlooked, though every call
\* returns one event and messages and signals come in between.
ClosedPipesNoticed ==
  []<>(pc = "polling") => \A t \in Traders : t \in Unnoticed ~> t \notin Unnoticed \/ ~ Running

\* "This happens until there are no active traders left": the loop has no
\* other end,
RunsUntilAllLeft == Looping /\ ~ Running => pc = "completed"

\* and it ends when all the traders have closed their pipes or exited.
EndsWhenAllLeft == Looping /\ (\A t \in Traders : Gone(t)) ~> ~ Running
=============================================================================
