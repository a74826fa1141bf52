---------------------------- MODULE SignalQueue ----------------------------
(***************************************************************************)
(* The circular queue between the SIGUSR1 handler and the main loop of     *)
(* pe_exchange.c; the SIGCHLD queue is the same code on its own globals.   *)
(* The handler runs between any two instructions of main, and main cannot  *)
(* run until it returns, so it is one step.  pop_sigusr is not: its        *)
(* `sigusr_queue_len--' is a load and a later store, and nothing blocks    *)
(* the signal meanwhile.                                                   *)
(*                                                                         *)
(* `delivered' and `served' are histories: the senders of the signals, in  *)
(* the order of their handlers, and in the order main attends to them.     *)
(***************************************************************************)
EXTENDS Integers, Sequences, SequencesExt

CONSTANTS
  Senders,     \* the processes that signal
  NoPid,       \* the 0 of an empty slot
  QueueLen,    \* QUEUE_LEN, 100: the slots of the array
  Slots,       \* 50: where front and back go back to 0
  MaxUnread,   \* bound: unread signals the senders let build up
  MaxSignals   \* bound: signals in a behaviour

ASSUME SignalQueueAssumption ==
  /\ NoPid \notin Senders
  /\ Slots \in Nat \ {0} /\ QueueLen \in Nat /\ Slots <= QueueLen
  /\ MaxUnread \in Nat /\ MaxSignals \in Nat

VARIABLES queue, len, front, back,   \* sigusr_queue and its three ints
          pc,                        \* where main is
          pid, loaded,               \* main's local pid; the int it has loaded
          delivered, served

vars == <<queue, len, front, back, pc, pid, loaded, delivered, served>>
history == <<delivered, served>>

\* The signals queued and not popped yet; the one being popped is among them
\* until the length is stored.
Unread == Len(delivered) - Len(served) - (IF pc = "serve" THEN 1 ELSE 0)

\* Mutant: the wrap comes one slot late.
AdvancedLate(i) == IF i + 1 > Slots THEN 0 ELSE i + 1

Advanced(i) == IF i + 1 = Slots THEN 0 ELSE i + 1

\* Mutant: main lets go of the queue with one signal left in it.
TakeWhileMany ==
  /\ pc = "test" /\ len > 1
  /\ pid' = queue[front]
  /\ pc' = "clear"
  /\ UNCHANGED <<queue, len, front, back, loaded, history>>

\* Mutant: the back moves before the slot is written.
HandlerSkipping(p) ==
  /\ Unread < MaxUnread /\ Len(delivered) < MaxSignals
  /\ back' = Advanced(back)
  /\ queue' = [queue EXCEPT ![back'] = p]
  /\ len' = len + 1
  /\ delivered' = Append(delivered, p)
  /\ UNCHANGED <<front, pc, pid, loaded, served>>

\* sigusr_handler
Handler(p) ==
  /\ Unread < MaxUnread /\ Len(delivered) < MaxSignals
  /\ queue' = [queue EXCEPT ![back] = p]
  /\ back' = Advanced(back)
  /\ len' = len + 1
  /\ delivered' = Append(delivered, p)
  /\ UNCHANGED <<front, pc, pid, loaded, served>>

\* while (sigusr_queue_len > 0): pid = sigusr_queue[sigusr_front]
Take ==
  /\ pc = "test" /\ len > 0
  /\ pid' = queue[front]
  /\ pc' = "clear"
  /\ UNCHANGED <<queue, len, front, back, loaded, history>>

\* pop_sigusr, in its four instructions.
Clear ==
  /\ pc = "clear"
  /\ queue' = [queue EXCEPT ![front] = NoPid]
  /\ pc' = "advance"
  /\ UNCHANGED <<len, front, back, pid, loaded, history>>

Advance ==
  /\ pc = "advance"
  /\ front' = Advanced(front)
  /\ pc' = "load"
  /\ UNCHANGED <<queue, len, back, pid, loaded, history>>

Load ==
  /\ pc = "load"
  /\ loaded' = len
  /\ pc' = "store"
  /\ UNCHANGED <<queue, len, front, back, pid, history>>

\* Mutant: the length is stored as it was loaded.
StoreUnchanged ==
  /\ pc = "store"
  /\ len' = loaded
  /\ pc' = "serve"
  /\ UNCHANGED <<queue, front, back, pid, loaded, history>>

Store ==
  /\ pc = "store"
  /\ len' = loaded - 1
  /\ pc' = "serve"
  /\ UNCHANGED <<queue, front, back, pid, loaded, history>>

\* The sender is looked up, and its message read and parsed.
Serve ==
  /\ pc = "serve"
  /\ served' = Append(served, pid)
  /\ pc' = "test"
  /\ UNCHANGED <<queue, len, front, back, pid, loaded, delivered>>

Main == Take \/ Clear \/ Advance \/ Load \/ Store \/ Serve

Init ==
  /\ queue = [i \in 0 .. QueueLen - 1 |-> NoPid]
  /\ len = 0 /\ front = 0 /\ back = 0
  /\ pc = "test" /\ pid = NoPid /\ loaded = 0
  /\ delivered = <<>> /\ served = <<>>

Next == Main \/ \E p \in Senders : Handler(p)

\* The loop does not stop while the process is scheduled; senders may.
Spec == Init /\ [][Next]_vars /\ WF_vars(Main)
-----------------------------------------------------------------------------
(* Properties *)

\* The shape of the state.
TypeOK ==
  /\ queue \in [0 .. QueueLen - 1 -> Senders \cup {NoPid}]
  /\ len \in Int /\ front \in 0 .. Slots - 1 /\ back \in 0 .. Slots - 1
  /\ pc \in {"test", "clear", "advance", "load", "store", "serve"}
  /\ pid \in Senders \cup {NoPid} /\ loaded \in Int
  /\ delivered \in Seq(Senders) /\ served \in Seq(Senders \cup {NoPid})

\* Main attends to the senders in the order of their signals, each once, and
\* never to an empty slot (which would make it use trader_list[-1]), while at
\* most Slots signals are unread: QUEUE_LEN, 100, is documented as the "length
\* of signal queues", but the indices wrap at 50.
ServedInOrder ==
  IsPrefix(IF pc = "test" THEN served ELSE Append(served, pid), delivered)

\* The handler may come between the load and the store of main, but the count
\* left behind never exceeds the signals that are there: the race can hide a
\* signal from main and never makes one up.
NeverOvercounted == len <= Unread

\* Once the senders are quiet, main pauses for good with nothing counted.
Drained == <>[](pc = "test" /\ len = 0)

\* "A loop runs until there is nothing in the SIGUSR1 queue": when main leaves
\* the loop, every signal its handler has queued has been attended to.
NoneLeftBehind == pc = "test" /\ len = 0 => Len(served) = Len(delivered)
=============================================================================
