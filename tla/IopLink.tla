------------------------------ MODULE IopLink ------------------------------
(***************************************************************************)
(* Two I/O processors of a cluster (iop_cluster.cpp) and the accumulator   *)
(* channels between them (IopIopChannel_c, iop_iop2iop.h/.cpp).  A channel *)
(* holds one parcel: the output half (AO) of the source writes it, the     *)
(* input half (AI) of the destination reads it and sets the source's done  *)
(* flag.  The output half also dead starts the destination; the source is  *)
(* then stalled until the destination has left reset.  (The throttle of a  *)
(* source with a waiting parcel is 0 in the constructor and does nothing.) *)
(*                                                                         *)
(* The main loop calls Tick for one IOP after the other: IOP turn is       *)
(* between two Ticks (phase "tick") or in the burst of one ("burst").      *)
(*                                                                         *)
(* Functions 6 and 7, which disable and enable the interrupt of a channel, *)
(* are left out: an IOP may or may not see the interrupt of a parcel.      *)
(*                                                                         *)
(* Guest assumption: an IOP writes the next parcel only when the last one  *)
(* was answered by done, or was withdrawn by a clear of its own, and reads *)
(* the input channel only when it is done.                                 *)
(***************************************************************************)
EXTENDS Integers, Sequences

CONSTANTS
  StartupIop,  \* mStartupIopIdx
  MaxSend,     \* bound on the parcels an IOP sends in a behaviour
  MaxClear     \* bound on dead starts of the cluster

Iops == {0, 1}
Other(i) == 1 - i

(* The channel link[i] leads from IOP i to the other one. *)
VARIABLES
  inReset,   \* inReset[i]: mState.InReset, TRUE only until the first interrupt
  started,   \* done flag of IOP i's buffer memory channel, set by dead start
  enabled,   \* mState.I of IOP i
  turn,      \* mIopTickIdx
  phase,     \* where IOP turn is in Tick
  link,      \* mData, mDataValid, and mDone, mCtrlReg, mResetStalling of the
             \* output half
  waiting,   \* the program of IOP i waits for the answer to a parcel
  sent,      \* number of parcels IOP i has sent
  taken,     \* history: parcels the other IOP has taken from link[i]
  dropped,   \* history: parcels of link[i] that were lost in a clear
  clears     \* number of dead starts of the cluster so far

iopVars == <<inReset, started, enabled>>
history == <<sent, taken, dropped>>
linkVars == <<iopVars, turn, phase, link, waiting, history, clears>>

Empty == [data |-> 0, valid |-> FALSE, done |-> FALSE, ctrl |-> 0, stalling |-> FALSE]

LinkInit ==
  /\ inReset = [i \in Iops |-> TRUE] /\ started = [i \in Iops |-> FALSE]
  /\ enabled = [i \in Iops |-> TRUE]
  /\ turn = 0 /\ phase = "tick"
  /\ link = [i \in Iops |-> Empty]
  /\ waiting = [i \in Iops |-> FALSE] /\ sent = [i \in Iops |-> 0]
  /\ taken = [i \in Iops |-> <<>>] /\ dropped = [i \in Iops |-> {}] /\ clears = 0

(* MasterClear of the output and of the input half. *)
OutputCleared(l) == [Empty EXCEPT !.data = l.data]
InputCleared(l) == [l EXCEPT !.valid = FALSE]

(* A parcel that waits in channel i when its valid bit is cleared is lost. *)
Lost(i) == IF link[i].valid THEN dropped[i] \cup {link[i].data} ELSE dropped[i]

(* IopCluster_c::DeadStart: master clear for every IOP, dead start for one *)
(* of them.  No IOP is put back into reset.                                *)
ClusterDeadStart ==
  /\ phase = "tick"
  /\ clears < MaxClear /\ clears' = clears + 1
  /\ link' = [i \in Iops |-> OutputCleared(link[i])]
  /\ dropped' = [i \in Iops |-> Lost(i)]
  /\ enabled' = [i \in Iops |-> TRUE]
  /\ started' = [i \in Iops |-> i = StartupIop]
  /\ waiting' = [i \in Iops |-> FALSE]
  /\ UNCHANGED <<inReset, turn, phase, sent, taken>>

-----------------------------------------------------------------------------
(* IopCpu_c::Tick *)

Beginning(i) == turn = i /\ phase = "tick" /\ UNCHANGED <<waiting, history, clears>>

(* ChannelAO_c::StallIop *)
Stalled(i) == link[i].stalling /\ inReset[Other(i)]
StallOver(i) == [link EXCEPT ![i].stalling = FALSE]

(* The early return of Tick.  The IOP that was dead started has its turn   *)
(* first and leaves reset in it, so this never happens: see StallEnds.     *)
Stall(i) ==
  /\ Beginning(i) /\ Stalled(i)
  /\ turn' = Other(i)
  /\ UNCHANGED <<iopVars, phase, link>>

(* An interrupt, by dead start or by a parcel sent or taken, takes an IOP  *)
(* out of reset.                                                           *)
ParcelEvent(i) == link[Other(i)].valid \/ link[i].done

Interrupt(i) ==
  /\ Beginning(i) /\ ~Stalled(i)
  /\ enabled[i] /\ (started[i] \/ ParcelEvent(i))
  /\ inReset' = [inReset EXCEPT ![i] = FALSE]
  /\ enabled' = [enabled EXCEPT ![i] = FALSE]
  /\ link' = StallOver(i) /\ phase' = "burst"
  /\ UNCHANGED <<started, turn>>

NoInterrupt(i) ==
  /\ Beginning(i) /\ ~Stalled(i)
  /\ ~(enabled[i] /\ started[i])
  /\ link' = StallOver(i)
  /\ IF inReset[i] THEN turn' = Other(i) /\ UNCHANGED phase
                   ELSE phase' = "burst" /\ UNCHANGED turn
  /\ UNCHANGED iopVars

(* The end of the burst; the program may have enabled interrupts in it. *)
EndBurst(i) ==
  /\ turn = i /\ phase = "burst"
  /\ enabled' \in {enabled, [enabled EXCEPT ![i] = TRUE]}
  /\ turn' = Other(i) /\ phase' = "tick"
  /\ UNCHANGED <<inReset, started, link, waiting, history, clears>>

-----------------------------------------------------------------------------
(* The instructions that use the channels *)

Executes(i) == turn = i /\ phase = "burst" /\ UNCHANGED <<inReset, turn, phase, clears>>

(* The service routine of dead start clears the buffer memory channel. *)
AcknowledgeStart(i) ==
  /\ Executes(i) /\ started[i]
  /\ started' = [started EXCEPT ![i] = FALSE]
  /\ UNCHANGED <<enabled, link, waiting, history>>

(* AO function 14 *)
Write(i) ==
  /\ Executes(i) /\ ~waiting[i] /\ sent[i] < MaxSend
  /\ sent' = [sent EXCEPT ![i] = @ + 1]
  /\ waiting' = [waiting EXCEPT ![i] = TRUE]
  /\ link' = [link EXCEPT ![i].data = sent[i] + 1, ![i].valid = TRUE, ![i].done = FALSE]
  /\ UNCHANGED <<started, enabled, taken, dropped>>

(* AO function 0, by which the source acknowledges done or withdraws a     *)
(* parcel.                                                                 *)
ClearOutput(i) ==
  /\ Executes(i)
  /\ link' = [link EXCEPT ![i].valid = FALSE, ![i].done = FALSE]
  /\ waiting' = [waiting EXCEPT ![i] = FALSE]
  /\ dropped' = [dropped EXCEPT ![i] = Lost(i)]
  /\ UNCHANGED <<started, enabled, sent, taken>>

(* AI function 0 drops a parcel without telling the source. *)
ClearInputAnswers(i) ==
  /\ Executes(i)
  /\ link' = [link EXCEPT ![Other(i)].valid = FALSE, ![Other(i)].done = TRUE]
  /\ dropped' = [dropped EXCEPT ![Other(i)] = Lost(Other(i))]
  /\ UNCHANGED <<started, enabled, waiting, sent, taken>>
ClearInput(i) ==
  /\ Executes(i)
  /\ link' = [link EXCEPT ![Other(i)].valid = FALSE]
  /\ dropped' = [dropped EXCEPT ![Other(i)] = Lost(Other(i))]
  /\ UNCHANGED <<started, enabled, waiting, sent, taken>>

(* AI function 10 *)
Read(i) ==
  /\ Executes(i) /\ link[Other(i)].valid
  /\ taken' = [taken EXCEPT ![Other(i)] = Append(@, link[Other(i)].data)]
  /\ link' = [link EXCEPT ![Other(i)].valid = FALSE, ![Other(i)].done = TRUE]
  /\ UNCHANGED <<started, enabled, waiting, sent, dropped>>

(* AO function 1 with the dead start (2) and master clear (1) bits.  When  *)
(* both fall together the destination is cleared and dead started.         *)
SetControl(i, c) ==
  /\ Executes(i) /\ ~(c = 0 /\ link[i].ctrl = 3)
  /\ link' = [link EXCEPT ![i].ctrl = c]
  /\ UNCHANGED <<started, enabled, waiting, history>>

StartedOnlyIfRunning(d) == [started EXCEPT ![d] = ~inReset[d]]
StartedByDeadStart(d) == [started EXCEPT ![d] = TRUE]

DropControl(i) ==
  LET d == Other(i) IN
  /\ Executes(i) /\ link[i].ctrl = 3
  /\ link' = [link EXCEPT ![d] = OutputCleared(@), ![i].valid = FALSE,
                          ![i].ctrl = 0, ![i].stalling = TRUE]
  /\ dropped' = [x \in Iops |-> Lost(x)]
  /\ enabled' = [enabled EXCEPT ![d] = TRUE]
  /\ started' = StartedByDeadStart(d)
  /\ waiting' = [waiting EXCEPT ![d] = FALSE]
  /\ UNCHANGED <<sent, taken>>

LinkNext ==
  \/ ClusterDeadStart
  \/ \E i \in Iops :
       \/ Stall(i) \/ Interrupt(i) \/ NoInterrupt(i) \/ EndBurst(i)
       \/ AcknowledgeStart(i)
       \/ Write(i) \/ ClearOutput(i) \/ ClearInput(i) \/ Read(i)
       \/ DropControl(i)
       \/ \E c \in {0, 2, 3} : SetControl(i, c)

LinkSpec == LinkInit /\ [][LinkNext]_linkVars

-----------------------------------------------------------------------------
(* The done flag of an output channel is an answer: the last parcel its    *)
(* IOP sent is the last one the other IOP took.  A parcel that was lost in *)
(* a clear of either side must not be reported as taken, and no parcel is  *)
(* taken twice or out of order.                                            *)
ParcelsAnswered ==
  \A i \in Iops :
    /\ link[i].done => taken[i] # <<>> /\ taken[i][Len(taken[i])] = sent[i]
    /\ \A n \in 1 .. Len(taken[i]) - 1 : taken[i][n] < taken[i][n + 1]
    /\ \A n \in 1 .. Len(taken[i]) : taken[i][n] \notin dropped[i]

(* Two IOPs never wait for each other: an IOP that is to stall until the   *)
(* one it dead started leaves reset finds the dead start interrupt waiting *)
(* there, interrupts enabled, and nothing that stalls that IOP in turn; by *)
(* its own next turn it is released.                                       *)
StallEnds ==
  \A i \in Iops :
    Stalled(i) => /\ started[Other(i)] /\ enabled[Other(i)] /\ ~link[Other(i)].stalling
                  /\ ~(turn = i /\ phase = "tick")
=============================================================================
