-------------------------- MODULE MCIopCrayChannel --------------------------
(***************************************************************************)
(* Two workloads of the channels between the mainframe and an I/O          *)
(* processor in one run.                                                   *)
(***************************************************************************)
EXTENDS IopCrayChannel, TLC

VARIABLE workload

(* "transfer": one channel of either direction between memories of three   *)
(* words.  A window ends before, with and after the count of a transfer; a *)
(* count of 0 stands for three words, and the IOP's addresses wrap; the    *)
(* window <<2, 2>> closes the channel.  The other channel is not used.     *)
TwoDirs == {<<"CtoI", "ItoC">>, <<"ItoC", "ItoC">>}
OneWindows == <<{<<0, 2>>, <<1, 2>>, <<0, 3>>, <<2, 2>>}, {}>>

Unused(ch) ==
  /\ busy'[ch] = busy[ch] /\ done'[ch] = done[ch] /\ ready'[ch] = ready[ch]
  /\ hold'[ch] = hold[ch] /\ ioAddr'[ch] = ioAddr[ch] /\ size'[ch] = size[ch]

(* "interrupts": an input and an output channel, or two output channels,   *)
(* each of which transfers single words, is closed, cleared and            *)
(* disconnected in any order.                                              *)
Pair == INSTANCE IopCrayChannel
  WITH Windows <- <<{<<0, 1>>, <<1, 1>>}, {<<0, 1>>, <<1, 1>>}>>,
       IoSize <- 1, IoAddrs <- {0}, Sizes <- {1}

CountProgrammed ==
  \A ch \in Channels : busy'[ch] /\ ~busy[ch] => size[ch] = 1

ChannelInit == Init /\ workload \in {"transfer", "interrupts"}

ChannelNext ==
  \/ workload = "transfer" /\ Next /\ Unused(2) /\ UNCHANGED workload
  \/ workload = "interrupts" /\ Pair!Next /\ CountProgrammed /\ UNCHANGED workload

(* The fairness of FairSpec. *)
Transferring(t) ==
  /\ \/ workload = "transfer" /\ DoTransfer(t)
     \/ workload = "interrupts" /\ Pair!DoTransfer(t)
  /\ UNCHANGED workload

ChannelSpec ==
  /\ ChannelInit /\ [][ChannelNext]_<<vars, workload>>
  /\ \A t \in Threads : WF_<<vars, workload>>(Transferring(t))
  /\ WF_<<vars, workload>>(TakeInterrupt /\ UNCHANGED workload)
  /\ WF_<<vars, workload>>(ClearInterrupt /\ UNCHANGED workload)
=============================================================================
