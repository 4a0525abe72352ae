------------------------------ MODULE MCDevice ------------------------------
(***************************************************************************)
(* Instances for TLC of four components that share no state: the           *)
(* descriptors plan_tile() places, the host buffers of a load and of       *)
(* sessions, a diagnostic operation on a tile, and the exchange rows of a  *)
(* tile.  A behaviour is one of one of them; the others keep their first   *)
(* state.                                                                  *)
(***************************************************************************)
EXTENDS HostDescriptors, HostBuffers, TileDebug, ExchangeRows

(* Four phases: a short packet, none, a long packet, a short one again.    *)
(* Tensors leave holes that fit some requests exactly, or begin or end     *)
(* between words, with and without the reserved range.                     *)
Packets == <<4, 0, 8, 4>>
Undeduplicated == <<52, 36, 36, 16, 0>>
Range24 == <<24, 76>>
HolesLeft ==
  { {}, {<<0, 12>>}, {<<1, 9>>, <<10, 22>>}, {<<3, 15>>, <<17, 24>>},
    {<<2, 6>>, <<8, 20>>, <<76, 80>>}, {<<0, 24>>}, {<<4, 24>>, <<76, 91>>} }
HoleLayouts == UNION {{hs \cup {Range24}, hs \cup {<<40, 52>>}} : hs \in HolesLeft}

SessionPages == <<1, 2>>

(* Rows of two timed words: a word without an address, and sends from the  *)
(* addresses 0, 1 and 3; a phase before, in and after a repeat.            *)
RowSteps == <<[exchange |-> 1], [repeat |-> <<2>>], [exchange |-> 3]>>
RowsOfTwo == {InactiveRow} \cup {<<a, b, Return>> : a \in {4, 5}, b \in {1, 4, 5, 7}}
FieldProgressions == {<<0, 1, 2>>, <<3, 2, 1>>, <<1, 3, 1>>}

VARIABLE component

DescriptorsIdle ==
  /\ k = 1 /\ stage = "packet" /\ holes = {} /\ ranges = {} /\ cache = {}
  /\ source = [j \in 1..N |-> <<>>] /\ table = [j \in 1..N |-> 0]
  /\ mem = [a \in 0..Limit |-> Blank]
DebugIdle == state = Idle /\ break = 0 /\ pending = <<>> /\ DebugInit
RowsIdle == tile = [p \in Phases |-> [words |-> InactiveRow, patches |-> <<>>, moving |-> FALSE]] /\ RowInit

DeviceInit ==
  \/ component = "descriptors" /\ Init /\ BufferInit /\ DebugIdle /\ RowsIdle
  \/ component = "buffers" /\ DescriptorsIdle /\ BufferInit /\ DebugIdle /\ RowsIdle
  \/ component = "debug" /\ DescriptorsIdle /\ BufferInit /\ DebugInit /\ RowsIdle
  \/ component = "rows" /\ DescriptorsIdle /\ BufferInit /\ DebugIdle /\ RowInit

PlansDescriptors ==
  component = "descriptors" /\ Next /\ UNCHANGED <<component, bufferVars, debugVars, rowVars>>
Loads ==
  component = "buffers" /\ LoadStep /\ UNCHANGED <<component, vars, debugVars, rowVars>>
Serves ==
  /\ component = "buffers" /\ (Serve \/ BootReads \/ BootAcknowledges)
  /\ UNCHANGED <<component, vars, debugVars, rowVars>>
Debugs ==
  component = "debug" /\ DebugNext /\ UNCHANGED <<component, vars, bufferVars, rowVars>>
RunsRows ==
  component = "rows" /\ RowNext /\ UNCHANGED <<component, vars, bufferVars, debugVars>>

DeviceNext == PlansDescriptors \/ Loads \/ Serves \/ Debugs \/ RunsRows

\* The fairness of BufferSpec.
DeviceSpec ==
  /\ DeviceInit
  /\ [][DeviceNext]_<<component, vars, bufferVars, debugVars, rowVars>>
  /\ WF_<<component, bufferVars>>(Loads)

=============================================================================
