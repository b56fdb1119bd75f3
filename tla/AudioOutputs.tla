---------------------------- MODULE AudioOutputs -----------------------------
(****************************************************************************)
(* The sound page of Settings (Audio.qml) and its bridge                    *)
(* (Core/bridge/system/audio.py): the sound server, the "info" process that *)
(* reads it in several calls, and the "apply" process that changes it in    *)
(* several calls and is killed when the user asks for something else.       *)
(*                                                                          *)
(* With spatial sound the default sink is the spatial one, whose output     *)
(* stream plays on a device; the device that is heard is that of the stream.*)
(****************************************************************************)
EXTENDS Naturals

CONSTANTS
  Devices,    \* physical sinks, numbers in the order the server lists them
  Spatial,    \* the spatial sink
  Nothing,    \* no sink, no stream
  MaxPlugs    \* how often a device comes or goes

VARIABLES
  present,    \* the devices plugged in
  default,    \* the default sink
  stream,     \* where the spatial output stream plays, Nothing when not loaded
  hidden,     \* the file of hidden outputs
  plugs,
  info,       \* the "info" process: what it has read
  shown,      \* what the page shows
  apply       \* the "apply" process

svars == <<present, default, stream, hidden, plugs, info, shown, apply>>

NoInfo == [pc |-> "out"]
NoApply == [pc |-> "out"]

\* The device that is heard.
Heard == IF default = Spatial THEN stream ELSE default

First(ds) == IF ds = {} THEN Nothing ELSE CHOOSE d \in ds : \A e \in ds : d <= e

----------------------------------------------------------------------------
(* spatial_state and build_outputs_state, from what was read.               *)

TargetOf(sinks, st) == IF st \in sinks THEN st ELSE First(sinks)

Item(d, def, target, hid) ==
  [dev |-> d, effective |-> d = def \/ (def = Spatial /\ d = target), hidden |-> d \in hid]

\* mutant: the output in use may be hidden too
HideAll(item) == item.hidden

\* A hidden output that is in use stays in the list.
HideItem(item) == item.hidden /\ ~item.effective

Outputs(def, sinks, st, hid) ==
  LET items == {Item(d, def, TargetOf(sinks, st), hid) : d \in sinks}
  IN [all |-> items, visible |-> {i \in items : ~HideItem(i)}, def |-> def,
      sinks |-> sinks, target |-> TargetOf(sinks, st), stream |-> st]

----------------------------------------------------------------------------
\* refreshAudioInfo: the default sink is asked for first, then the sinks, then
\* the streams; the list of hidden outputs is read last.
StartInfo ==
  /\ info.pc = "out"
  /\ info' = [pc |-> "sinks", def |-> default]
  /\ UNCHANGED <<present, default, stream, hidden, plugs, shown, apply>>

ReadSinks ==
  /\ info.pc = "sinks"
  /\ info' = [pc |-> "streams", def |-> info.def, sinks |-> present]
  /\ UNCHANGED <<present, default, stream, hidden, plugs, shown, apply>>

ReadStreams ==
  /\ info.pc = "streams"
  /\ shown' = Outputs(info.def, info.sinks, stream, hidden)
  /\ info' = NoInfo
  /\ UNCHANGED <<present, default, stream, hidden, plugs, apply>>

----------------------------------------------------------------------------
\* A new request kills the process of the one before.
Begin(job) == apply' = job

\* setOutputAsDefault: a device of the list.
ChooseOutput(d) ==
  /\ d \in {i.dev : i \in shown.all}
  /\ Begin([pc |-> "choose", dev |-> d, then |-> default = Spatial, plugs |-> plugs])
  /\ UNCHANGED <<present, default, stream, hidden, plugs, info, shown>>

\* toggleSpatialAudio: off to the target shown, on with the target shown.
ToggleSpatial ==
  /\ shown.sinks # {} /\ stream # Nothing
  /\ Begin(IF shown.def = Spatial
           THEN [pc |-> "set", dev |-> shown.target]
           ELSE [pc |-> "set", dev |-> Spatial])
  /\ UNCHANGED <<present, default, stream, hidden, plugs, info, shown>>

SetHidden(d, hide) ==
  /\ d \in {i.dev : i \in shown.all}
  /\ Begin([pc |-> "hide", dev |-> d, hide |-> hide])
  /\ UNCHANGED <<present, default, stream, hidden, plugs, info, shown>>

SetDefaultSink(d) ==
  default' = IF d \in present \cup (IF stream = Nothing THEN {} ELSE {Spatial}) THEN d ELSE default

MoveStream(d) == stream' = IF stream # Nothing /\ d \in present THEN d ELSE stream

\* mutant: the default is always set
AlwaysSet == apply' = [apply EXCEPT !.pc = "set"]

\* set_default_sink: with spatial sound on, its stream is moved instead.
ByDefault ==
  apply' = [apply EXCEPT !.pc = IF default = Spatial THEN "move" ELSE "set"]

ApplyChoice ==
  /\ apply.pc = "choose"
  /\ ByDefault
  /\ UNCHANGED <<present, default, stream, hidden, plugs, info, shown>>

ApplyMove ==
  /\ apply.pc = "move"
  /\ MoveStream(apply.dev)
  /\ apply' = [apply EXCEPT !.pc = "spatial"]
  /\ UNCHANGED <<present, default, hidden, plugs, info, shown>>

ApplySpatial ==
  /\ apply.pc = "spatial"
  /\ SetDefaultSink(Spatial)
  /\ apply' = NoApply
  /\ UNCHANGED <<present, stream, hidden, plugs, info, shown>>

ApplySet ==
  /\ apply.pc = "set"
  /\ SetDefaultSink(apply.dev)
  /\ apply' = NoApply
  /\ UNCHANGED <<present, stream, hidden, plugs, info, shown>>

ApplyHide ==
  /\ apply.pc = "hide"
  /\ hidden' = IF apply.hide THEN hidden \cup {apply.dev} ELSE hidden \ {apply.dev}
  /\ apply' = NoApply
  /\ UNCHANGED <<present, default, stream, plugs, info, shown>>

----------------------------------------------------------------------------
\* The sound server moves what played on a device that is gone.
Plug ==
  /\ plugs < MaxPlugs
  /\ plugs' = plugs + 1
  /\ \E ds \in (SUBSET Devices) \ {present, {}} :
       /\ present' = ds
       /\ default' \in (IF default \in ds \cup {Spatial} THEN {default} ELSE ds)
       /\ stream' \in (IF stream \in ds \cup {Nothing} THEN {stream} ELSE ds)
  /\ UNCHANGED <<hidden, info, shown, apply>>

SpatialLoads ==
  /\ plugs < MaxPlugs
  /\ plugs' = plugs + 1
  /\ IF stream = Nothing THEN stream' \in present /\ UNCHANGED default
     ELSE /\ stream' = Nothing
          /\ default' \in IF default = Spatial THEN present ELSE {default}
  /\ UNCHANGED <<present, hidden, info, shown, apply>>

AudioInit ==
  /\ present = Devices
  /\ default \in Devices
  /\ stream \in Devices \cup {Nothing}
  /\ hidden = {} /\ plugs = 0
  /\ info = NoInfo /\ apply = NoApply
  /\ shown = Outputs(Nothing, {}, Nothing, {})

AudioNext ==
  \/ StartInfo \/ ReadSinks \/ ReadStreams
  \/ \E d \in Devices : ChooseOutput(d) \/ \E hide \in BOOLEAN : SetHidden(d, hide)
  \/ ToggleSpatial
  \/ ApplyChoice \/ ApplyMove \/ ApplySpatial \/ ApplySet \/ ApplyHide
  \/ Plug \/ SpatialLoads

AudioSpec == AudioInit /\ [][AudioNext]_svars

----------------------------------------------------------------------------
\* Whatever was read and however old, the page never hides the output it says
\* is in use, and says that of one output at most (build_outputs_state; the
\* reads are not one).
InUseIsShown ==
  /\ \A i \in shown.all : i.effective => i \in shown.visible
  /\ \A i, j \in shown.all : i.effective /\ j.effective => i = j
  /\ shown.def = Spatial /\ shown.sinks # {} => \E i \in shown.visible : i.effective

\* A device chosen is the one heard when its request ends, and spatial sound is
\* neither lost nor turned on by choosing, unless devices come or go meanwhile
\* (set_default_sink of apply_config).
ChoosingStep ==
  apply.pc \in {"spatial", "set"} /\ "then" \in DOMAIN apply /\ apply'.pc = "out"
    /\ plugs = apply.plugs /\ apply.dev \in present =>
  Heard' = apply.dev /\ (default' = Spatial) = apply.then
ChosenIsHeard == [][ChoosingStep]_svars

----------------------------------------------------------------------------
(* The inductive invariant of both *)

Choices == [pc : {"choose", "move", "spatial", "set"}, dev : Devices, then : BOOLEAN, plugs : Nat]
Applies == {NoApply} \cup Choices \cup [pc : {"set"}, dev : Devices \cup {Spatial}]
           \cup [pc : {"hide"}, dev : Devices, hide : BOOLEAN]
Sinks   == Devices \cup {Spatial}
Streams == Devices \cup {Nothing}

\* Every variable has its type; what the page shows was built from some reading.
AudioTypeOK ==
  /\ present \subseteq Devices /\ default \in Sinks /\ stream \in Streams
  /\ hidden \subseteq Devices /\ plugs \in Nat
  /\ info \in {NoInfo} \cup [pc : {"sinks"}, def : Sinks]
              \cup [pc : {"streams"}, def : Sinks, sinks : SUBSET Devices]
  /\ \E def \in Sinks \cup {Nothing}, sinks \in SUBSET Devices, st \in Streams,
        hid \in SUBSET Devices : shown = Outputs(def, sinks, st, hid)
  /\ apply \in Applies

\* A choice goes by what spatial sound was, unless devices came or went since.
Meant(c) ==
  /\ c.plugs <= plugs
  /\ c.plugs = plugs =>
       /\ default = Spatial <=> c.then
       /\ c.pc \in {"move", "spatial"} => c.then
       /\ c.pc = "set" => ~c.then
       /\ c.pc = "spatial" /\ c.dev \in present => stream = c.dev

AudioInv ==
  /\ AudioTypeOK /\ (default = Spatial => stream # Nothing)
  /\ apply \in Choices => Meant(apply)
=============================================================================
