----------------------------- MODULE PackedLayout -----------------------------
(***************************************************************************)
(* Packed expert files: built from the checkpoint                          *)
(* (scripts/build_packed_expert_layout.py), copied in another order        *)
(* (scripts/repack_packed_layout.py) and read by the runtime               *)
(* (PackedExpertStore in spark_runtime/lazy_official_runtime.py, the read  *)
(* loop of native/native_packed_loader.cpp).                               *)
(*                                                                         *)
(* A directory holds one file per layer, with the blocks of its experts    *)
(* one after another, and layout.json, which says where each block and     *)
(* each tensor in it begins.  One tool writes at a time and may stop       *)
(* anywhere; a server reads meanwhile.  A file is a sequence of cells, and *)
(* a cell of a tensor is <<expert, component, i>>.                         *)
(***************************************************************************)
EXTENDS Integers, Sequences, FiniteSets

CONSTANTS
    Experts,    \* routed experts: numbers, which order each layer's experts
    LayerOf,    \* the layer of each expert
    Components, \* the tensors of an expert, numbered by tensor_sort_key
    Size,       \* bytes of each component
    Shard,      \* the checkpoint's file, as a sequence of cells
    SourceOf,   \* source_offset of each tensor in it
    Trace,      \* the experts of a route trace, one use after another
    Dirs,       \* directories for packed files
    Configs,    \* configurations, one of which a behaviour has
    None

Layers == {LayerOf[e] : e \in Experts}

\* The entry of an expert in layout.json: where its block is, and where each tensor is
\* in the block.
Places == [offset : Nat, bytes : Nat]
Entries == [offset : Nat, bytes : Nat, tensors : UNION {[C -> Places] : C \in SUBSET Components}]

\* What the checkpoint holds for a tensor.
Tensor(e, c) == [i \in 1..Size[c] |-> <<e, c, i>>]
Cells == Experts \X Components \X Nat

ASSUME ExpertAssumption == Experts \subseteq Nat /\ LayerOf \in [Experts -> Nat]
ASSUME ComponentAssumption ==
    Components \subseteq Nat /\ Components # {} /\ Size \in [Components -> Nat \ {0}]
ASSUME TraceAssumption == Trace \in Seq(Experts)
ASSUME NoneAssumption ==
    /\ None \notin Experts \cup Components \cup Dirs /\ None \notin Seq(Cells)
    /\ \A S \in SUBSET Experts : None \notin [S -> Entries]
\* The manifest says where in the checkpoint each tensor is.
ASSUME ShardAssumption ==
    /\ Shard \in Seq(Cells)
    /\ SourceOf \in [Experts \X Components -> Nat]
    /\ \A e \in Experts, c \in Components :
          /\ SourceOf[<<e, c>>] + Size[c] <= Len(Shard)
          /\ \A i \in 1..Size[c] : Shard[SourceOf[<<e, c>>] + i] = <<e, c, i>>

\* A build has a filter of experts; a repack has an input directory and an order.
\* routes: --route-jsonl with --top-per-layer top.
BuildJobs == [kind : {"build"}, dir : Dirs, overwrite : BOOLEAN,
              layers : SUBSET Layers, experts : SUBSET Experts,
              routes : BOOLEAN, top : Nat]
RepackJobs == [kind : {"repack"}, dir : Dirs, overwrite : BOOLEAN,
               from : Dirs, order : {"expert_id", "hot_first"}]

\* jobs: the commands that are run, in any order and any number of times; shard:
\* the bytes of the checkpoint that are there; native: DEEPSEEK_SPARK_PACKED_
\* NATIVE_LOADER.
ASSUME ConfigAssumption ==
    Configs \subseteq [jobs : SUBSET (BuildJobs \cup RepackJobs),
                       shard : 0..Len(Shard), native : BOOLEAN]

VARIABLES
    config,
    files,      \* the layer files, by directory and layer
    layouts,    \* layout.json of each directory
    job,        \* the command that runs
    out,        \* what it has written to the layer file that it has open
    entries,    \* the entries of the layout that it makes
    reader      \* PackedExpertStore, and the call that it is in

vars == <<config, files, layouts, job, out, entries, reader>>

NoJob == [cmd |-> None, at |-> "idle", input |-> <<>>, layers |-> {},
          layer |-> None, experts |-> {}, tensors |-> {}]
NoReader == [dir |-> None, layout |-> <<>>, at |-> "closed",
             expert |-> None, buffer |-> <<>>, result |-> <<>>]

Init ==
    /\ config \in Configs
    /\ files = [d \in Dirs |-> [l \in Layers |-> None]]
    /\ layouts = [d \in Dirs |-> None]
    /\ job = NoJob /\ out = <<>> /\ entries = <<>>
    /\ reader = NoReader

-----------------------------------------------------------------------------
(* Reading and writing files *)

\* os.pread: what is there of the n bytes at an offset.
Pread(file, n, offset) ==
    LET got == IF offset + n <= Len(file) THEN n
               ELSE IF offset < Len(file) THEN Len(file) - offset ELSE 0
    IN [i \in 1..got |-> file[offset + i]]

\* What may be on the disk of a file that has been written up to `written`.
Flushed(disk, written) == {SubSeq(written, 1, n) : n \in Len(disk)..Len(written)}

File == files[job.cmd.dir][job.layer]

\* Function f with the value v for x.
With(f, x, v) == [y \in DOMAIN f \cup {x} |-> IF y = x THEN v ELSE f[y]]

-----------------------------------------------------------------------------
(* Which experts, and in which order *)

Uses(e) == Cardinality({i \in DOMAIN Trace : Trace[i] = e})
FirstUse(e) == CHOOSE i \in DOMAIN Trace : Trace[i] = e /\ \A j \in 1..(i - 1) : Trace[j] # e

\* Counter.most_common(n) for the experts of a layer.
MostCommon(l, n) ==
    LET seen == {e \in Experts : LayerOf[e] = l /\ Uses(e) > 0}
        Ahead(f, e) == Uses(f) > Uses(e) \/ (Uses(f) = Uses(e) /\ FirstUse(f) < FirstUse(e))
    IN {e \in seen : Cardinality({f \in seen : Ahead(f, e)}) < n}

\* The experts of by_expert.
Selected(cmd) ==
    {e \in Experts :
        /\ LayerOf[e] \in cmd.layers /\ e \in cmd.experts
        /\ cmd.routes => e \in MostCommon(LayerOf[e], cmd.top)}

\* Expert e is written before expert f of its layer.
Before(cmd, e, f) ==
    IF cmd.kind = "build" \/ cmd.order = "expert_id" \/ Uses(e) = Uses(f)
    THEN e < f ELSE Uses(e) > Uses(f)

First(S, Less(_, _)) == {x \in S : \A y \in S \ {x} : Less(x, y)}

-----------------------------------------------------------------------------
(* build_layout, and main of the repack *)

\* Mutant of Refused: --overwrite is not asked for.
RefusedNever(cmd) == FALSE

\* The command finds a layout and is not told to overwrite it.
Refused(cmd) == layouts[cmd.dir] # None /\ ~cmd.overwrite

\* The command begins.  A repack has read its input layout by now.
Begin(cmd) ==
    /\ job.at = "idle" /\ ~Refused(cmd)
    /\ LET experts == IF cmd.kind = "build" THEN Selected(cmd)
                      ELSE IF layouts[cmd.from] = None THEN {} ELSE DOMAIN layouts[cmd.from]
       IN /\ experts # {}
          /\ job' = [NoJob EXCEPT !.cmd = cmd, !.at = "layer",
                        !.input = IF cmd.kind = "build" THEN [e \in experts |-> None]
                                  ELSE layouts[cmd.from],
                        !.layers = {LayerOf[e] : e \in experts}]
    /\ out' = <<>> /\ entries' = <<>>
    /\ UNCHANGED <<config, files, layouts, reader>>

\* The tool stops: an exception, a signal, a full disk.  The file that is open has
\* some of what was written to it; no layout is written.
Die ==
    /\ job.at # "idle"
    /\ IF job.at = "write"
       THEN \E disk \in Flushed(File, out) :
               files' = [files EXCEPT ![job.cmd.dir][job.layer] = disk]
       ELSE UNCHANGED files
    /\ job' = NoJob /\ out' = <<>> /\ entries' = <<>>
    /\ UNCHANGED <<config, layouts, reader>>

\* The next layer's file is opened, and so emptied.  A file that is there without
\* --overwrite raises (Die).
OpenLayer ==
    /\ job.at = "layer"
    /\ \E l \in First(job.layers, <) :
          /\ files[job.cmd.dir][l] = None \/ job.cmd.overwrite
          /\ files' = [files EXCEPT ![job.cmd.dir][l] = <<>>]
          /\ job' = [job EXCEPT !.at = "write", !.layer = l, !.layers = @ \ {l},
                        !.experts = {e \in DOMAIN job.input : LayerOf[e] = l}]
    /\ out' = <<>>
    /\ UNCHANGED <<config, layouts, entries, reader>>

\* Data is written to the open file.
Write(data) ==
    /\ out' = out \o data
    /\ \E disk \in Flushed(File, out \o data) :
          files' = [files EXCEPT ![job.cmd.dir][job.layer] = disk]

\* Mutant of NextExpert: offsets of the bytes last written, not of the next.
NextExpertOff ==
    /\ job.at = "write" /\ job.cmd.kind = "build" /\ job.tensors = {}
    /\ \E e \in First(job.experts, LAMBDA x, y : Before(job.cmd, x, y)) :
          entries' = With(entries, e, [offset |-> Len(out) - 1, bytes |-> 0, tensors |-> <<>>])
    /\ job' = [job EXCEPT !.tensors = Components]
    /\ UNCHANGED <<config, files, layouts, out, reader>>

\* The build goes on to the next expert of the layer.
NextExpert ==
    /\ job.at = "write" /\ job.cmd.kind = "build" /\ job.tensors = {}
    /\ \E e \in First(job.experts, LAMBDA x, y : Before(job.cmd, x, y)) :
          entries' = With(entries, e, [offset |-> Len(out), bytes |-> 0, tensors |-> <<>>])
    /\ job' = [job EXCEPT !.tensors = Components]
    /\ UNCHANGED <<config, files, layouts, out, reader>>

\* Mutant of WriteTensor: a short read is written as it is.
WriteTensorShort ==
    /\ job.at = "write"
    /\ \E e \in First(job.experts, LAMBDA x, y : Before(job.cmd, x, y)), c \in First(job.tensors, <) :
          LET entry == entries[e]
              data == Pread(SubSeq(Shard, 1, config.shard), Size[c], SourceOf[<<e, c>>])
          IN /\ Write(data)
             /\ entries' = [entries EXCEPT ![e] =
                    [entry EXCEPT !.bytes = Len(out) + Len(data) - entry.offset,
                        !.tensors = With(entry.tensors, c, [offset |-> Len(out) - entry.offset,
                                                            bytes |-> Size[c]])]]
             /\ job' = [job EXCEPT !.tensors = @ \ {c},
                                   !.experts = IF job.tensors = {c} THEN @ \ {e} ELSE @]
    /\ UNCHANGED <<config, layouts, reader>>

\* copy_range, and the write of the tensor.  A short read raises (Die).
WriteTensor ==
    /\ job.at = "write"
    /\ \E e \in First(job.experts, LAMBDA x, y : Before(job.cmd, x, y)), c \in First(job.tensors, <) :
          LET entry == entries[e]
              data == Pread(SubSeq(Shard, 1, config.shard), Size[c], SourceOf[<<e, c>>])
          IN /\ Len(data) = Size[c]
             /\ Write(data)
             /\ entries' = [entries EXCEPT ![e] =
                    [entry EXCEPT !.bytes = Len(out) + Size[c] - entry.offset,
                        !.tensors = With(entry.tensors, c, [offset |-> Len(out) - entry.offset,
                                                            bytes |-> Size[c]])]]
             /\ job' = [job EXCEPT !.tensors = @ \ {c},
                                   !.experts = IF job.tensors = {c} THEN @ \ {e} ELSE @]
    /\ UNCHANGED <<config, layouts, reader>>

\* read_exact from the input, and the write of the block.  A short read raises (Die).
WriteBlock ==
    /\ job.at = "write" /\ job.cmd.kind = "repack"
    /\ \E e \in First(job.experts, LAMBDA x, y : Before(job.cmd, x, y)) :
          LET entry == job.input[e]
              data == Pread(files[job.cmd.from][job.layer], entry.bytes, entry.offset)
          IN /\ Len(data) = entry.bytes
             /\ Write(data)
             /\ entries' = With(entries, e, [entry EXCEPT !.offset = Len(out)])
             /\ job' = [job EXCEPT !.experts = @ \ {e}]
    /\ UNCHANGED <<config, layouts, reader>>

\* The file is closed.
CloseLayer ==
    /\ job.at = "write" /\ job.experts = {}
    /\ files' = [files EXCEPT ![job.cmd.dir][job.layer] = out]
    /\ job' = [job EXCEPT !.at = "layer", !.layer = None]
    /\ out' = <<>>
    /\ UNCHANGED <<config, layouts, entries, reader>>

\* layout.json replaces the old one.  Nothing reads the temporary file that it is
\* written to first.
Publish ==
    /\ job.at = "layer" /\ job.layers = {}
    /\ layouts' = [layouts EXCEPT ![job.cmd.dir] = entries]
    /\ job' = NoJob /\ entries' = <<>>
    /\ UNCHANGED <<config, files, out, reader>>

-----------------------------------------------------------------------------
(* PackedExpertStore *)

\* A server starts and reads the layout, once.
OpenStore(d) ==
    /\ reader.at = "closed" /\ layouts[d] # None
    /\ reader' = [NoReader EXCEPT !.dir = d, !.layout = layouts[d], !.at = "open"]
    /\ UNCHANGED <<config, files, layouts, job, out, entries>>

CloseStore ==
    /\ reader.at # "closed" /\ reader' = NoReader
    /\ UNCHANGED <<config, files, layouts, job, out, entries>>

Waiting == [NoReader EXCEPT !.dir = reader.dir, !.layout = reader.layout, !.at = "open"]

Entry == reader.layout[reader.expert]
Opened == files[reader.dir][LayerOf[reader.expert]]

\* tensors_for_expert is called.
Ask(e) ==
    /\ reader.at = "open" /\ e \in DOMAIN reader.layout
    /\ reader' = [reader EXCEPT !.at = "read", !.expert = e, !.buffer = <<>>]
    /\ UNCHANGED <<config, files, layouts, job, out, entries>>

\* An expert without an entry comes from the checkpoint.
FallBack(e) ==
    /\ reader.at = "open" /\ e \notin DOMAIN reader.layout
    /\ \A c \in Components : SourceOf[<<e, c>>] + Size[c] <= config.shard
    /\ reader' = [reader EXCEPT !.at = "done", !.expert = e,
                     !.result = [c \in Components |-> Pread(Shard, Size[c], SourceOf[<<e, c>>])]]
    /\ UNCHANGED <<config, files, layouts, job, out, entries>>

\* One pread of the block.  The native loader asks again for what is missing.
ReadSome ==
    /\ reader.at = "read"
    /\ LET at == Len(reader.buffer)
           got == Pread(Opened, Entry.bytes - at, Entry.offset + at)
       IN \E n \in (IF config.native THEN 1..Len(got) ELSE {Len(got)}) \ {0} :
             reader' = [reader EXCEPT !.buffer = @ \o SubSeq(got, 1, n),
                           !.at = IF config.native /\ at + n < Entry.bytes THEN "read" ELSE "check"]
    /\ UNCHANGED <<config, files, layouts, job, out, entries>>

\* Mutant of ReadNothing: the loop does not stop at the end of the file.
ReadNothingAgain ==
    /\ reader.at = "read" /\ ~config.native
    /\ Pread(Opened, 1, Entry.offset + Len(reader.buffer)) = <<>>
    /\ reader' = [reader EXCEPT !.at = "check"]
    /\ UNCHANGED <<config, files, layouts, job, out, entries>>

\* pread is at the end of the file.
ReadNothing ==
    /\ reader.at = "read"
    /\ Pread(Opened, 1, Entry.offset + Len(reader.buffer)) = <<>>
    /\ reader' = [reader EXCEPT !.at = "check"]
    /\ UNCHANGED <<config, files, layouts, job, out, entries>>

\* Mutant of CheckRead: the length of what was read is not compared.
CheckReadNot ==
    /\ reader.at = "check"
    /\ reader' = [reader EXCEPT !.at = "done", !.buffer = <<>>,
                     !.result = [c \in DOMAIN Entry.tensors |->
                         Pread(reader.buffer, Entry.tensors[c].bytes, Entry.tensors[c].offset)]]
    /\ UNCHANGED <<config, files, layouts, job, out, entries>>

\* A short block raises; otherwise each tensor is cut out of the buffer.
CheckRead ==
    /\ reader.at = "check"
    /\ reader' = IF Len(reader.buffer) # Entry.bytes THEN Waiting
                 ELSE [reader EXCEPT !.at = "done", !.buffer = <<>>,
                          !.result = [c \in DOMAIN Entry.tensors |->
                              Pread(reader.buffer, Entry.tensors[c].bytes, Entry.tensors[c].offset)]]
    /\ UNCHANGED <<config, files, layouts, job, out, entries>>

\* The caller has copied the tensors.
Return ==
    /\ reader.at = "done" /\ reader' = Waiting
    /\ UNCHANGED <<config, files, layouts, job, out, entries>>

-----------------------------------------------------------------------------
Writing == OpenLayer \/ NextExpert \/ WriteTensor \/ WriteBlock \/ CloseLayer \/ Publish
Reading == ReadSome \/ ReadNothing \/ CheckRead \/ Return

Next ==
    \/ \E cmd \in config.jobs : Begin(cmd)
    \/ Writing \/ Die
    \/ \E d \in Dirs : OpenStore(d)
    \/ \E e \in Experts : Ask(e) \/ FallBack(e)
    \/ Reading \/ CloseStore

Spec == Init /\ [][Next]_vars

\* The server goes on with a read that it has begun.
FairSpec == Spec /\ WF_vars(Reading)
-----------------------------------------------------------------------------
(* Properties *)

IsLayout(f) ==
    /\ DOMAIN f \subseteq Experts
    /\ \A e \in DOMAIN f :
          /\ [offset |-> f[e].offset, bytes |-> f[e].bytes] \in Places
          /\ DOMAIN f[e].tensors \subseteq Components
          /\ \A c \in DOMAIN f[e].tensors : f[e].tensors[c] \in Places

\* Type invariant: the values that the files, the tool and the reader may have.
TypeOK ==
    /\ config \in Configs
    /\ \A d \in Dirs : layouts[d] = None \/ IsLayout(layouts[d])
    /\ \A d \in Dirs, l \in Layers : files[d][l] = None \/ files[d][l] \in Seq(Cells)
    /\ job.at \in {"idle", "layer", "write"} /\ (job.at = "idle" \/ job.cmd \in config.jobs)
    /\ job.layers \subseteq Layers /\ job.experts \subseteq Experts /\ job.tensors \subseteq Components
    /\ job.layer \in Layers \cup {None}
    /\ out \in Seq(Cells) /\ IsLayout(entries)
    /\ reader.at \in {"closed", "open", "read", "check", "done"}
    /\ reader.dir \in Dirs \cup {None} /\ IsLayout(reader.layout)
    /\ reader.expert \in Experts \cup {None} /\ reader.buffer \in Seq(Cells)

\* A file holds an expert where an entry says.
Holds(file, entry, e) ==
    /\ DOMAIN entry.tensors = Components
    /\ entry.offset + entry.bytes <= Len(file)
    /\ \A c \in Components :
          LET t == entry.tensors[c] IN
          /\ t.bytes = Size[c] /\ t.offset + t.bytes <= entry.bytes
          /\ \A i \in 1..Size[c] : file[entry.offset + t.offset + i] = <<e, c, i>>

NoOverwrite == \A cmd \in config.jobs : ~cmd.overwrite

\* No directory is written by two different commands.
OneWriter ==
    \A j, k \in config.jobs :
        j.dir = k.dir => [j EXCEPT !.overwrite = TRUE] = [k EXCEPT !.overwrite = TRUE]

\* Wherever builds and repacks stop, a layout that exists describes the files
\* beside it: each expert, tensor by tensor, as the checkpoint has it.
LayoutsHold ==
    NoOverwrite => \A d \in Dirs : layouts[d] # None =>
        \A e \in DOMAIN layouts[d] : Holds(files[d][LayerOf[e]], layouts[d][e], e)

\* A layout that exists has every expert it was asked for: a build those of its
\* filter, a repack those of its input.
LayoutsWhole ==
    OneWriter => \A cmd \in config.jobs : layouts[cmd.dir] # None =>
        DOMAIN layouts[cmd.dir] = IF cmd.kind = "build" THEN Selected(cmd)
                                  ELSE DOMAIN layouts[cmd.from]

\* Whatever the tools overwrite, and wherever they stop, under a running server:
\* what the store returns for an expert is the expert's own tensors, as long as
\* each directory is always made by the same command.
ReadsRight ==
    OneWriter /\ reader.at = "done" =>
        \A c \in Components : reader.result[c] = Tensor(reader.expert, c)

\* In a hot-first layout no expert lies before one of its layer that is used more.
HotFirst ==
    OneWriter => \A cmd \in config.jobs :
        cmd.kind = "repack" /\ layouts[cmd.dir] # None =>
            \A e, f \in DOMAIN layouts[cmd.dir] :
                /\ cmd.order = "hot_first" /\ LayerOf[e] = LayerOf[f]
                /\ layouts[cmd.dir][e].offset < layouts[cmd.dir][f].offset
                => Uses(e) >= Uses(f)

\* A layout that exists is right, whatever was stopped or made again before it.
LayoutsRight == LayoutsHold /\ LayoutsWhole /\ HotFirst

\* Without --overwrite, no step touches a layout that exists or a file beside it.
PublishedIsKept ==
    [][NoOverwrite => \A d \in Dirs : layouts[d] # None =>
           layouts'[d] = layouts[d] /\ files'[d] = files[d]]_vars

\* A read ends, however its file is cut short or rewritten meanwhile.
ReadEnds == reader.at = "read" ~> reader.at # "read"
=============================================================================
