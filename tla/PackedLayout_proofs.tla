------------------------- MODULE PackedLayout_proofs -------------------------
(***************************************************************************)
(* What a build or a repack leaves behind, for every checkpoint, any       *)
(* number of experts, layers, tensors and directories, any commands, begun *)
(* any number of times and stopped anywhere.                               *)
(***************************************************************************)
EXTENDS PackedLayout, SequenceTheorems, FiniteSetTheorems, TLAPS

\* What may stand in layout.json.
Layout == UNION {[S -> Entries] : S \in SUBSET Experts}

\* What a tool goes through: the entries of the layout that it reads, or experts
\* alone.
Inputs == UNION {[S -> Entries \cup {None}] : S \in SUBSET Experts}

Jobs ==
    [cmd : BuildJobs \cup RepackJobs \cup {None}, at : {"idle", "layer", "write"},
     input : Inputs, layers : SUBSET Layers, layer : Layers \cup {None},
     experts : SUBSET Experts, tensors : SUBSET Components]

\* The experts of f have files in directory d.
Filed(f, d) == \A e \in DOMAIN f : files[d][LayerOf[e]] \in Seq(Cells)

ToolTypes ==
    /\ config \in Configs
    /\ files \in [Dirs -> [Layers -> Seq(Cells) \cup {None}]]
    /\ layouts \in [Dirs -> Layout \cup {None}]
    /\ job \in Jobs /\ out \in Seq(Cells) /\ entries \in Layout

\* What has an entry has a file, and stays there.
FileTypes ==
    /\ \A d \in Dirs : layouts[d] # None => layouts[d] \in Layout /\ Filed(layouts[d], d)
    /\ job.at # "idle" =>
          /\ job.cmd \in config.jobs
          /\ job.cmd.kind = "build" \/ (job.input \in Layout /\ Filed(job.input, job.cmd.from))
          /\ Filed(entries, job.cmd.dir)
    /\ job.at = "write" => job.layer \in Layers /\ File \in Seq(Cells)
    /\ job.experts \subseteq {e \in DOMAIN job.input : LayerOf[e] = job.layer}

\* The loops of the tools: every expert of the input lies in a layer that is still to
\* come, is still to be written, or has its entry; the one that is being written has
\* both, and its entry goes to the end of what has been written.
JobInv ==
    /\ job.at # "write" => job.experts = {} /\ job.tensors = {}
    /\ job.at = "write" => job.layer \notin job.layers
    /\ job.tensors # {} => job.cmd.kind = "build" /\ \E e \in job.experts : e \in DOMAIN entries
    /\ \A e \in job.experts : e \in DOMAIN entries =>
          /\ job.tensors # {}
          /\ \A f \in job.experts \ {e} : e < f
          /\ entries[e].offset + entries[e].bytes = Len(out)
    /\ job.at # "idle" =>
          /\ DOMAIN entries \subseteq DOMAIN job.input
          /\ \A e \in DOMAIN entries : LayerOf[e] \notin job.layers
          /\ \A e \in DOMAIN job.input :
                LayerOf[e] \in job.layers \/ e \in job.experts \/ e \in DOMAIN entries

Results == UNION {[C -> Seq(Cells)] : C \in SUBSET Components}

Readers ==
    [dir : Dirs \cup {None}, layout : Layout, at : {"closed", "open", "read", "check", "done"},
     expert : Experts \cup {None}, buffer : Seq(Cells), result : Results]

ReaderTypes ==
    /\ reader \in Readers
    /\ reader.at # "closed" => reader.dir \in Dirs /\ Filed(reader.layout, reader.dir)
    /\ reader.at \in {"read", "check"} => reader.expert \in DOMAIN reader.layout
    /\ reader.at = "read" => Len(reader.buffer) <= Entry.bytes

TypeInv == ToolTypes /\ FileTypes /\ JobInv /\ ReaderTypes

-----------------------------------------------------------------------------
(* Constants *)

LEMMA JobTypes ==
    ASSUME config \in Configs
    PROVE  /\ config.jobs \subseteq BuildJobs \cup RepackJobs
           /\ config.shard \in 0..Len(Shard) /\ config.native \in BOOLEAN
    BY ConfigAssumption

LEMMA CommandTypes ==
    ASSUME config \in Configs, NEW cmd \in config.jobs
    PROVE  /\ cmd.dir \in Dirs /\ cmd.overwrite \in BOOLEAN
           /\ \/ cmd \in BuildJobs /\ cmd.kind = "build"
              \/ /\ cmd \in RepackJobs /\ cmd.kind = "repack" /\ cmd.from \in Dirs
                 /\ cmd.order \in {"expert_id", "hot_first"}
    BY JobTypes DEF BuildJobs, RepackJobs

LEMMA LayersOfExperts == \A e \in Experts : LayerOf[e] \in Layers
    BY DEF Layers

LEMMA EmptyLayout == <<>> \in Layout /\ <<>> \in Inputs /\ <<>> \in Results /\ DOMAIN <<>> = {}
<1>1. DOMAIN <<>> = {} /\ <<>> = [x \in {} |-> x]
    OBVIOUS
<1>2. <<>> \in [{} -> Entries] /\ <<>> \in [{} -> Entries \cup {None}] /\ <<>> \in [{} -> Seq(Cells)]
    BY <1>1
<1>3. {} \in SUBSET Experts /\ {} \in SUBSET Components
    OBVIOUS
<1>4. QED
    BY <1>1, <1>2, <1>3 DEF Layout, Inputs, Results

LEMMA LayoutTypes ==
    ASSUME NEW f \in Layout
    PROVE  /\ DOMAIN f \subseteq Experts /\ f \in [DOMAIN f -> Entries]
           /\ IsLayout(f)
<1>1. DOMAIN f \subseteq Experts /\ f \in [DOMAIN f -> Entries]
    BY DEF Layout
<1>2. ASSUME NEW e \in DOMAIN f
      PROVE  /\ [offset |-> f[e].offset, bytes |-> f[e].bytes] \in Places
             /\ DOMAIN f[e].tensors \subseteq Components
             /\ \A c \in DOMAIN f[e].tensors : f[e].tensors[c] \in Places
  <2>1. f[e] \in Entries
    BY <1>1, <1>2
  <2>2. PICK C \in SUBSET Components : f[e].tensors \in [C -> Places]
    BY <2>1 DEF Entries
  <2>3. QED
    BY <2>1, <2>2 DEF Entries, Places
<1>3. QED
    BY <1>1, <1>2 DEF IsLayout

\* A layout with one entry more.
LEMMA WithTypes ==
    ASSUME NEW f \in Layout, NEW e \in Experts, NEW v \in Entries
    PROVE  /\ With(f, e, v) \in Layout
           /\ DOMAIN With(f, e, v) = DOMAIN f \cup {e}
           /\ With(f, e, v)[e] = v
           /\ \A x \in DOMAIN f : x # e => With(f, e, v)[x] = f[x]
<1>1. DOMAIN f \subseteq Experts /\ f \in [DOMAIN f -> Entries]
    BY LayoutTypes
<1>2. With(f, e, v) \in [DOMAIN f \cup {e} -> Entries]
    BY <1>1 DEF With
<1>3. DOMAIN f \cup {e} \in SUBSET Experts
    BY <1>1
<1>4. With(f, e, v) \in Layout
    BY <1>2, <1>3 DEF Layout
<1>5. QED
    BY <1>1, <1>4 DEF With

-----------------------------------------------------------------------------
(* Reading and writing *)

\* What a read brings, from a file or from a buffer.
LEMMA PreadBrings ==
    ASSUME NEW file \in Seq(Cells), NEW n \in Nat, NEW offset \in Nat
    PROVE  /\ Pread(file, n, offset) \in Seq(Cells)
           /\ Len(Pread(file, n, offset)) <= n
           /\ \A i \in 1..Len(Pread(file, n, offset)) : Pread(file, n, offset)[i] = file[offset + i]
           /\ offset + n <= Len(file) => Len(Pread(file, n, offset)) = n
           /\ Len(Pread(file, n, offset)) = n /\ n # 0 => offset + n <= Len(file)
<1> DEFINE got == IF offset + n <= Len(file) THEN n
                  ELSE IF offset < Len(file) THEN Len(file) - offset ELSE 0
<1>1. Len(file) \in Nat
    OBVIOUS
<1>2. got \in Nat /\ got <= n /\ (got = 0 \/ offset + got <= Len(file))
    BY <1>1
<1>3. \A i \in 1..got : file[offset + i] \in Cells
    BY <1>1, <1>2
<1>4. [i \in 1..got |-> file[offset + i]] \in Seq(Cells)
    BY <1>2, <1>3
<1>5. Pread(file, n, offset) = [i \in 1..got |-> file[offset + i]]
    BY DEF Pread
<1>6. Len([i \in 1..got |-> file[offset + i]]) = got
    BY <1>2
<1> HIDE DEF got
<1>7. /\ Pread(file, n, offset) \in Seq(Cells)
      /\ Len(Pread(file, n, offset)) = got
      /\ \A i \in 1..got : Pread(file, n, offset)[i] = file[offset + i]
    BY <1>4, <1>5, <1>6
<1>8. /\ offset + n <= Len(file) => got = n
      /\ got = n /\ n # 0 => offset + n <= Len(file)
    BY <1>1 DEF got
<1>9. QED
    BY <1>2, <1>7, <1>8

LEMMA FlushedTypes ==
    ASSUME NEW disk \in Seq(Cells), NEW written \in Seq(Cells), NEW file \in Flushed(disk, written)
    PROVE  file \in Seq(Cells)
<1>1. PICK n \in Len(disk)..Len(written) : file = SubSeq(written, 1, n)
    BY DEF Flushed
<1>2. n \in Int /\ \A i \in 1..n : written[i] \in Cells
    BY <1>1
<1>3. QED
    BY <1>1, <1>2, SubSeqProperties

\* What a file held, it holds when something is written behind it.
LEMMA HoldsOn ==
    ASSUME NEW file \in Seq(Cells), NEW data \in Seq(Cells), NEW entry \in Entries,
           NEW e \in Experts, Holds(file, entry, e)
    PROVE  Holds(file \o data, entry, e)
<1>1. Len(file \o data) = Len(file) + Len(data) /\ Len(file) \in Nat /\ Len(data) \in Nat
    OBVIOUS
<1>2. entry.offset \in Nat /\ entry.bytes \in Nat
    BY DEF Entries
<1>3. ASSUME NEW c \in Components, NEW i \in 1..Size[c]
      PROVE  (file \o data)[entry.offset + entry.tensors[c].offset + i] = <<e, c, i>>
  <2>1. entry.tensors[c].offset \in Nat /\ Size[c] \in Nat
    <3>1. PICK C \in SUBSET Components : entry.tensors \in [C -> Places]
        BY DEF Entries
    <3>2. QED
        BY <3>1, ComponentAssumption DEF Holds, Places
  <2>2. entry.offset + entry.tensors[c].offset + i \in 1..Len(file)
    <3>1. /\ entry.offset + entry.bytes <= Len(file)
          /\ entry.tensors[c].offset + Size[c] <= entry.bytes
        BY DEF Holds
    <3>2. i \in Nat /\ 1 <= i /\ i <= Size[c]
        BY <2>1
    <3>3. QED
        BY <1>1, <1>2, <2>1, <3>1, <3>2
  <2>3. (file \o data)[entry.offset + entry.tensors[c].offset + i]
        = file[entry.offset + entry.tensors[c].offset + i]
    BY <1>1, <2>2
  <2>4. QED
    BY <2>3 DEF Holds
<1>4. entry.offset + entry.bytes <= Len(file \o data)
    BY <1>1, <1>2 DEF Holds
<1>5. QED
    BY <1>3, <1>4 DEF Holds

-----------------------------------------------------------------------------
(* Types *)

\* No file goes away.
FilesKept ==
    \A d \in Dirs, l \in Layers : files[d][l] \in Seq(Cells) => files'[d][l] \in Seq(Cells)

toolVars == <<config, files, layouts, job, out, entries>>

LEMMA InitTypes == Init => TypeInv
<1> SUFFICES ASSUME Init PROVE TypeInv
    OBVIOUS
<1>1. ToolTypes
    BY EmptyLayout DEF Init, ToolTypes, Jobs, NoJob
<1>2. FileTypes
    BY DEF Init, FileTypes, NoJob
<1>3. ReaderTypes
    BY EmptyLayout DEF Init, ReaderTypes, Readers, NoReader
<1>4. JobInv
    BY DEF Init, JobInv, NoJob
<1>5. QED
    BY <1>1, <1>2, <1>3, <1>4 DEF TypeInv

\* What the reader knows of its files stays true while the tools write.
LEMMA ReaderKept ==
    ASSUME ReaderTypes, FilesKept, UNCHANGED reader
    PROVE  ReaderTypes'
<1>1. reader.at # "closed" => \A e \in DOMAIN reader.layout : LayerOf[e] \in Layers
    BY LayoutTypes, LayersOfExperts DEF ReaderTypes, Readers
<1>2. Entry' = Entry
    BY DEF Entry
<1>3. (reader.at # "closed" => reader.dir \in Dirs /\ Filed(reader.layout, reader.dir))'
    BY <1>1 DEF ReaderTypes, FilesKept, Filed
<1>4. QED
    BY <1>2, <1>3 DEF ReaderTypes

\* Layouts that do not change keep their files.
LEMMA LayoutsKept ==
    ASSUME TypeInv, FilesKept, NEW d \in Dirs, layouts'[d] = layouts[d], layouts[d] # None
    PROVE  (layouts[d] \in Layout /\ Filed(layouts[d], d))'
<1>1. layouts[d] \in Layout /\ Filed(layouts[d], d)
    BY DEF TypeInv, FileTypes
<1>2. \A e \in DOMAIN layouts[d] : LayerOf[e] \in Layers
    BY <1>1, LayoutTypes, LayersOfExperts
<1>3. QED
    BY <1>1, <1>2 DEF Filed, FilesKept

\* So do the entries and the input of a tool that goes on.
LEMMA JobKept ==
    ASSUME TypeInv, FilesKept, job.at # "idle", config' = config, job'.cmd = job.cmd,
           job'.input = job.input
    PROVE  /\ (job.cmd \in config.jobs)'
           /\ (job.cmd.kind = "build" \/ (job.input \in Layout /\ Filed(job.input, job.cmd.from)))'
           /\ entries' = entries => Filed(entries, job.cmd.dir)'
<1>1. job.cmd \in config.jobs /\ config \in Configs
    BY DEF TypeInv, FileTypes, ToolTypes
<1>2. job.cmd.dir \in Dirs /\ (job.cmd.kind = "build" \/ job.cmd.from \in Dirs)
    BY <1>1, CommandTypes
<1>3. \A e \in DOMAIN entries : LayerOf[e] \in Layers
    BY LayoutTypes, LayersOfExperts DEF TypeInv, ToolTypes
<1>4. job.input \in Layout => \A e \in DOMAIN job.input : LayerOf[e] \in Layers
    BY LayoutTypes, LayersOfExperts
<1>5. QED
    BY <1>1, <1>2, <1>3, <1>4 DEF TypeInv, FileTypes, Filed, FilesKept

LEMMA SelectedTypes ==
    ASSUME NEW cmd PROVE Selected(cmd) \subseteq Experts
    BY DEF Selected

LEMMA BeginTypes ==
    ASSUME TypeInv, NEW cmd \in config.jobs, Begin(cmd)
    PROVE  TypeInv'
<1> DEFINE experts == IF cmd.kind = "build" THEN Selected(cmd)
                      ELSE IF layouts[cmd.from] = None THEN {} ELSE DOMAIN layouts[cmd.from]
           input == IF cmd.kind = "build" THEN [e \in experts |-> None] ELSE layouts[cmd.from]
<1>1. cmd \in BuildJobs \cup RepackJobs /\ cmd.dir \in Dirs
      /\ (cmd.kind = "build" \/ (cmd.kind = "repack" /\ cmd.from \in Dirs))
  <2>1. config \in Configs
    BY DEF TypeInv, ToolTypes
  <2>2. QED
    BY <2>1, CommandTypes
<1>2. /\ experts # {}
      /\ job' = [NoJob EXCEPT !.cmd = cmd, !.at = "layer", !.input = input,
                              !.layers = {LayerOf[e] : e \in experts}]
    BY DEF Begin
<1>3. cmd.kind # "build" => layouts[cmd.from] # None /\ layouts[cmd.from] \in Layout
                            /\ Filed(layouts[cmd.from], cmd.from)
    BY <1>1, <1>2 DEF TypeInv, FileTypes
<1>4. experts \subseteq Experts
    BY <1>3, SelectedTypes, LayoutTypes
<1>5. input \in Inputs
  <2>1. CASE cmd.kind = "build"
    <3>1. input \in [experts -> Entries \cup {None}]
        BY <2>1
    <3>2. QED
        BY <3>1, <1>4 DEF Inputs
  <2>2. CASE cmd.kind # "build"
    <3>1. PICK S \in SUBSET Experts : input \in [S -> Entries]
        BY <2>2, <1>3 DEF Layout
    <3>2. input \in [S -> Entries \cup {None}]
        BY <3>1
    <3>3. QED
        BY <3>2 DEF Inputs
  <2>3. QED
    BY <2>1, <2>2
<1>6. {LayerOf[e] : e \in experts} \subseteq Layers
    BY <1>4 DEF Layers
<1> HIDE DEF experts, input
<1>7. /\ job' \in Jobs /\ job'.at = "layer" /\ job'.cmd = cmd /\ job'.input = input
      /\ job'.experts = {} /\ job'.tensors = {} /\ job'.layers = {LayerOf[e] : e \in experts}
    BY <1>1, <1>2, <1>5, <1>6 DEF Jobs, NoJob
<1>8. ToolTypes'
    BY <1>7, EmptyLayout DEF Begin, TypeInv, ToolTypes
<1>9. FileTypes'
  <2>1. cmd.kind = "build" \/ (input \in Layout /\ Filed(input, cmd.from))
    BY <1>3 DEF input
  <2>2. files' = files /\ layouts' = layouts /\ config' = config /\ entries' = <<>>
    BY DEF Begin
  <2>3. QED
    BY <1>7, <2>1, <2>2, EmptyLayout DEF TypeInv, FileTypes, Filed
<1>10. FilesKept /\ UNCHANGED reader
    BY DEF Begin, FilesKept
<1>11. JobInv'
  <2>1. DOMAIN input \subseteq experts
    BY <1>2 DEF input, experts
  <2>2. entries' = <<>>
    BY DEF Begin
  <2>3. QED
    BY <1>7, <2>1, <2>2, EmptyLayout DEF JobInv
<1>12. QED
    BY <1>8, <1>9, <1>10, <1>11, ReaderKept DEF TypeInv

-----------------------------------------------------------------------------
\* The command of a tool that runs.
LEMMA JobNow ==
    ASSUME TypeInv, job.at # "idle"
    PROVE  /\ config \in Configs /\ job.cmd \in config.jobs
           /\ job.cmd \in BuildJobs \cup RepackJobs /\ job.cmd.dir \in Dirs
           /\ job.cmd.kind = "build" \/ (job.cmd.kind = "repack" /\ job.cmd.from \in Dirs)
           /\ DOMAIN job.input \subseteq Experts
<1>1. config \in Configs /\ job.cmd \in config.jobs
    BY DEF TypeInv, ToolTypes, FileTypes
<1>2. /\ job.cmd \in BuildJobs \cup RepackJobs /\ job.cmd.dir \in Dirs
      /\ job.cmd.kind = "build" \/ (job.cmd.kind = "repack" /\ job.cmd.from \in Dirs)
    BY <1>1, CommandTypes
<1>3. job.input \in Inputs
    BY DEF TypeInv, ToolTypes, Jobs
<1>4. QED
    BY <1>1, <1>2, <1>3 DEF Inputs

\* One file is written.
LEMMA FileWritten ==
    ASSUME ToolTypes, NEW d \in Dirs, NEW l \in Layers, NEW x \in Seq(Cells),
           files' = [files EXCEPT ![d][l] = x]
    PROVE  /\ files' \in [Dirs -> [Layers -> Seq(Cells) \cup {None}]]
           /\ FilesKept
           /\ files'[d][l] = x
           /\ \A c \in Dirs, k \in Layers : c # d \/ k # l => files'[c][k] = files[c][k]
<1>1. files \in [Dirs -> [Layers -> Seq(Cells) \cup {None}]]
    BY DEF ToolTypes
<1>2. /\ files' \in [Dirs -> [Layers -> Seq(Cells) \cup {None}]]
      /\ files'[d][l] = x
      /\ \A c \in Dirs, k \in Layers : c # d \/ k # l => files'[c][k] = files[c][k]
    BY <1>1
<1>3. FilesKept
    BY <1>2 DEF FilesKept
<1>4. QED
    BY <1>2, <1>3

\* A tool that goes on: what is left to show of the types.
LEMMA GoesOn ==
    ASSUME TypeInv, job.at # "idle", ToolTypes', FilesKept, UNCHANGED <<config, layouts, reader>>,
           job'.cmd = job.cmd, job'.input = job.input,
           Filed(entries, job.cmd.dir)', JobInv',
           (job.at = "write" => job.layer \in Layers /\ File \in Seq(Cells))',
           (job.experts \subseteq {e \in DOMAIN job.input : LayerOf[e] = job.layer})'
    PROVE  TypeInv'
<1>1. (\A d \in Dirs : layouts[d] # None => layouts[d] \in Layout /\ Filed(layouts[d], d))'
    BY LayoutsKept
<1>2. FileTypes'
    BY <1>1, JobKept DEF FileTypes
<1>3. ReaderTypes'
    BY ReaderKept DEF TypeInv
<1>4. QED
    BY <1>2, <1>3 DEF TypeInv

\* The same for a tool that ends.
LEMMA Ends ==
    ASSUME TypeInv, FilesKept, config' = config, reader' = reader,
           files' \in [Dirs -> [Layers -> Seq(Cells) \cup {None}]],
           layouts' \in [Dirs -> Layout \cup {None}],
           \A d \in Dirs : layouts'[d] = layouts[d] \/ (layouts'[d] \in Layout /\ Filed(layouts[d], d)'),
           job' = NoJob, out' \in Seq(Cells), entries' = <<>>
    PROVE  TypeInv'
<1>1. ToolTypes'
    BY EmptyLayout DEF TypeInv, ToolTypes, Jobs, NoJob
<1>2. (\A d \in Dirs : layouts[d] # None => layouts[d] \in Layout /\ Filed(layouts[d], d))'
    BY LayoutsKept
<1>3. FileTypes'
    BY <1>2 DEF FileTypes, NoJob
<1>4. ReaderTypes'
    BY ReaderKept DEF TypeInv
<1>5. JobInv'
    BY EmptyLayout DEF JobInv, NoJob
<1>6. QED
    BY <1>1, <1>3, <1>4, <1>5 DEF TypeInv

LEMMA DieTypes ==
    ASSUME TypeInv, Die
    PROVE  TypeInv'
<1>1. CASE job.at = "write"
  <2>1. PICK disk \in Flushed(File, out) : files' = [files EXCEPT ![job.cmd.dir][job.layer] = disk]
    BY <1>1 DEF Die
  <2>2. disk \in Seq(Cells) /\ job.layer \in Layers /\ job.cmd.dir \in Dirs
    BY <1>1, JobNow, FlushedTypes DEF TypeInv, ToolTypes, FileTypes
  <2>3. FilesKept /\ files' \in [Dirs -> [Layers -> Seq(Cells) \cup {None}]]
    BY <2>1, <2>2, FileWritten DEF TypeInv
  <2>4. QED
    BY <2>3, Ends DEF Die, TypeInv, ToolTypes
<1>2. CASE job.at # "write"
  <2>1. FilesKept /\ files' = files
    BY <1>2 DEF Die, FilesKept
  <2>2. QED
    BY <2>1, Ends DEF Die, TypeInv, ToolTypes
<1>3. QED
    BY <1>1, <1>2

LEMMA OpenLayerTypes ==
    ASSUME TypeInv, OpenLayer
    PROVE  TypeInv'
<1>0. UNCHANGED <<config, layouts, entries, reader>> /\ out' = <<>> /\ <<>> \in Seq(Cells)
  <2>1. <<>> \in Seq(Cells)
    OBVIOUS
  <2>2. QED
    BY <2>1 DEF OpenLayer
<1>1. PICK l \in job.layers :
          /\ files' = [files EXCEPT ![job.cmd.dir][l] = <<>>]
          /\ job' = [job EXCEPT !.at = "write", !.layer = l, !.layers = @ \ {l},
                        !.experts = {e \in DOMAIN job.input : LayerOf[e] = l}]
    BY DEF OpenLayer, First
<1>2. job \in Jobs /\ job.at = "layer"
    BY DEF OpenLayer, TypeInv, ToolTypes
<1>3. l \in Layers /\ job.cmd.dir \in Dirs /\ DOMAIN job.input \subseteq Experts
    BY <1>2, JobNow DEF Jobs
<1>4. /\ job' \in Jobs /\ job'.cmd = job.cmd /\ job'.input = job.input
      /\ job'.layer = l /\ job'.experts = {e \in DOMAIN job.input : LayerOf[e] = l}
    BY <1>1, <1>2, <1>3 DEF Jobs
<1>5. /\ files' \in [Dirs -> [Layers -> Seq(Cells) \cup {None}]] /\ FilesKept
      /\ files'[job.cmd.dir][l] = <<>>
    BY <1>0, <1>1, <1>3, FileWritten DEF TypeInv
<1>6. ToolTypes'
    BY <1>0, <1>4, <1>5 DEF TypeInv, ToolTypes
<1>7. Filed(entries, job.cmd.dir)'
  <2>1. FilesKept /\ job.at # "idle" /\ config' = config /\ entries' = entries
    BY <1>0, <1>2, <1>5
  <2>2. QED
    BY <2>1, <1>4, JobKept
<1>8. (File \in Seq(Cells))'
    BY <1>0, <1>4, <1>5 DEF File
<1>9. JobInv'
  <2>1. /\ job.tensors = {} /\ job'.tensors = job.tensors /\ job'.layers = job.layers \ {l}
        /\ job'.at = "write" /\ l \in job.layers
    BY <1>1, <1>2 DEF TypeInv, JobInv, Jobs
  <2>2. \A e \in DOMAIN entries : LayerOf[e] # l
    BY <1>2, <2>1 DEF TypeInv, JobInv
  <2>3. \A e \in job'.experts : e \notin DOMAIN entries
    BY <1>4, <2>2
  <2>4. QED
    BY <1>0, <1>2, <1>4, <2>1, <2>3 DEF TypeInv, JobInv
<1>10. QED
    BY <1>2, <1>3, <1>4, <1>5, <1>6, <1>7, <1>8, <1>9, <1>0, GoesOn

\* The tensors of an entry, with one more.
LEMMA TensorsWith ==
    ASSUME NEW entry \in Entries, NEW c \in Components, NEW t \in Places
    PROVE  /\ With(entry.tensors, c, t) \in UNION {[C -> Places] : C \in SUBSET Components}
           /\ DOMAIN With(entry.tensors, c, t) = DOMAIN entry.tensors \cup {c}
           /\ With(entry.tensors, c, t)[c] = t
           /\ \A x \in DOMAIN entry.tensors :
                 x # c => With(entry.tensors, c, t)[x] = entry.tensors[x]
<1>1. PICK C \in SUBSET Components : entry.tensors \in [C -> Places]
    BY DEF Entries
<1>2. With(entry.tensors, c, t) \in [C \cup {c} -> Places] /\ C \cup {c} \in SUBSET Components
    BY <1>1 DEF With
<1>3. QED
    BY <1>1, <1>2 DEF With

LEMMA NewEntry ==
    ASSUME NEW n \in Nat
    PROVE  [offset |-> n, bytes |-> 0, tensors |-> <<>>] \in Entries
<1>1. <<>> = [x \in {} |-> x]
    OBVIOUS
<1>2. <<>> \in [{} -> Places] /\ {} \in SUBSET Components
    BY <1>1
<1>3. QED
    BY <1>2 DEF Entries

\* In a build the next expert of a layer is the least.
LEMMA BuildOrder ==
    ASSUME NEW cmd, cmd.kind = "build", NEW e, NEW f
    PROVE  Before(cmd, e, f) <=> e < f
    BY DEF Before

LEMMA NextExpertTypes ==
    ASSUME TypeInv, NextExpert
    PROVE  TypeInv'
<1>1. PICK e \in job.experts :
          /\ \A f \in job.experts \ {e} : Before(job.cmd, e, f)
          /\ entries' = With(entries, e, [offset |-> Len(out), bytes |-> 0, tensors |-> <<>>])
    BY DEF NextExpert, First
<1>2. /\ job.at = "write" /\ job.cmd.kind = "build" /\ job.tensors = {}
      /\ job' = [job EXCEPT !.tensors = Components]
      /\ UNCHANGED <<config, files, layouts, out, reader>>
    BY DEF NextExpert
<1>3. /\ job \in Jobs /\ out \in Seq(Cells) /\ Len(out) \in Nat /\ entries \in Layout
  <2>1. job \in Jobs /\ out \in Seq(Cells) /\ entries \in Layout
    BY DEF TypeInv, ToolTypes
  <2>2. QED
    BY <2>1, LenProperties
<1>4. /\ job' \in Jobs /\ job'.at = job.at /\ job'.cmd = job.cmd /\ job'.input = job.input
      /\ job'.layer = job.layer /\ job'.layers = job.layers /\ job'.experts = job.experts
      /\ job'.tensors = Components
    BY <1>2, <1>3 DEF Jobs
<1>5. e \in job.experts /\ \A f \in job.experts \ {e} : e < f
    BY <1>1, <1>2, BuildOrder
<1>6. e \in Experts /\ e \in DOMAIN job.input /\ LayerOf[e] = job.layer
    BY <1>3, <1>5 DEF Jobs, TypeInv, FileTypes
<1> DEFINE new == [offset |-> Len(out), bytes |-> 0, tensors |-> <<>>]
<1>7. new \in Entries /\ new.offset = Len(out) /\ new.bytes = 0
    BY <1>3, NewEntry
<1> HIDE DEF new
<1>8. /\ entries' \in Layout /\ DOMAIN entries' = DOMAIN entries \cup {e}
      /\ entries'[e] = new
      /\ \A x \in DOMAIN entries : x # e => entries'[x] = entries[x]
    BY <1>1, <1>3, <1>6, <1>7, WithTypes DEF new
<1>9. ToolTypes'
    BY <1>2, <1>4, <1>8 DEF TypeInv, ToolTypes
<1>10. File \in Seq(Cells) /\ job.layer \in Layers /\ Filed(entries, job.cmd.dir)
    BY <1>2 DEF TypeInv, FileTypes
<1>11. Filed(entries, job.cmd.dir)'
    BY <1>2, <1>4, <1>6, <1>8, <1>10 DEF Filed, File
<1>12. JobInv'
  <2>1. \A x \in job.experts : x \notin DOMAIN entries
    <3>1. JobInv /\ job.tensors = {}
        BY <1>2 DEF TypeInv
    <3>2. QED
        BY <3>1 DEF JobInv
  <2>2. new.offset + new.bytes = Len(out)
    BY <1>3, <1>7
  <2>3. Components # {}
    BY ComponentAssumption
  <2>4. LayerOf[e] \notin job.layers
    BY <1>2, <1>6 DEF TypeInv, JobInv
  <2>5. QED
    BY <1>2, <1>4, <1>5, <1>6, <1>8, <2>1, <2>2, <2>3, <2>4 DEF TypeInv, JobInv
<1>13. (job.experts \subseteq {x \in DOMAIN job.input : LayerOf[x] = job.layer})'
    BY <1>4 DEF TypeInv, FileTypes
<1>14. (job.layer \in Layers /\ File \in Seq(Cells))' /\ FilesKept
    BY <1>2, <1>4, <1>10 DEF File, FilesKept
<1>15. QED
    BY <1>2, <1>4, <1>9, <1>11, <1>12, <1>13, <1>14, GoesOn

\* Data is written to the open file.
LEMMA WriteDoes ==
    ASSUME TypeInv, job.at = "write", NEW data \in Seq(Cells), Write(data)
    PROVE  /\ out' = out \o data /\ out' \in Seq(Cells) /\ Len(out') = Len(out) + Len(data)
           /\ files' \in [Dirs -> [Layers -> Seq(Cells) \cup {None}]] /\ FilesKept
           /\ files'[job.cmd.dir][job.layer] \in Seq(Cells)
           /\ \A d \in Dirs, l \in Layers :
                 d # job.cmd.dir \/ l # job.layer => files'[d][l] = files[d][l]
<1>1. out \in Seq(Cells) /\ File \in Seq(Cells) /\ job.layer \in Layers /\ job.cmd.dir \in Dirs
    BY JobNow DEF TypeInv, ToolTypes, FileTypes
<1>2. out' = out \o data /\ out' \in Seq(Cells) /\ Len(out') = Len(out) + Len(data)
    BY <1>1, ConcatProperties DEF Write
<1>3. PICK disk \in Seq(Cells) : files' = [files EXCEPT ![job.cmd.dir][job.layer] = disk]
  <2>1. \E disk \in Flushed(File, out') :
          files' = [files EXCEPT ![job.cmd.dir][job.layer] = disk]
    BY <1>2 DEF Write
  <2>2. \A disk \in Flushed(File, out') : disk \in Seq(Cells)
    BY <1>1, <1>2, FlushedTypes
  <2>3. QED
    BY <2>1, <2>2
<1>5. /\ files' \in [Dirs -> [Layers -> Seq(Cells) \cup {None}]] /\ FilesKept
      /\ files'[job.cmd.dir][job.layer] = disk
      /\ \A d \in Dirs, l \in Layers :
            d # job.cmd.dir \/ l # job.layer => files'[d][l] = files[d][l]
  <2>1. files \in [Dirs -> [Layers -> Seq(Cells) \cup {None}]]
    BY DEF TypeInv, ToolTypes
  <2>2. /\ files' \in [Dirs -> [Layers -> Seq(Cells) \cup {None}]]
        /\ files'[job.cmd.dir][job.layer] = disk
        /\ \A d \in Dirs, l \in Layers :
              d # job.cmd.dir \/ l # job.layer => files'[d][l] = files[d][l]
    BY <1>1, <1>3, <2>1
  <2>3. QED
    BY <1>1, <2>2 DEF FilesKept
<1>6. QED
    BY <1>2, <1>5

\* A step that writes: what is left to show of the types.
LEMMA WriteTypes ==
    ASSUME TypeInv, job.at = "write", NEW data \in Seq(Cells), Write(data),
           UNCHANGED <<config, layouts, reader>>,
           job' \in Jobs, job'.at = "write", job'.cmd = job.cmd, job'.input = job.input,
           job'.layer = job.layer, job'.experts \subseteq job.experts,
           entries' \in Layout,
           \A x \in DOMAIN entries' : x \in DOMAIN entries \/ x \in job.experts,
           JobInv'
    PROVE  TypeInv'
<1>1. /\ out' \in Seq(Cells) /\ FilesKept
      /\ files' \in [Dirs -> [Layers -> Seq(Cells) \cup {None}]]
      /\ files'[job.cmd.dir][job.layer] \in Seq(Cells)
    BY WriteDoes
<1>2. ToolTypes'
    BY <1>1 DEF TypeInv, ToolTypes
<1>3. /\ job.layer \in Layers /\ Filed(entries, job.cmd.dir) /\ job.cmd.dir \in Dirs
      /\ job.experts \subseteq {e \in DOMAIN job.input : LayerOf[e] = job.layer}
    BY JobNow DEF TypeInv, FileTypes
<1>4. \A x \in DOMAIN entries : LayerOf[x] \in Layers
    BY LayoutTypes, LayersOfExperts DEF TypeInv, ToolTypes
<1>5. Filed(entries, job.cmd.dir)'
    BY <1>1, <1>3, <1>4 DEF Filed, FilesKept
<1>6. (job.layer \in Layers /\ File \in Seq(Cells))'
    BY <1>1, <1>3 DEF File
<1>7. (job.experts \subseteq {e \in DOMAIN job.input : LayerOf[e] = job.layer})'
    BY <1>3
<1>8. QED
    BY <1>1, <1>2, <1>5, <1>6, <1>7, GoesOn

\* What is read of the checkpoint for a tensor, if it is all there.
LEMMA ShardBrings ==
    ASSUME config \in Configs, NEW e \in Experts, NEW c \in Components, NEW data,
           data = Pread(SubSeq(Shard, 1, config.shard), Size[c], SourceOf[<<e, c>>]),
           Len(data) = Size[c]
    PROVE  data \in Seq(Cells) /\ \A i \in 1..Size[c] : data[i] = <<e, c, i>>
<1>1. Size[c] \in Nat /\ Size[c] # 0 /\ SourceOf[<<e, c>>] \in Nat
    BY ComponentAssumption, ShardAssumption
<1>2. Shard \in Seq(Cells) /\ config.shard \in 0..Len(Shard)
    BY ShardAssumption, JobTypes
<1>3. \A i \in 1..config.shard : Shard[i] \in Cells
    BY <1>2
<1> DEFINE part == SubSeq(Shard, 1, config.shard)
<1>4. /\ part \in Seq(Cells) /\ Len(part) = config.shard
      /\ \A i \in 1..config.shard : part[i] = Shard[i]
    BY <1>2, <1>3, SubSeqProperties
<1> HIDE DEF part
<1>5. data = Pread(part, Size[c], SourceOf[<<e, c>>])
    BY DEF part
<1>6. /\ data \in Seq(Cells) /\ SourceOf[<<e, c>>] + Size[c] <= config.shard
      /\ \A i \in 1..Size[c] : data[i] = part[SourceOf[<<e, c>>] + i]
  <2>1. /\ Pread(part, Size[c], SourceOf[<<e, c>>]) \in Seq(Cells)
        /\ \A i \in 1..Len(Pread(part, Size[c], SourceOf[<<e, c>>])) :
              Pread(part, Size[c], SourceOf[<<e, c>>])[i] = part[SourceOf[<<e, c>>] + i]
        /\ Len(Pread(part, Size[c], SourceOf[<<e, c>>])) = Size[c]
              => SourceOf[<<e, c>>] + Size[c] <= Len(part)
    BY <1>1, <1>4, PreadBrings
  <2>2. QED
    BY <1>4, <1>5, <2>1
<1>7. ASSUME NEW i \in 1..Size[c] PROVE data[i] = <<e, c, i>>
  <2>1. SourceOf[<<e, c>>] + i \in 1..config.shard
    BY <1>1, <1>2, <1>6
  <2>2. data[i] = Shard[SourceOf[<<e, c>>] + i]
    BY <1>4, <1>6, <2>1
  <2>3. QED
    BY <2>2, ShardAssumption
<1>8. QED
    BY <1>6, <1>7

\* What WriteTensor does.
LEMMA WriteTensorDoes ==
    ASSUME TypeInv, WriteTensor
    PROVE  \E e \in job.experts, c \in job.tensors, data \in Seq(Cells) :
              /\ e \in Experts /\ e \in DOMAIN entries /\ c \in Components
              /\ Len(data) = Size[c] /\ \A i \in 1..Size[c] : data[i] = <<e, c, i>>
              /\ Write(data)
              /\ entries[e].offset + entries[e].bytes = Len(out)
              /\ entries' \in Layout /\ DOMAIN entries' = DOMAIN entries
              /\ \A x \in DOMAIN entries : x # e => entries'[x] = entries[x]
              /\ entries'[e].offset = entries[e].offset
              /\ entries'[e].bytes = entries[e].bytes + Size[c]
              /\ DOMAIN entries'[e].tensors = DOMAIN entries[e].tensors \cup {c}
              /\ entries'[e].tensors[c] = [offset |-> entries[e].bytes, bytes |-> Size[c]]
              /\ \A x \in DOMAIN entries[e].tensors :
                    x # c => entries'[e].tensors[x] = entries[e].tensors[x]
              /\ job' \in Jobs /\ job'.at = "write" /\ job'.cmd = job.cmd
              /\ job'.input = job.input /\ job'.layer = job.layer /\ job'.layers = job.layers
              /\ job'.tensors = job.tensors \ {c}
              /\ job'.experts = IF job.tensors = {c} THEN job.experts \ {e} ELSE job.experts
              /\ \A d \in job.tensors \ {c} : c < d
<1>1. PICK e \in job.experts, c \in job.tensors :
          LET entry == entries[e]
              data == Pread(SubSeq(Shard, 1, config.shard), Size[c], SourceOf[<<e, c>>])
          IN /\ \A f \in job.experts \ {e} : Before(job.cmd, e, f)
             /\ \A d \in job.tensors \ {c} : c < d
             /\ Len(data) = Size[c]
             /\ Write(data)
             /\ entries' = [entries EXCEPT ![e] =
                    [entry EXCEPT !.bytes = Len(out) + Size[c] - entry.offset,
                        !.tensors = With(entry.tensors, c, [offset |-> Len(out) - entry.offset,
                                                            bytes |-> Size[c]])]]
             /\ job' = [job EXCEPT !.tensors = @ \ {c},
                                   !.experts = IF job.tensors = {c} THEN @ \ {e} ELSE @]
    BY DEF WriteTensor, First
<1> DEFINE data == Pread(SubSeq(Shard, 1, config.shard), Size[c], SourceOf[<<e, c>>])
           entry == entries[e]
           t == [offset |-> entry.bytes, bytes |-> Size[c]]
<1>2. /\ job \in Jobs /\ out \in Seq(Cells) /\ entries \in Layout /\ job.at = "write"
      /\ config \in Configs
    BY DEF WriteTensor, TypeInv, ToolTypes
<1>3. e \in Experts /\ c \in Components /\ Len(out) \in Nat /\ Size[c] \in Nat
    BY <1>2, ComponentAssumption, LenProperties DEF Jobs
<1>4. data \in Seq(Cells) /\ Len(data) = Size[c] /\ \A i \in 1..Size[c] : data[i] = <<e, c, i>>
    BY <1>1, <1>2, <1>3, ShardBrings
<1>5. e \in DOMAIN entries /\ entry.offset + entry.bytes = Len(out)
  <2>1. JobInv /\ job.tensors # {}
    BY DEF TypeInv
  <2>2. PICK f \in job.experts : f \in DOMAIN entries
    BY <2>1 DEF JobInv
  <2>3. job.cmd.kind = "build" /\ (e # f => f < e) /\ entries[f].offset + entries[f].bytes = Len(out)
    BY <2>1, <2>2 DEF JobInv
  <2>4. e # f => e < f
    BY <1>1, <2>3, BuildOrder
  <2>5. e \in Nat /\ f \in Nat
    BY <1>2, <1>3, ExpertAssumption DEF Jobs
  <2>6. e = f
    BY <2>3, <2>4, <2>5
  <2>7. QED
    BY <2>2, <2>3, <2>6
<1>6. entries \in [DOMAIN entries -> Entries] /\ DOMAIN entries \in SUBSET Experts
    BY <1>2, LayoutTypes
<1>7. entry \in Entries /\ entry.offset \in Nat /\ entry.bytes \in Nat
    BY <1>5, <1>6 DEF Entries
<1>8. /\ Len(out) + Size[c] - entry.offset = entry.bytes + Size[c]
      /\ Len(out) - entry.offset = entry.bytes
    BY <1>3, <1>5, <1>7
<1>9. entries' = [entries EXCEPT ![e] = [entry EXCEPT !.bytes = entry.bytes + Size[c],
                                                      !.tensors = With(entry.tensors, c, t)]]
  <2>1. [offset |-> Len(out) - entry.offset, bytes |-> Size[c]] = t
    BY <1>8
  <2>2. entries' = [entries EXCEPT ![e] =
                       [entry EXCEPT !.bytes = Len(out) + Size[c] - entry.offset,
                          !.tensors = With(entry.tensors, c, [offset |-> Len(out) - entry.offset,
                                                              bytes |-> Size[c]])]]
    BY <1>1
  <2> HIDE DEF entry, t
  <2>3. QED
    BY <1>8, <2>1, <2>2
<1>10. t \in Places
    BY <1>3, <1>7 DEF Places
<1>11. Write(data) /\ job' = [job EXCEPT !.tensors = @ \ {c},
                                   !.experts = IF job.tensors = {c} THEN @ \ {e} ELSE @]
    BY <1>1
<1> DEFINE after == [entry EXCEPT !.bytes = entry.bytes + Size[c],
                                  !.tensors = With(entry.tensors, c, t)]
<1> HIDE DEF data, entry, t
<1>12. /\ With(entry.tensors, c, t) \in UNION {[C -> Places] : C \in SUBSET Components}
       /\ DOMAIN With(entry.tensors, c, t) = DOMAIN entry.tensors \cup {c}
       /\ With(entry.tensors, c, t)[c] = t
       /\ \A x \in DOMAIN entry.tensors : x # c => With(entry.tensors, c, t)[x] = entry.tensors[x]
    BY <1>3, <1>7, <1>10, TensorsWith
<1>13. /\ after \in Entries /\ after.offset = entry.offset /\ after.bytes = entry.bytes + Size[c]
       /\ after.tensors = With(entry.tensors, c, t)
  <2> DEFINE T == UNION {[C -> Places] : C \in SUBSET Components}
  <2>1. Entries = [offset : Nat, bytes : Nat, tensors : T]
    BY DEF Entries
  <2>2. With(entry.tensors, c, t) \in T /\ entry.bytes + Size[c] \in Nat
    BY <1>3, <1>7, <1>12
  <2> HIDE DEF T
  <2>3. QED
    BY <1>7, <2>1, <2>2
<1> HIDE DEF after
<1>14. /\ entries' \in [DOMAIN entries -> Entries] /\ DOMAIN entries' = DOMAIN entries
       /\ entries'[e] = after /\ \A x \in DOMAIN entries : x # e => entries'[x] = entries[x]
    BY <1>5, <1>6, <1>9, <1>13 DEF after
<1>15. entries' \in Layout
    BY <1>6, <1>14 DEF Layout
<1>16. /\ job' \in Jobs /\ job'.at = "write" /\ job'.cmd = job.cmd
       /\ job'.input = job.input /\ job'.layer = job.layer /\ job'.layers = job.layers
       /\ job'.tensors = job.tensors \ {c}
       /\ job'.experts = IF job.tensors = {c} THEN job.experts \ {e} ELSE job.experts
    BY <1>2, <1>11 DEF Jobs
<1>17. /\ entries[e].offset + entries[e].bytes = Len(out)
       /\ entries'[e].offset = entries[e].offset
       /\ entries'[e].bytes = entries[e].bytes + Size[c]
       /\ DOMAIN entries'[e].tensors = DOMAIN entries[e].tensors \cup {c}
       /\ entries'[e].tensors[c] = [offset |-> entries[e].bytes, bytes |-> Size[c]]
       /\ \A x \in DOMAIN entries[e].tensors :
              x # c => entries'[e].tensors[x] = entries[e].tensors[x]
    BY <1>5, <1>12, <1>13, <1>14 DEF entry, t
<1>18. \A d \in job.tensors \ {c} : c < d
    BY <1>1
<1>19. QED
    BY <1>3, <1>4, <1>5, <1>11, <1>14, <1>15, <1>16, <1>17, <1>18

LEMMA WriteTensorTypes ==
    ASSUME TypeInv, WriteTensor
    PROVE  TypeInv'
<1>1. PICK e \in job.experts, c \in job.tensors, data \in Seq(Cells) :
              /\ e \in Experts /\ e \in DOMAIN entries /\ c \in Components
              /\ Len(data) = Size[c] /\ Write(data)
              /\ entries[e].offset + entries[e].bytes = Len(out)
              /\ entries' \in Layout /\ DOMAIN entries' = DOMAIN entries
              /\ \A x \in DOMAIN entries : x # e => entries'[x] = entries[x]
              /\ entries'[e].offset = entries[e].offset
              /\ entries'[e].bytes = entries[e].bytes + Size[c]
              /\ job' \in Jobs /\ job'.at = "write" /\ job'.cmd = job.cmd
              /\ job'.input = job.input /\ job'.layer = job.layer /\ job'.layers = job.layers
              /\ job'.tensors = job.tensors \ {c}
              /\ job'.experts = IF job.tensors = {c} THEN job.experts \ {e} ELSE job.experts
    BY WriteTensorDoes
<1>2. JobInv /\ job.at = "write" /\ UNCHANGED <<config, layouts, reader>>
    BY DEF WriteTensor, TypeInv
<1>3. Len(out') = Len(out) + Size[c]
    BY <1>1, <1>2, WriteDoes
<1>4. job.experts \cap DOMAIN entries = {e} /\ job.cmd.kind = "build"
  <2>1. e \in Experts /\ job.experts \subseteq Experts /\ Experts \subseteq Nat
    BY <1>1, ExpertAssumption DEF TypeInv, ToolTypes, Jobs
  <2>2. \A f \in job.experts : f \in DOMAIN entries /\ f # e => f < e /\ e < f
    BY <1>1, <1>2 DEF JobInv
  <2>3. \A f \in job.experts : f \in DOMAIN entries => f = e
    BY <2>1, <2>2
  <2>4. QED
    BY <1>1, <1>2, <2>3 DEF JobInv
<1>5. entries'[e].offset + entries'[e].bytes = Len(out')
  <2>1. entries \in Layout /\ Size[c] \in Nat
    BY <1>1, ComponentAssumption DEF TypeInv, ToolTypes
  <2>2. entries[e].offset \in Nat /\ entries[e].bytes \in Nat
    BY <1>1, <2>1, LayoutTypes DEF IsLayout, Places
  <2>3. QED
    BY <1>1, <1>3, <2>1, <2>2
<1>6. JobInv'
    BY <1>1, <1>2, <1>4, <1>5 DEF JobInv
<1>7. QED
    BY <1>1, <1>2, <1>6, WriteTypes

\* What WriteBlock does.
LEMMA WriteBlockDoes ==
    ASSUME TypeInv, WriteBlock
    PROVE  \E e \in job.experts, data \in Seq(Cells) :
              /\ e \in Experts /\ e \notin DOMAIN entries /\ job.input[e] \in Entries
              /\ \A f \in job.experts \ {e} : Before(job.cmd, e, f)
              /\ Len(data) = job.input[e].bytes
              /\ \A i \in 1..Len(data) :
                    data[i] = files[job.cmd.from][job.layer][job.input[e].offset + i]
              /\ Write(data)
              /\ entries' \in Layout /\ DOMAIN entries' = DOMAIN entries \cup {e}
              /\ \A x \in DOMAIN entries : entries'[x] = entries[x]
              /\ entries'[e] = [job.input[e] EXCEPT !.offset = Len(out)]
              /\ job' \in Jobs /\ job'.at = "write" /\ job'.cmd = job.cmd
              /\ job'.input = job.input /\ job'.layer = job.layer /\ job'.layers = job.layers
              /\ job'.tensors = job.tensors /\ job'.experts = job.experts \ {e}
              /\ Len(data) # 0 =>
                    job.input[e].offset + Len(data) <= Len(files[job.cmd.from][job.layer])
<1>1. PICK e \in job.experts :
          LET entry == job.input[e]
              data == Pread(files[job.cmd.from][job.layer], entry.bytes, entry.offset)
          IN /\ \A f \in job.experts \ {e} : Before(job.cmd, e, f)
             /\ Len(data) = entry.bytes
             /\ Write(data)
             /\ entries' = With(entries, e, [entry EXCEPT !.offset = Len(out)])
             /\ job' = [job EXCEPT !.experts = @ \ {e}]
    BY DEF WriteBlock, First
<1> DEFINE entry == job.input[e]
           file == files[job.cmd.from][job.layer]
           data == Pread(file, entry.bytes, entry.offset)
<1>2. /\ job \in Jobs /\ out \in Seq(Cells) /\ entries \in Layout /\ job.at = "write"
      /\ job.cmd.kind = "repack"
    BY DEF WriteBlock, TypeInv, ToolTypes
<1>3. job.input \in Layout /\ Filed(job.input, job.cmd.from) /\ e \in DOMAIN job.input /\ LayerOf[e] = job.layer
    BY <1>2 DEF TypeInv, FileTypes
<1>4. file \in Seq(Cells)
    BY <1>3 DEF Filed
<1>5. entry \in Entries /\ entry.offset \in Nat /\ entry.bytes \in Nat /\ e \in Experts
  <2>1. entry \in Entries /\ e \in Experts
    BY <1>3, LayoutTypes
  <2>2. QED
    BY <2>1 DEF Entries
<1>6. e \notin DOMAIN entries
    BY <1>2 DEF TypeInv, JobInv
<1>7. Len(out) \in Nat
    BY <1>2, LenProperties
<1>8. /\ Len(data) = entry.bytes /\ Write(data)
      /\ entries' = With(entries, e, [entry EXCEPT !.offset = Len(out)])
      /\ job' = [job EXCEPT !.experts = @ \ {e}]
    BY <1>1
<1> HIDE DEF entry, file
<1>9. /\ data \in Seq(Cells) /\ \A i \in 1..Len(data) : data[i] = file[entry.offset + i]
      /\ Len(data) # 0 => entry.offset + Len(data) <= Len(file)
  <2>1. /\ data \in Seq(Cells) /\ \A i \in 1..Len(data) : data[i] = file[entry.offset + i]
        /\ Len(data) = entry.bytes /\ entry.bytes # 0 => entry.offset + entry.bytes <= Len(file)
    BY <1>4, <1>5, PreadBrings
  <2>2. QED
    BY <1>8, <2>1
<1> HIDE DEF data
<1> DEFINE moved == [entry EXCEPT !.offset = Len(out)]
<1>10. moved \in Entries
    BY <1>5, <1>7 DEF Entries
<1> HIDE DEF moved
<1>11. /\ entries' \in Layout /\ DOMAIN entries' = DOMAIN entries \cup {e}
       /\ entries'[e] = moved /\ \A x \in DOMAIN entries : x # e => entries'[x] = entries[x]
  <2>1. entries' = With(entries, e, moved)
    BY <1>8 DEF moved
  <2>2. entries \in Layout /\ e \in Experts /\ moved \in Entries
    BY <1>2, <1>5, <1>10
  <2>3. QED
    BY <2>1, <2>2, WithTypes
<1>12. /\ job' \in Jobs /\ job'.at = "write" /\ job'.cmd = job.cmd
       /\ job'.input = job.input /\ job'.layer = job.layer /\ job'.layers = job.layers
       /\ job'.tensors = job.tensors /\ job'.experts = job.experts \ {e}
    BY <1>2, <1>8 DEF Jobs
<1>13. /\ \A x \in DOMAIN entries : entries'[x] = entries[x]
       /\ entries'[e] = [job.input[e] EXCEPT !.offset = Len(out)]
       /\ job.input[e] \in Entries /\ Len(data) = job.input[e].bytes
       /\ \A i \in 1..Len(data) :
             data[i] = files[job.cmd.from][job.layer][job.input[e].offset + i]
       /\ Len(data) # 0 =>
             job.input[e].offset + Len(data) <= Len(files[job.cmd.from][job.layer])
    BY <1>5, <1>6, <1>8, <1>9, <1>11 DEF moved, entry, file
<1>14. \A f \in job.experts \ {e} : Before(job.cmd, e, f)
    BY <1>1
<1>15. QED
    BY <1>5, <1>6, <1>8, <1>9, <1>11, <1>12, <1>13, <1>14

LEMMA WriteBlockTypes ==
    ASSUME TypeInv, WriteBlock
    PROVE  TypeInv'
<1>1. PICK e \in job.experts, data \in Seq(Cells) :
              /\ e \in Experts /\ e \notin DOMAIN entries /\ Write(data)
              /\ entries' \in Layout /\ DOMAIN entries' = DOMAIN entries \cup {e}
              /\ job' \in Jobs /\ job'.at = "write" /\ job'.cmd = job.cmd
              /\ job'.input = job.input /\ job'.layer = job.layer /\ job'.layers = job.layers
              /\ job'.tensors = job.tensors /\ job'.experts = job.experts \ {e}
    BY WriteBlockDoes
<1>2. /\ JobInv /\ job.at = "write" /\ job.cmd.kind = "repack"
      /\ UNCHANGED <<config, layouts, reader>>
    BY DEF WriteBlock, TypeInv
<1>3. e \in DOMAIN job.input /\ LayerOf[e] = job.layer
    BY DEF TypeInv, FileTypes
<1>4. JobInv'
  <2>1. job.tensors = {} /\ \A f \in job.experts : f \notin DOMAIN entries
    BY <1>2 DEF JobInv
  <2>2. QED
    BY <1>1, <1>2, <1>3, <2>1 DEF JobInv
<1>5. QED
    BY <1>1, <1>2, <1>4, WriteTypes

LEMMA CloseLayerTypes ==
    ASSUME TypeInv, CloseLayer
    PROVE  TypeInv'
<1>1. /\ job.at = "write" /\ job.experts = {}
      /\ files' = [files EXCEPT ![job.cmd.dir][job.layer] = out]
      /\ job' = [job EXCEPT !.at = "layer", !.layer = None]
      /\ out' = <<>>
      /\ UNCHANGED <<config, layouts, entries, reader>>
    BY DEF CloseLayer
<1>2. job \in Jobs /\ out \in Seq(Cells) /\ job.layer \in Layers /\ job.cmd.dir \in Dirs
    BY <1>1, JobNow DEF TypeInv, ToolTypes, FileTypes
<1>3. files' \in [Dirs -> [Layers -> Seq(Cells) \cup {None}]] /\ FilesKept
    BY <1>1, <1>2, FileWritten DEF TypeInv
<1>4. /\ job' \in Jobs /\ job'.at = "layer" /\ job'.cmd = job.cmd /\ job'.input = job.input
      /\ job'.layers = job.layers /\ job'.tensors = job.tensors /\ job'.experts = {}
    BY <1>1, <1>2 DEF Jobs
<1>5. <<>> \in Seq(Cells)
    OBVIOUS
<1>6. ToolTypes'
    BY <1>1, <1>3, <1>4, <1>5 DEF TypeInv, ToolTypes
<1>7. Filed(entries, job.cmd.dir)'
  <2>1. FilesKept /\ job.at # "idle" /\ config' = config /\ entries' = entries
    BY <1>1, <1>3
  <2>2. QED
    BY <2>1, <1>4, JobKept
<1>8. JobInv'
    BY <1>1, <1>4 DEF TypeInv, JobInv
<1>9. QED
    BY <1>1, <1>3, <1>4, <1>6, <1>7, <1>8, GoesOn

LEMMA PublishTypes ==
    ASSUME TypeInv, Publish
    PROVE  TypeInv'
<1>1. /\ job.at = "layer" /\ layouts' = [layouts EXCEPT ![job.cmd.dir] = entries]
      /\ job' = NoJob /\ entries' = <<>> /\ UNCHANGED <<config, files, out, reader>>
    BY DEF Publish
<1>2. /\ layouts \in [Dirs -> Layout \cup {None}] /\ entries \in Layout /\ out \in Seq(Cells)
      /\ files \in [Dirs -> [Layers -> Seq(Cells) \cup {None}]]
      /\ Filed(entries, job.cmd.dir) /\ job.cmd.dir \in Dirs
    BY <1>1, JobNow DEF TypeInv, ToolTypes, FileTypes
<1>3. /\ layouts' \in [Dirs -> Layout \cup {None}]
      /\ layouts'[job.cmd.dir] = entries
      /\ \A d \in Dirs : d # job.cmd.dir => layouts'[d] = layouts[d]
    BY <1>1, <1>2
<1>4. ASSUME NEW d \in Dirs
      PROVE  layouts'[d] = layouts[d] \/ (layouts'[d] \in Layout /\ Filed(layouts[d], d)')
    BY <1>1, <1>2, <1>3 DEF Filed
<1>5. FilesKept
    BY <1>1 DEF FilesKept
<1>6. QED
    BY <1>1, <1>2, <1>3, <1>4, <1>5, Ends

\* A step of the reader: what is left to show of the types.
LEMMA ReaderSteps ==
    ASSUME TypeInv, UNCHANGED toolVars, ReaderTypes'
    PROVE  TypeInv'
    BY DEF TypeInv, ToolTypes, FileTypes, JobInv, Filed, File, toolVars

LEMMA OpenStoreTypes ==
    ASSUME TypeInv, NEW d \in Dirs, OpenStore(d)
    PROVE  TypeInv'
<1>1. /\ layouts[d] \in Layout /\ Filed(layouts[d], d) /\ UNCHANGED toolVars
      /\ reader' = [NoReader EXCEPT !.dir = d, !.layout = layouts[d], !.at = "open"]
    BY DEF OpenStore, TypeInv, FileTypes, toolVars
<1>2. /\ reader' \in Readers /\ reader'.dir = d /\ reader'.layout = layouts[d] /\ reader'.at = "open"
  <2>1. <<>> \in Seq(Cells)
    OBVIOUS
  <2>2. QED
    BY <1>1, <2>1, EmptyLayout DEF Readers, NoReader
<1>3. ReaderTypes'
    BY <1>1, <1>2 DEF ReaderTypes, Filed, toolVars
<1>4. QED
    BY <1>1, <1>3, ReaderSteps

\* The reader has nothing, or waits for the next call.
LEMMA RestTypes ==
    ASSUME TypeInv, UNCHANGED toolVars,
           \/ reader' = NoReader
           \/ reader.at # "closed" /\ reader' = Waiting
    PROVE  TypeInv'
<1>1. <<>> \in Seq(Cells) /\ reader \in Readers
    BY DEF TypeInv, ReaderTypes
<1>2. CASE reader' = NoReader
  <2>1. reader' \in Readers /\ reader'.at = "closed"
    BY <1>1, <1>2, EmptyLayout DEF Readers, NoReader
  <2>2. QED
    BY <2>1, ReaderSteps DEF ReaderTypes
<1>3. CASE reader.at # "closed" /\ reader' = Waiting
  <2>1. reader' \in Readers /\ reader'.dir = reader.dir /\ reader'.layout = reader.layout
        /\ reader'.at = "open"
    BY <1>1, <1>3, EmptyLayout DEF Readers, Waiting, NoReader
  <2>2. ReaderTypes'
    BY <1>3, <2>1 DEF TypeInv, ReaderTypes, Filed, toolVars
  <2>3. QED
    BY <2>2, ReaderSteps
<1>4. QED
    BY <1>2, <1>3

LEMMA AskTypes ==
    ASSUME TypeInv, NEW e \in Experts, Ask(e)
    PROVE  TypeInv'
<1>1. /\ reader \in Readers /\ reader.at = "open" /\ e \in DOMAIN reader.layout /\ UNCHANGED toolVars
      /\ reader' = [reader EXCEPT !.at = "read", !.expert = e, !.buffer = <<>>]
    BY DEF Ask, TypeInv, ReaderTypes, toolVars
<1>2. <<>> \in Seq(Cells)
    OBVIOUS
<1>3. /\ reader' \in Readers /\ reader'.dir = reader.dir /\ reader'.layout = reader.layout
      /\ reader'.expert = e
    BY <1>1, <1>2 DEF Readers
<1>4. reader'.buffer = <<>> /\ Len(<<>>) = 0 /\ reader'.layout[reader'.expert].bytes \in Nat
  <2>1. reader.layout \in Layout
    BY <1>1 DEF Readers
  <2>2. reader.layout[e] \in Entries
    BY <1>1, <2>1, LayoutTypes
  <2>3. reader'.buffer = <<>>
    BY <1>1 DEF Readers
  <2>4. QED
    BY <1>3, <2>2, <2>3 DEF Entries
<1>5. ReaderTypes'
    BY <1>1, <1>3, <1>4 DEF TypeInv, ReaderTypes, Filed, toolVars, Entry
<1>6. QED
    BY <1>1, <1>5, ReaderSteps

LEMMA FallBackTypes ==
    ASSUME TypeInv, NEW e \in Experts, FallBack(e)
    PROVE  TypeInv'
<1> DEFINE result == [c \in Components |-> Pread(Shard, Size[c], SourceOf[<<e, c>>])]
<1>1. /\ reader \in Readers /\ reader.at = "open" /\ UNCHANGED toolVars
      /\ reader' = [reader EXCEPT !.at = "done", !.expert = e, !.result = result]
    BY DEF FallBack, TypeInv, ReaderTypes, toolVars
<1>2. result \in [Components -> Seq(Cells)]
  <2>1. \A c \in Components : Size[c] \in Nat /\ SourceOf[<<e, c>>] \in Nat
    BY ComponentAssumption, ShardAssumption
  <2>2. \A c \in Components : Pread(Shard, Size[c], SourceOf[<<e, c>>]) \in Seq(Cells)
    BY <2>1, PreadBrings, ShardAssumption
  <2>3. QED
    BY <2>2
<1>3. result \in Results
    BY <1>2 DEF Results
<1> HIDE DEF result
<1>4. /\ reader' \in Readers /\ reader'.dir = reader.dir /\ reader'.layout = reader.layout
      /\ reader'.at = "done"
    BY <1>1, <1>3 DEF Readers
<1>5. ReaderTypes'
    BY <1>1, <1>4 DEF TypeInv, ReaderTypes, Filed, toolVars
<1>6. QED
    BY <1>1, <1>5, ReaderSteps

\* The entry that the reader is at, and its file.
LEMMA ReaderEntry ==
    ASSUME TypeInv, reader.at \in {"read", "check"}
    PROVE  /\ reader \in Readers /\ Entry \in Entries /\ Opened \in Seq(Cells)
           /\ Entry.offset \in Nat /\ Entry.bytes \in Nat
           /\ DOMAIN Entry.tensors \subseteq Components
           /\ \A c \in DOMAIN Entry.tensors :
                 Entry.tensors[c].offset \in Nat /\ Entry.tensors[c].bytes \in Nat
<1>1. /\ reader \in Readers /\ reader.expert \in DOMAIN reader.layout
      /\ Filed(reader.layout, reader.dir)
    BY DEF TypeInv, ReaderTypes
<1>2. reader.layout \in Layout
    BY <1>1 DEF Readers
<1>3. Entry \in Entries
    BY <1>1, <1>2, LayoutTypes DEF Entry
<1>4. Opened \in Seq(Cells)
    BY <1>1 DEF Filed, Opened
<1>5. PICK C \in SUBSET Components : Entry.tensors \in [C -> Places]
    BY <1>3 DEF Entries
<1>6. Entry.offset \in Nat /\ Entry.bytes \in Nat
    BY <1>3 DEF Entries
<1>7. QED
    BY <1>1, <1>3, <1>4, <1>5, <1>6 DEF Places

LEMMA ReadSomeTypes ==
    ASSUME TypeInv, ReadSome
    PROVE  TypeInv'
<1> DEFINE at == Len(reader.buffer)
           got == Pread(Opened, Entry.bytes - at, Entry.offset + at)
<1>1. /\ reader.at = "read" /\ UNCHANGED toolVars
      /\ \E n \in (IF config.native THEN 1..Len(got) ELSE {Len(got)}) \ {0} :
             reader' = [reader EXCEPT !.buffer = @ \o SubSeq(got, 1, n),
                           !.at = IF config.native /\ at + n < Entry.bytes THEN "read" ELSE "check"]
    BY DEF ReadSome, toolVars
<1>2. /\ reader \in Readers /\ Opened \in Seq(Cells) /\ Entry.offset \in Nat /\ Entry.bytes \in Nat
    BY <1>1, ReaderEntry
<1>3. reader.buffer \in Seq(Cells) /\ at \in Nat
  <2>1. reader.buffer \in Seq(Cells)
    BY <1>2 DEF Readers
  <2>2. QED
    BY <2>1, LenProperties
<1>4. at <= Entry.bytes
    BY <1>1 DEF TypeInv, ReaderTypes
<1>5. got \in Seq(Cells)
  <2>1. Entry.bytes - at \in Nat /\ Entry.offset + at \in Nat
    BY <1>2, <1>3, <1>4
  <2>2. QED
    BY <1>2, <2>1, PreadBrings
<1> HIDE DEF at, got
<1>6. PICK n \in Nat :
          /\ n <= Len(got)
          /\ reader' = [reader EXCEPT !.buffer = @ \o SubSeq(got, 1, n),
                           !.at = IF config.native /\ at + n < Entry.bytes THEN "read" ELSE "check"]
  <2>1. Len(got) \in Nat
    BY <1>5, LenProperties
  <2>2. PICK n \in (IF config.native THEN 1..Len(got) ELSE {Len(got)}) \ {0} :
            reader' = [reader EXCEPT !.buffer = @ \o SubSeq(got, 1, n),
                           !.at = IF config.native /\ at + n < Entry.bytes THEN "read" ELSE "check"]
    BY <1>1
  <2>3. n \in Nat /\ n <= Len(got)
    BY <2>1
  <2>4. QED
    BY <2>2, <2>3
<1>7. SubSeq(got, 1, n) \in Seq(Cells)
  <2>1. \A i \in 1..n : got[i] \in Cells
    BY <1>5, <1>6
  <2>2. QED
    BY <2>1, SubSeqProperties
<1>8. reader.buffer \o SubSeq(got, 1, n) \in Seq(Cells)
    BY <1>3, <1>7, ConcatProperties
<1>9. /\ reader' \in Readers /\ reader'.dir = reader.dir /\ reader'.layout = reader.layout
      /\ reader'.expert = reader.expert
    BY <1>2, <1>6, <1>8 DEF Readers
<1>10. reader'.at = "read" => Len(reader'.buffer) <= Entry.bytes
  <2>1. Len(SubSeq(got, 1, n)) = n
    <3>1. Len(got) \in Nat /\ got \in Seq(Cells)
        BY <1>5, LenProperties
    <3>2. QED
        BY <1>6, <3>1, SubSeqProperties
  <2>2. Len(reader.buffer \o SubSeq(got, 1, n)) = at + n
    <3>1. at = Len(reader.buffer)
        BY DEF at
    <3> DEFINE more == SubSeq(got, 1, n)
    <3>2. reader.buffer \in Seq(Cells) /\ more \in Seq(Cells) /\ Len(more) = n
        BY <1>3, <1>7, <2>1
    <3> HIDE DEF more
    <3>3. Len(reader.buffer \o more) = Len(reader.buffer) + Len(more)
        BY <3>2, ConcatProperties
    <3>4. QED
        BY <3>1, <3>2, <3>3 DEF more
  <2>3. reader'.buffer = reader.buffer \o SubSeq(got, 1, n)
        /\ (reader'.at = "read" => at + n < Entry.bytes)
    BY <1>2, <1>6 DEF Readers
  <2>4. reader'.at = "read" => Len(reader'.buffer) = at + n /\ at + n < Entry.bytes
    BY <2>2, <2>3
  <2>5. at + n \in Nat /\ Entry.bytes \in Nat
    BY <1>2, <1>3, <1>6
  <2>6. QED
    BY <2>4, <2>5
<1>11. Entry' = Entry
    BY <1>9 DEF Entry
<1>12. reader'.at \in {"read", "check"}
    BY <1>2, <1>6 DEF Readers
<1>13. ReaderTypes'
    BY <1>1, <1>9, <1>10, <1>11, <1>12 DEF TypeInv, ReaderTypes, Filed, toolVars
<1>14. QED
    BY <1>1, <1>13, ReaderSteps

LEMMA ReadNothingTypes ==
    ASSUME TypeInv, ReadNothing
    PROVE  TypeInv'
<1>1. /\ reader.at = "read" /\ reader \in Readers /\ UNCHANGED toolVars
      /\ reader' = [reader EXCEPT !.at = "check"]
    BY DEF ReadNothing, TypeInv, ReaderTypes, toolVars
<1>2. /\ reader' \in Readers /\ reader'.dir = reader.dir /\ reader'.layout = reader.layout
      /\ reader'.expert = reader.expert /\ reader'.at = "check"
    BY <1>1 DEF Readers
<1>3. ReaderTypes'
    BY <1>1, <1>2 DEF TypeInv, ReaderTypes, Filed, toolVars
<1>4. QED
    BY <1>1, <1>3, ReaderSteps

LEMMA CheckReadTypes ==
    ASSUME TypeInv, CheckRead
    PROVE  TypeInv'
<1> DEFINE result == [c \in DOMAIN Entry.tensors |->
                         Pread(reader.buffer, Entry.tensors[c].bytes, Entry.tensors[c].offset)]
<1>1. /\ reader.at = "check" /\ UNCHANGED toolVars
      /\ \/ reader' = Waiting
         \/ reader' = [reader EXCEPT !.at = "done", !.buffer = <<>>, !.result = result]
    BY DEF CheckRead, toolVars
<1>2. /\ reader \in Readers /\ DOMAIN Entry.tensors \subseteq Components
      /\ \A c \in DOMAIN Entry.tensors :
            Entry.tensors[c].offset \in Nat /\ Entry.tensors[c].bytes \in Nat
    BY <1>1, ReaderEntry
<1>3. CASE reader' = Waiting
    BY <1>1, <1>3, RestTypes
<1>4. CASE reader' = [reader EXCEPT !.at = "done", !.buffer = <<>>, !.result = result]
  <2>1. reader.buffer \in Seq(Cells) /\ <<>> \in Seq(Cells)
    BY <1>2 DEF Readers
  <2>2. result \in [DOMAIN Entry.tensors -> Seq(Cells)]
    BY <1>2, <2>1, PreadBrings
  <2>3. result \in Results
    BY <1>2, <2>2 DEF Results
  <2> HIDE DEF result
  <2>4. /\ reader' \in Readers /\ reader'.dir = reader.dir /\ reader'.layout = reader.layout
        /\ reader'.at = "done"
    BY <1>2, <1>4, <2>1, <2>3 DEF Readers
  <2>5. ReaderTypes'
    BY <1>1, <2>4 DEF TypeInv, ReaderTypes, Filed, toolVars
  <2>6. QED
    BY <1>1, <2>5, ReaderSteps
<1>5. QED
    BY <1>1, <1>3, <1>4

-----------------------------------------------------------------------------
LEMMA NextTypes == TypeInv /\ [Next]_vars => TypeInv'
<1> SUFFICES ASSUME TypeInv, [Next]_vars PROVE TypeInv'
    OBVIOUS
<1>1. CASE UNCHANGED vars
  <2>1. UNCHANGED toolVars /\ UNCHANGED reader
    BY <1>1 DEF vars, toolVars
  <2>2. ReaderTypes'
    BY <2>1 DEF TypeInv, ReaderTypes, Filed, Entry, toolVars
  <2>3. QED
    BY <2>1, <2>2, ReaderSteps
<1>2. CASE \E cmd \in config.jobs : Begin(cmd)
    BY <1>2, BeginTypes
<1>3. CASE Writing
    BY <1>3, OpenLayerTypes, NextExpertTypes, WriteTensorTypes, WriteBlockTypes, CloseLayerTypes,
       PublishTypes DEF Writing
<1>4. CASE Die
    BY <1>4, DieTypes
<1>5. CASE \E d \in Dirs : OpenStore(d)
    BY <1>5, OpenStoreTypes
<1>6. CASE \E e \in Experts : Ask(e) \/ FallBack(e)
    BY <1>6, AskTypes, FallBackTypes
<1>7. CASE Reading \/ CloseStore
  <2>1. CASE Return \/ CloseStore
    BY <2>1, RestTypes DEF Return, CloseStore, toolVars
  <2>2. QED
    BY <1>7, <2>1, ReadSomeTypes, ReadNothingTypes, CheckReadTypes DEF Reading
<1>8. QED
    BY <1>1, <1>2, <1>3, <1>4, <1>5, <1>6, <1>7 DEF Next

LEMMA TypesSuffice == TypeInv => TypeOK
<1> SUFFICES ASSUME TypeInv PROVE TypeOK
    OBVIOUS
<1>1. \A d \in Dirs : layouts[d] = None \/ IsLayout(layouts[d])
    BY LayoutTypes DEF TypeInv, FileTypes
<1>2. IsLayout(entries)
    BY LayoutTypes DEF TypeInv, ToolTypes
<1>3. IsLayout(reader.layout)
  <2>1. reader.layout \in Layout
    BY DEF TypeInv, ReaderTypes, Readers
  <2>2. QED
    BY <2>1, LayoutTypes
<1>4. \A d \in Dirs, l \in Layers : files[d][l] = None \/ files[d][l] \in Seq(Cells)
    BY DEF TypeInv, ToolTypes
<1>5. /\ config \in Configs /\ out \in Seq(Cells)
      /\ job.at \in {"idle", "layer", "write"} /\ (job.at = "idle" \/ job.cmd \in config.jobs)
      /\ job.layers \subseteq Layers /\ job.experts \subseteq Experts
      /\ job.tensors \subseteq Components /\ job.layer \in Layers \cup {None}
    BY DEF TypeInv, ToolTypes, FileTypes, Jobs
<1>6. /\ reader.at \in {"closed", "open", "read", "check", "done"}
      /\ reader.dir \in Dirs \cup {None}
      /\ reader.expert \in Experts \cup {None} /\ reader.buffer \in Seq(Cells)
    BY DEF TypeInv, ReaderTypes, Readers
<1>7. QED
    BY <1>1, <1>2, <1>3, <1>4, <1>5, <1>6 DEF TypeOK

\* The files, the tools and the reader have only values of their types, whatever the
\* tools were stopped at: an entry is never read without its file, and the native
\* loader never asks for less than nothing (lazy_official_runtime.py and
\* native_packed_loader.cpp).
THEOREM StoreTypes == Spec => []TypeOK
<1>1. Spec => []TypeInv
    BY InitTypes, NextTypes, PTL DEF Spec
<1>2. QED
    BY <1>1, TypesSuffice, PTL
-----------------------------------------------------------------------------
(* What a step leaves alone *)

\* A step is one of the tools, or leaves what they have alone.
LEMMA StepOfTools ==
    ASSUME [Next]_vars
    PROVE  (\E cmd \in config.jobs : Begin(cmd)) \/ Writing \/ Die \/ UNCHANGED toolVars
    BY DEF Next, vars, toolVars, Reading, OpenStore, CloseStore, Ask, FallBack, ReadSome,
       ReadNothing, CheckRead, Return

\* One directory is written, and until it is done the tool has its command and input.
LEMMA WritingKeeps ==
    ASSUME TypeInv, Writing
    PROVE  /\ config' = config /\ job.at # "idle"
           /\ \A d \in Dirs : d # job.cmd.dir => files'[d] = files[d]
           /\ Publish \/ (/\ layouts' = layouts /\ job'.at # "idle"
                          /\ job'.cmd = job.cmd /\ job'.input = job.input)
<1>1. /\ files \in [Dirs -> [Layers -> Seq(Cells) \cup {None}]] /\ job \in Jobs
    BY DEF TypeInv, ToolTypes
<1>2. ASSUME NEW d, NEW l, NEW x, files' = [files EXCEPT ![d][l] = x]
      PROVE  \A c \in Dirs : c # d => files'[c] = files[c]
    BY <1>1, <1>2
<1>3. ASSUME NEW data, Write(data)
      PROVE  \A d \in Dirs : d # job.cmd.dir => files'[d] = files[d]
    BY <1>2, <1>3 DEF Write
<1>4. CASE OpenLayer
  <2>1. PICK l \in job.layers :
            /\ files' = [files EXCEPT ![job.cmd.dir][l] = <<>>]
            /\ job' = [job EXCEPT !.at = "write", !.layer = l, !.layers = @ \ {l},
                          !.experts = {e \in DOMAIN job.input : LayerOf[e] = l}]
    BY <1>4 DEF OpenLayer, First
  <2>2. job.at = "layer" /\ config' = config /\ layouts' = layouts
    BY <1>4 DEF OpenLayer
  <2>3. job'.at = "write" /\ job'.cmd = job.cmd /\ job'.input = job.input
    BY <1>1, <2>1 DEF Jobs
  <2>4. QED
    BY <1>2, <2>1, <2>2, <2>3
<1>5. CASE NextExpert
  <2>1. /\ job.at = "write" /\ job' = [job EXCEPT !.tensors = Components]
        /\ UNCHANGED <<config, files, layouts, out, reader>>
    BY <1>5 DEF NextExpert
  <2>2. QED
    BY <1>1, <2>1 DEF Jobs
<1>6. CASE WriteTensor
  <2>1. PICK e \in job.experts, c \in job.tensors, data \in Seq(Cells) :
            Write(data) /\ job'.at = "write" /\ job'.cmd = job.cmd /\ job'.input = job.input
    BY <1>6, WriteTensorDoes
  <2>2. QED
    BY <1>3, <1>6, <2>1 DEF WriteTensor
<1>7. CASE WriteBlock
  <2>1. PICK e \in job.experts, data \in Seq(Cells) :
            Write(data) /\ job'.at = "write" /\ job'.cmd = job.cmd /\ job'.input = job.input
    BY <1>7, WriteBlockDoes
  <2>2. QED
    BY <1>3, <1>7, <2>1 DEF WriteBlock
<1>8. CASE CloseLayer
  <2>1. /\ job.at = "write" /\ files' = [files EXCEPT ![job.cmd.dir][job.layer] = out]
        /\ job' = [job EXCEPT !.at = "layer", !.layer = None]
        /\ config' = config /\ layouts' = layouts
    BY <1>8 DEF CloseLayer
  <2>2. job'.at = "layer" /\ job'.cmd = job.cmd /\ job'.input = job.input
    BY <1>1, <2>1 DEF Jobs
  <2>3. QED
    BY <1>2, <2>1, <2>2
<1>9. CASE Publish
    BY <1>9 DEF Publish
<1>10. QED
    BY <1>4, <1>5, <1>6, <1>7, <1>8, <1>9 DEF Writing

LEMMA DieKeeps ==
    ASSUME TypeInv, Die
    PROVE  /\ config' = config /\ job.at # "idle" /\ layouts' = layouts
           /\ job' = NoJob /\ entries' = <<>>
           /\ \A d \in Dirs : d # job.cmd.dir => files'[d] = files[d]
<1>1. files \in [Dirs -> [Layers -> Seq(Cells) \cup {None}]]
    BY DEF TypeInv, ToolTypes
<1>2. files' = files \/ \E x : files' = [files EXCEPT ![job.cmd.dir][job.layer] = x]
    BY DEF Die
<1>3. QED
    BY <1>1, <1>2 DEF Die

\* The command of Begin, and what it goes through.
LEMMA BeginDoes ==
    ASSUME TypeInv, NEW cmd \in config.jobs, Begin(cmd)
    PROVE  /\ job.at = "idle" /\ job'.at = "layer" /\ job'.cmd = cmd /\ cmd.dir \in Dirs
           /\ layouts[cmd.dir] = None \/ cmd.overwrite
           /\ \/ cmd.kind = "build" /\ DOMAIN job'.input = Selected(cmd)
              \/ /\ cmd.kind = "repack" /\ cmd.from \in Dirs
                 /\ layouts[cmd.from] # None /\ job'.input = layouts[cmd.from]
           /\ entries' = <<>> /\ UNCHANGED <<config, files, layouts>>
<1> DEFINE experts == IF cmd.kind = "build" THEN Selected(cmd)
                      ELSE IF layouts[cmd.from] = None THEN {} ELSE DOMAIN layouts[cmd.from]
           input == IF cmd.kind = "build" THEN [e \in experts |-> None] ELSE layouts[cmd.from]
<1>1. /\ job.at = "idle" /\ ~Refused(cmd) /\ experts # {}
      /\ job' = [NoJob EXCEPT !.cmd = cmd, !.at = "layer", !.input = input,
                              !.layers = {LayerOf[e] : e \in experts}]
      /\ entries' = <<>> /\ UNCHANGED <<config, files, layouts>>
    BY DEF Begin
<1>2. /\ cmd.dir \in Dirs
      /\ cmd.kind = "build" \/ (cmd.kind = "repack" /\ cmd.from \in Dirs)
  <2>1. config \in Configs
    BY DEF TypeInv, ToolTypes
  <2>2. QED
    BY <2>1, CommandTypes
<1>3. /\ cmd.kind = "build" => DOMAIN input = Selected(cmd)
      /\ cmd.kind # "build" => layouts[cmd.from] # None /\ input = layouts[cmd.from]
    BY <1>1
<1> HIDE DEF experts, input
<1>4. job'.at = "layer" /\ job'.cmd = cmd /\ job'.input = input
    BY <1>1 DEF NoJob
<1>5. QED
    BY <1>1, <1>2, <1>3, <1>4 DEF Refused

-----------------------------------------------------------------------------
(* A published layout is kept *)

\* Without --overwrite a tool that runs makes a layout that is not there, and the one
\* that it reads is the one on the disk.
KeptInv ==
    NoOverwrite /\ job.at # "idle" =>
        /\ layouts[job.cmd.dir] = None
        /\ job.cmd.kind = "repack" =>
              layouts[job.cmd.from] # None /\ layouts[job.cmd.from] = job.input

LEMMA KeptNext ==
    ASSUME TypeInv, KeptInv, [Next]_vars
    PROVE  KeptInv'
<1>1. CASE \E cmd \in config.jobs : Begin(cmd)
  <2>1. PICK cmd \in config.jobs : Begin(cmd)
    BY <1>1
  <2>2. QED
    BY <2>1, BeginDoes DEF KeptInv, NoOverwrite
<1>2. CASE Writing
  <2>1. CASE Publish
    BY <2>1 DEF Publish, KeptInv, NoJob
  <2>2. CASE ~Publish
    BY <1>2, <2>2, WritingKeeps DEF KeptInv, NoOverwrite
  <2>3. QED
    BY <2>1, <2>2
<1>3. CASE Die
    BY <1>3, DieKeeps DEF KeptInv, NoJob
<1>4. CASE UNCHANGED toolVars
    BY <1>4 DEF toolVars, KeptInv, NoOverwrite
<1>5. QED
    BY <1>1, <1>2, <1>3, <1>4, StepOfTools

LEMMA KeptStep ==
    ASSUME TypeInv, KeptInv, [Next]_vars, NoOverwrite, NEW d \in Dirs, layouts[d] # None
    PROVE  layouts'[d] = layouts[d] /\ files'[d] = files[d]
<1>1. CASE \E cmd \in config.jobs : Begin(cmd)
    BY <1>1 DEF Begin
<1>2. CASE Writing
  <2>1. d # job.cmd.dir /\ files'[d] = files[d]
    BY <1>2, WritingKeeps DEF KeptInv
  <2>2. CASE Publish
    <3>1. layouts \in [Dirs -> Layout \cup {None}]
        BY DEF TypeInv, ToolTypes
    <3>2. QED
        BY <2>1, <2>2, <3>1 DEF Publish
  <2>3. QED
    BY <1>2, <2>1, <2>2, WritingKeeps
<1>3. CASE Die
    BY <1>3, DieKeeps DEF KeptInv
<1>4. CASE UNCHANGED toolVars
    BY <1>4 DEF toolVars
<1>5. QED
    BY <1>1, <1>2, <1>3, <1>4, StepOfTools

\* Without --overwrite, whatever is built, repacked, stopped and begun again: a layout
\* that exists, and the layer files beside it, stay as they are (the checks for an
\* existing layout at the head of build_layout and of main of the repack).
THEOREM PublishedKept == Spec => PublishedIsKept
<1>1. Init => KeptInv
    BY DEF Init, KeptInv, NoJob
<1>2. TypeInv /\ KeptInv /\ [Next]_vars => TypeInv' /\ KeptInv'
    BY NextTypes, KeptNext
<1>3. TypeInv /\ KeptInv /\ [Next]_vars
      => [NoOverwrite => \A d \in Dirs : layouts[d] # None =>
              layouts'[d] = layouts[d] /\ files'[d] = files[d]]_vars
    BY KeptStep
<1>4. QED
    BY InitTypes, <1>1, <1>2, <1>3, PTL DEF Spec, PublishedIsKept
-----------------------------------------------------------------------------
(* A layout describes the files beside it *)

\* Of the tensors of an entry, those in S are where it says.
HoldsPart(file, entry, e, S) ==
    /\ DOMAIN entry.tensors = S
    /\ entry.offset + entry.bytes <= Len(file)
    /\ \A c \in S :
          LET t == entry.tensors[c] IN
          /\ t.bytes = Size[c] /\ t.offset + t.bytes <= entry.bytes
          /\ \A i \in 1..Size[c] : file[entry.offset + t.offset + i] = <<e, c, i>>

LEMMA WholeHolds ==
    ASSUME NEW file, NEW entry, NEW e
    PROVE  HoldsPart(file, entry, e, Components) <=> Holds(file, entry, e)
    BY DEF HoldsPart, Holds

Held == \A d \in Dirs : layouts[d] # None =>
            \A e \in DOMAIN layouts[d] : Holds(files[d][LayerOf[e]], layouts[d][e], e)

\* The tensors of e that have been written.
Written(e) == IF e \in job.experts THEN Components \ job.tensors ELSE Components

\* The entries that a tool has made: those of the layers that it has closed describe
\* their files, those of the layer that is open what has been written to it.
MadeInv ==
    /\ job.at # "idle" => \A e \in DOMAIN entries :
          job.at = "layer" \/ LayerOf[e] # job.layer
              => Holds(files[job.cmd.dir][LayerOf[e]], entries[e], e)
    /\ job.at = "write" => \A e \in DOMAIN entries :
          LayerOf[e] = job.layer => HoldsPart(out, entries[e], e, Written(e))

HoldInv == NoOverwrite => Held /\ MadeInv

\* The tensors of an entry, and their places.
LEMMA PlacesOf ==
    ASSUME NEW entry \in Entries
    PROVE  /\ entry.offset \in Nat /\ entry.bytes \in Nat
           /\ DOMAIN entry.tensors \subseteq Components
           /\ \A c \in DOMAIN entry.tensors :
                 /\ entry.tensors[c].offset \in Nat /\ entry.tensors[c].bytes \in Nat
                 /\ Size[c] \in Nat
<1>1. PICK C \in SUBSET Components : entry.tensors \in [C -> Places]
    BY DEF Entries
<1>2. \A c \in Components : Size[c] \in Nat
    BY ComponentAssumption
<1>3. QED
    BY <1>1, <1>2 DEF Entries, Places

LEMMA Joined ==
    ASSUME NEW file \in Seq(Cells), NEW data \in Seq(Cells)
    PROVE  /\ Len(file \o data) = Len(file) + Len(data) /\ Len(file) \in Nat /\ Len(data) \in Nat
           /\ \A i \in 1..Len(file) : (file \o data)[i] = file[i]
           /\ \A i \in 1..Len(data) : (file \o data)[Len(file) + i] = data[i]
<1>1. Len(file) \in Nat /\ Len(data) \in Nat
    BY LenProperties
<1>2. QED
    BY <1>1

LEMMA InBlock ==
    ASSUME NEW offset \in Nat, NEW bytes \in Nat, NEW at \in Nat, NEW size \in Nat,
           NEW length \in Nat, NEW i \in 1..size,
           at + size <= bytes, offset + bytes <= length
    PROVE  offset + at + i \in 1..length
    OBVIOUS

\* The next tensor of an expert goes behind what has been written.
LEMMA HoldsMore ==
    ASSUME NEW file \in Seq(Cells), NEW data \in Seq(Cells), NEW entry \in Entries,
           NEW next \in Entries, NEW e \in Experts, NEW c \in Components, NEW S,
           HoldsPart(file, entry, e, S), entry.offset + entry.bytes = Len(file),
           Len(data) = Size[c], \A i \in 1..Size[c] : data[i] = <<e, c, i>>,
           next.offset = entry.offset, next.bytes = entry.bytes + Size[c],
           DOMAIN next.tensors = DOMAIN entry.tensors \cup {c},
           next.tensors[c] = [offset |-> entry.bytes, bytes |-> Size[c]],
           \A x \in DOMAIN entry.tensors : x # c => next.tensors[x] = entry.tensors[x]
    PROVE  HoldsPart(file \o data, next, e, S \cup {c})
<1>1. /\ Len(file \o data) = Len(file) + Len(data) /\ Len(file) \in Nat /\ Len(data) \in Nat
      /\ \A i \in 1..Len(file) : (file \o data)[i] = file[i]
      /\ \A i \in 1..Len(data) : (file \o data)[Len(file) + i] = data[i]
    BY Joined
<1>2. entry.offset \in Nat /\ entry.bytes \in Nat /\ Size[c] \in Nat
    BY PlacesOf, ComponentAssumption
<1>3. DOMAIN next.tensors = S \cup {c}
    BY DEF HoldsPart
<1>4. next.offset + next.bytes <= Len(file \o data)
    BY <1>1, <1>2
<1>5. ASSUME NEW x \in S, x # c
      PROVE  LET t == next.tensors[x] IN
             /\ t.bytes = Size[x] /\ t.offset + t.bytes <= next.bytes
             /\ \A i \in 1..Size[x] : (file \o data)[next.offset + t.offset + i] = <<e, x, i>>
  <2>1. next.tensors[x] = entry.tensors[x] /\ x \in DOMAIN entry.tensors
    BY <1>5 DEF HoldsPart
  <2>2. entry.tensors[x].offset \in Nat /\ Size[x] \in Nat
    BY <2>1, PlacesOf
  <2>3. /\ entry.tensors[x].bytes = Size[x] /\ entry.tensors[x].offset + Size[x] <= entry.bytes
        /\ entry.offset + entry.bytes <= Len(file)
        /\ \A i \in 1..Size[x] : file[entry.offset + entry.tensors[x].offset + i] = <<e, x, i>>
    BY <1>5 DEF HoldsPart
  <2>4. ASSUME NEW i \in 1..Size[x]
        PROVE  (file \o data)[entry.offset + entry.tensors[x].offset + i] = <<e, x, i>>
    <3>1. entry.offset + entry.tensors[x].offset + i \in 1..Len(file)
      <4>1. /\ entry.tensors[x].offset + Size[x] <= entry.bytes
            /\ entry.offset + entry.bytes <= Len(file)
        BY <2>3
      <4>2. QED
        BY <1>1, <1>2, <2>2, <4>1, InBlock
    <3>2. (file \o data)[entry.offset + entry.tensors[x].offset + i]
          = file[entry.offset + entry.tensors[x].offset + i]
        BY <1>1, <3>1
    <3>3. QED
        BY <2>3, <3>2
  <2>5. entry.tensors[x].offset + Size[x] <= next.bytes
    BY <1>2, <2>2, <2>3
  <2>6. QED
    BY <2>1, <2>3, <2>4, <2>5
<1>6. LET t == next.tensors[c] IN
      /\ t.bytes = Size[c] /\ t.offset + t.bytes <= next.bytes
      /\ \A i \in 1..Size[c] : (file \o data)[next.offset + t.offset + i] = <<e, c, i>>
  <2>1. next.tensors[c].bytes = Size[c] /\ next.tensors[c].offset = entry.bytes
    OBVIOUS
  <2>2. ASSUME NEW i \in 1..Size[c]
        PROVE  (file \o data)[Len(file) + i] = <<e, c, i>>
    <3>1. (file \o data)[Len(file) + i] = data[i]
        BY <1>1, <1>2
    <3>2. QED
        BY <3>1
  <2>3. \A i \in 1..Size[c] : next.offset + entry.bytes + i = Len(file) + i
    BY <1>2
  <2>4. entry.bytes + Size[c] <= next.bytes
    BY <1>2
  <2>5. QED
    BY <2>1, <2>2, <2>3, <2>4
<1>7. QED
    BY <1>3, <1>4, <1>5, <1>6 DEF HoldsPart

\* A block that is copied is right where it is copied to.
LEMMA HoldsCopy ==
    ASSUME NEW from \in Seq(Cells), NEW file \in Seq(Cells), NEW data \in Seq(Cells),
           NEW entry \in Entries, NEW e \in Experts, Holds(from, entry, e),
           Len(data) = entry.bytes,
           \A i \in 1..Len(data) : data[i] = from[entry.offset + i]
    PROVE  Holds(file \o data, [entry EXCEPT !.offset = Len(file)], e)
<1>1. /\ Len(file \o data) = Len(file) + Len(data) /\ Len(file) \in Nat /\ Len(data) \in Nat
      /\ \A i \in 1..Len(file) : (file \o data)[i] = file[i]
      /\ \A i \in 1..Len(data) : (file \o data)[Len(file) + i] = data[i]
    BY Joined
<1> DEFINE next == [entry EXCEPT !.offset = Len(file)]
<1>2. next.offset = Len(file) /\ next.bytes = entry.bytes /\ next.tensors = entry.tensors
    BY DEF Entries
<1> HIDE DEF next
<1>3. /\ DOMAIN entry.tensors = Components /\ entry.offset \in Nat /\ entry.bytes \in Nat
      /\ \A c \in Components : entry.tensors[c].offset \in Nat /\ Size[c] \in Nat
    BY PlacesOf DEF Holds
<1>4. ASSUME NEW c \in Components, NEW i \in 1..Size[c]
      PROVE  (file \o data)[Len(file) + entry.tensors[c].offset + i] = <<e, c, i>>
  <2>1. entry.tensors[c].bytes = Size[c] /\ entry.tensors[c].offset + Size[c] <= entry.bytes
    BY DEF Holds
  <2>2. entry.tensors[c].offset + i \in 1..Len(data)
    BY <1>1, <1>3, <2>1
  <2>3. (file \o data)[Len(file) + (entry.tensors[c].offset + i)] = data[entry.tensors[c].offset + i]
    BY <1>1, <2>2
  <2>4. data[entry.tensors[c].offset + i] = from[entry.offset + (entry.tensors[c].offset + i)]
    BY <2>2
  <2>5. /\ Len(file) + (entry.tensors[c].offset + i) = Len(file) + entry.tensors[c].offset + i
        /\ entry.offset + (entry.tensors[c].offset + i) = entry.offset + entry.tensors[c].offset + i
    BY <1>1, <1>3
  <2>6. from[entry.offset + entry.tensors[c].offset + i] = <<e, c, i>>
    BY DEF Holds
  <2>7. QED
    BY <2>3, <2>4, <2>5, <2>6
<1>5. next.offset + next.bytes <= Len(file \o data)
    BY <1>1, <1>2, <1>3
<1>6. \A c \in Components :
          next.tensors[c].bytes = Size[c] /\ next.tensors[c].offset + next.tensors[c].bytes <= next.bytes
    BY <1>2 DEF Holds
<1>7. Holds(file \o data, next, e)
    BY <1>2, <1>3, <1>4, <1>5, <1>6 DEF Holds
<1>8. QED
    BY <1>7 DEF next
-----------------------------------------------------------------------------
LEMMA HeldKept ==
    ASSUME TypeInv, KeptInv, Held, [Next]_vars, NoOverwrite, layouts' = layouts
    PROVE  Held'
<1>1. \A d \in Dirs : layouts[d] # None => files'[d] = files[d]
    BY KeptStep
<1>2. QED
    BY <1>1 DEF Held

\* The expert that is being written.
LEMMA OneAtATime ==
    ASSUME TypeInv, NEW e \in job.experts, NEW f \in job.experts,
           e \in DOMAIN entries, f \in DOMAIN entries
    PROVE  e = f
<1>1. e \in Nat /\ f \in Nat
  <2>1. job.experts \subseteq Experts
    BY DEF TypeInv, ToolTypes, Jobs
  <2>2. QED
    BY <2>1, ExpertAssumption
<1>2. e # f => e < f /\ f < e
    BY DEF TypeInv, JobInv
<1>3. QED
    BY <1>1, <1>2

\* The values of a tool that has a file open.
LEMMA WriteNow ==
    ASSUME TypeInv, job.at = "write"
    PROVE  /\ out \in Seq(Cells) /\ entries \in Layout /\ job \in Jobs
           /\ job.layer \in Layers /\ job.cmd.dir \in Dirs
           /\ \A x \in DOMAIN entries : x \in Experts /\ entries[x] \in Entries /\ LayerOf[x] \in Layers
           /\ \A x \in job.experts : x \in DOMAIN job.input /\ LayerOf[x] = job.layer
<1>1. /\ out \in Seq(Cells) /\ entries \in Layout /\ job \in Jobs
      /\ job.layer \in Layers /\ job.cmd.dir \in Dirs
    BY JobNow DEF TypeInv, ToolTypes, FileTypes
<1>2. \A x \in job.experts : x \in DOMAIN job.input /\ LayerOf[x] = job.layer
    BY DEF TypeInv, FileTypes
<1>3. QED
    BY <1>1, <1>2, LayoutTypes, LayersOfExperts

\* A step that writes: the layers that are closed have their files still.
LEMMA ClosedHold ==
    ASSUME TypeInv, job.at = "write", MadeInv, NEW data \in Seq(Cells), Write(data),
           job'.at = "write", job'.cmd = job.cmd, job'.layer = job.layer,
           NEW e \in job.experts, DOMAIN entries' \subseteq DOMAIN entries \cup {e},
           \A x \in DOMAIN entries : x # e => entries'[x] = entries[x],
           NEW x \in DOMAIN entries', LayerOf[x] # job.layer
    PROVE  Holds(files'[job.cmd.dir][LayerOf[x]], entries'[x], x)
<1>1. LayerOf[e] = job.layer
    BY WriteNow
<1>2. x \in DOMAIN entries /\ entries'[x] = entries[x]
    BY <1>1
<1>3. LayerOf[x] \in Layers /\ job.cmd.dir \in Dirs
    BY <1>2, WriteNow
<1>4. files'[job.cmd.dir][LayerOf[x]] = files[job.cmd.dir][LayerOf[x]]
    BY <1>3, WriteDoes
<1>5. QED
    BY <1>2, <1>4 DEF MadeInv

LEMMA WriteTensorMade ==
    ASSUME TypeInv, MadeInv, WriteTensor
    PROVE  MadeInv'
<1>1. PICK e \in job.experts, c \in job.tensors, data \in Seq(Cells) :
              /\ e \in Experts /\ e \in DOMAIN entries /\ c \in Components
              /\ Len(data) = Size[c] /\ \A i \in 1..Size[c] : data[i] = <<e, c, i>>
              /\ Write(data)
              /\ entries[e].offset + entries[e].bytes = Len(out)
              /\ entries' \in Layout /\ DOMAIN entries' = DOMAIN entries
              /\ \A x \in DOMAIN entries : x # e => entries'[x] = entries[x]
              /\ entries'[e].offset = entries[e].offset
              /\ entries'[e].bytes = entries[e].bytes + Size[c]
              /\ DOMAIN entries'[e].tensors = DOMAIN entries[e].tensors \cup {c}
              /\ entries'[e].tensors[c] = [offset |-> entries[e].bytes, bytes |-> Size[c]]
              /\ \A x \in DOMAIN entries[e].tensors :
                    x # c => entries'[e].tensors[x] = entries[e].tensors[x]
              /\ job' \in Jobs /\ job'.at = "write" /\ job'.cmd = job.cmd
              /\ job'.input = job.input /\ job'.layer = job.layer /\ job'.layers = job.layers
              /\ job'.tensors = job.tensors \ {c}
              /\ job'.experts = IF job.tensors = {c} THEN job.experts \ {e} ELSE job.experts
              /\ \A d \in job.tensors \ {c} : c < d
    BY WriteTensorDoes
<1>2. job.at = "write"
    BY DEF WriteTensor
<1>3. /\ out \in Seq(Cells) /\ LayerOf[e] = job.layer /\ job.tensors \subseteq Components
      /\ entries[e] \in Entries /\ entries'[e] \in Entries
  <2>1. out \in Seq(Cells) /\ LayerOf[e] = job.layer /\ entries[e] \in Entries /\ job \in Jobs
    BY <1>1, <1>2, WriteNow
  <2>2. entries'[e] \in Entries
    BY <1>1, LayoutTypes
  <2>3. QED
    BY <2>1, <2>2 DEF Jobs
<1>4. out' = out \o data
    BY <1>1 DEF Write
<1>5. HoldsPart(out', entries'[e], e, Written(e)')
  <2>1. HoldsPart(out, entries[e], e, Components \ job.tensors)
    BY <1>1, <1>2, <1>3 DEF MadeInv, Written
  <2>2. HoldsPart(out \o data, entries'[e], e, (Components \ job.tensors) \cup {c})
    BY <1>1, <1>3, <2>1, HoldsMore
  <2>3. Written(e)' = (Components \ job.tensors) \cup {c}
    BY <1>1, <1>3 DEF Written
  <2>4. QED
    BY <1>4, <2>2, <2>3
<1>6. ASSUME NEW x \in DOMAIN entries, x # e, LayerOf[x] = job.layer
      PROVE  HoldsPart(out', entries'[x], x, Written(x)')
  <2>1. x \notin job.experts
    BY <1>1, <1>6, OneAtATime
  <2>2. x \in Experts /\ entries[x] \in Entries
    BY <1>2, WriteNow
  <2>3. Holds(out, entries[x], x)
    BY <1>2, <1>6, <2>1, WholeHolds DEF MadeInv, Written
  <2>4. Holds(out \o data, entries[x], x)
    BY <1>3, <2>2, <2>3, HoldsOn
  <2>5. Written(x)' = Components
    BY <1>1, <2>1 DEF Written
  <2>6. QED
    BY <1>1, <1>4, <1>6, <2>4, <2>5, WholeHolds
<1>7. \A x \in DOMAIN entries' : LayerOf[x] # job.layer =>
          Holds(files'[job.cmd.dir][LayerOf[x]], entries'[x], x)
    BY <1>1, <1>2, ClosedHold
<1>8. QED
    BY <1>1, <1>5, <1>6, <1>7 DEF MadeInv

LEMMA WriteBlockMade ==
    ASSUME TypeInv, KeptInv, NoOverwrite, Held, MadeInv, WriteBlock
    PROVE  MadeInv'
<1>1. PICK e \in job.experts, data \in Seq(Cells) :
              /\ e \in Experts /\ e \notin DOMAIN entries /\ job.input[e] \in Entries
              /\ Len(data) = job.input[e].bytes
              /\ \A i \in 1..Len(data) :
                    data[i] = files[job.cmd.from][job.layer][job.input[e].offset + i]
              /\ Write(data)
              /\ entries' \in Layout /\ DOMAIN entries' = DOMAIN entries \cup {e}
              /\ \A x \in DOMAIN entries : entries'[x] = entries[x]
              /\ entries'[e] = [job.input[e] EXCEPT !.offset = Len(out)]
              /\ job' \in Jobs /\ job'.at = "write" /\ job'.cmd = job.cmd
              /\ job'.input = job.input /\ job'.layer = job.layer /\ job'.layers = job.layers
              /\ job'.tensors = job.tensors /\ job'.experts = job.experts \ {e}
    BY WriteBlockDoes
<1>2. job.at = "write" /\ job.cmd.kind = "repack" /\ job.cmd.from \in Dirs
  <2>1. job.at = "write" /\ job.cmd.kind = "repack"
    BY DEF WriteBlock
  <2>2. QED
    BY <2>1, JobNow
<1>3. out \in Seq(Cells) /\ e \in DOMAIN job.input /\ LayerOf[e] = job.layer
    BY <1>2, WriteNow
<1>4. out' = out \o data
    BY <1>1 DEF Write
<1>5. HoldsPart(out', entries'[e], e, Written(e)')
  <2>1. layouts[job.cmd.from] # None /\ layouts[job.cmd.from] = job.input
    BY <1>2 DEF KeptInv
  <2>2. Holds(files[job.cmd.from][job.layer], job.input[e], e)
    BY <1>2, <1>3, <2>1 DEF Held
  <2>3. files[job.cmd.from][job.layer] \in Seq(Cells)
    BY <1>2, <1>3 DEF TypeInv, FileTypes, Filed
  <2>4. Holds(out \o data, [job.input[e] EXCEPT !.offset = Len(out)], e)
    BY <1>1, <1>3, <2>2, <2>3, HoldsCopy
  <2>5. Written(e)' = Components
    BY <1>1 DEF Written
  <2>6. QED
    BY <1>1, <1>4, <2>4, <2>5, WholeHolds
<1>6. ASSUME NEW x \in DOMAIN entries, LayerOf[x] = job.layer
      PROVE  HoldsPart(out', entries'[x], x, Written(x)')
  <2>1. x \notin job.experts
    BY <1>2 DEF TypeInv, JobInv
  <2>2. x \in Experts /\ entries[x] \in Entries
    BY <1>2, WriteNow
  <2>3. Holds(out, entries[x], x)
    BY <1>2, <1>6, <2>1, WholeHolds DEF MadeInv, Written
  <2>4. Holds(out \o data, entries[x], x)
    BY <1>3, <2>2, <2>3, HoldsOn
  <2>5. Written(x)' = Components
    BY <1>1, <2>1 DEF Written
  <2>6. QED
    BY <1>1, <1>4, <2>4, <2>5, WholeHolds
<1>7. \A x \in DOMAIN entries' : LayerOf[x] # job.layer =>
          Holds(files'[job.cmd.dir][LayerOf[x]], entries'[x], x)
    BY <1>1, <1>2, ClosedHold
<1>8. QED
    BY <1>1, <1>5, <1>6, <1>7 DEF MadeInv
LEMMA OpenLayerMade ==
    ASSUME TypeInv, MadeInv, OpenLayer
    PROVE  MadeInv'
<1>1. PICK l \in job.layers :
          /\ files' = [files EXCEPT ![job.cmd.dir][l] = <<>>]
          /\ job' = [job EXCEPT !.at = "write", !.layer = l, !.layers = @ \ {l},
                        !.experts = {e \in DOMAIN job.input : LayerOf[e] = l}]
    BY DEF OpenLayer, First
<1>2. job.at = "layer" /\ entries' = entries /\ job \in Jobs
    BY DEF OpenLayer, TypeInv, ToolTypes
<1>3. job'.at = "write" /\ job'.cmd = job.cmd /\ job'.layer = l
    BY <1>1, <1>2 DEF Jobs
<1>4. \A x \in DOMAIN entries : LayerOf[x] # l
    BY <1>2 DEF TypeInv, JobInv
<1>5. ASSUME NEW x \in DOMAIN entries
      PROVE  files'[job.cmd.dir][LayerOf[x]] = files[job.cmd.dir][LayerOf[x]]
  <2>1. LayerOf[x] \in Layers /\ LayerOf[x] # l /\ l \in Layers /\ job.cmd.dir \in Dirs
    <3>1. entries \in Layout
        BY DEF TypeInv, ToolTypes
    <3>2. QED
        BY <1>2, <1>4, <3>1, JobNow, LayoutTypes, LayersOfExperts DEF Jobs
  <2>2. files \in [Dirs -> [Layers -> Seq(Cells) \cup {None}]]
    BY DEF TypeInv, ToolTypes
  <2>3. QED
    BY <1>1, <2>1, <2>2
<1>6. QED
    BY <1>2, <1>3, <1>4, <1>5 DEF MadeInv

LEMMA NextExpertMade ==
    ASSUME TypeInv, MadeInv, NextExpert
    PROVE  MadeInv'
<1>1. PICK e \in job.experts :
          entries' = With(entries, e, [offset |-> Len(out), bytes |-> 0, tensors |-> <<>>])
    BY DEF NextExpert, First
<1>2. /\ job.at = "write" /\ job.cmd.kind = "build" /\ job.tensors = {}
      /\ job' = [job EXCEPT !.tensors = Components]
      /\ UNCHANGED <<config, files, layouts, out, reader>>
    BY DEF NextExpert
<1>3. /\ job \in Jobs /\ out \in Seq(Cells) /\ entries \in Layout /\ e \in Experts
      /\ LayerOf[e] = job.layer
  <2>1. job \in Jobs /\ out \in Seq(Cells) /\ entries \in Layout /\ LayerOf[e] = job.layer
    BY <1>2, WriteNow
  <2>2. QED
    BY <2>1 DEF Jobs
<1>4. Len(out) \in Nat
    BY <1>3, LenProperties
<1>5. /\ job'.at = "write" /\ job'.cmd = job.cmd /\ job'.layer = job.layer
      /\ job'.experts = job.experts /\ job'.tensors = Components
    BY <1>2, <1>3 DEF Jobs
<1> DEFINE new == [offset |-> Len(out), bytes |-> 0, tensors |-> <<>>]
<1>6. new \in Entries /\ HoldsPart(out, new, e, {})
  <2>1. new \in Entries
    BY <1>4, NewEntry
  <2>2. Len(out) + 0 <= Len(out)
    BY <1>4
  <2>3. DOMAIN new.tensors = {} /\ new.offset = Len(out) /\ new.bytes = 0
    BY EmptyLayout
  <2>4. QED
    BY <2>1, <2>2, <2>3 DEF HoldsPart
<1>7. entries' = With(entries, e, new)
    BY <1>1
<1> HIDE DEF new
<1>8. /\ DOMAIN entries' = DOMAIN entries \cup {e} /\ entries'[e] = new
      /\ \A x \in DOMAIN entries : x # e => entries'[x] = entries[x]
    BY <1>3, <1>6, <1>7, WithTypes
<1>9. \A x \in DOMAIN entries : x \notin job.experts
    BY <1>2 DEF TypeInv, JobInv
<1>10. Written(e)' = {}
    BY <1>5 DEF Written
<1>11. \A x \in DOMAIN entries : Written(x)' = Written(x)
    BY <1>5, <1>9 DEF Written
<1>12. ASSUME NEW x \in DOMAIN entries'
       PROVE  /\ LayerOf[x] # job.layer => Holds(files[job.cmd.dir][LayerOf[x]], entries'[x], x)
              /\ LayerOf[x] = job.layer => HoldsPart(out, entries'[x], x, Written(x)')
  <2>1. CASE x = e
    BY <1>3, <1>6, <1>8, <1>10, <2>1
  <2>2. CASE x # e
    <3>1. x \in DOMAIN entries /\ entries'[x] = entries[x] /\ Written(x)' = Written(x)
        BY <1>8, <1>11, <2>2
    <3>2. QED
        BY <1>2, <3>1 DEF MadeInv
  <2>3. QED
    BY <2>1, <2>2
<1>13. QED
    BY <1>2, <1>5, <1>12 DEF MadeInv

LEMMA CloseLayerMade ==
    ASSUME TypeInv, MadeInv, CloseLayer
    PROVE  MadeInv'
<1>1. /\ job.at = "write" /\ job.experts = {}
      /\ files' = [files EXCEPT ![job.cmd.dir][job.layer] = out]
      /\ job' = [job EXCEPT !.at = "layer", !.layer = None]
      /\ entries' = entries
    BY DEF CloseLayer
<1>2. /\ job \in Jobs /\ job.layer \in Layers /\ job.cmd.dir \in Dirs
      /\ \A x \in DOMAIN entries : LayerOf[x] \in Layers
    BY <1>1, WriteNow
<1>3. job'.at = "layer" /\ job'.cmd = job.cmd
    BY <1>1, <1>2 DEF Jobs
<1>4. files \in [Dirs -> [Layers -> Seq(Cells) \cup {None}]]
    BY DEF TypeInv, ToolTypes
<1>5. ASSUME NEW x \in DOMAIN entries
      PROVE  Holds(files'[job.cmd.dir][LayerOf[x]], entries[x], x)
  <2>1. CASE LayerOf[x] = job.layer
    <3>1. Holds(out, entries[x], x)
        BY <1>1, <2>1, WholeHolds DEF MadeInv, Written
    <3>2. files'[job.cmd.dir][LayerOf[x]] = out
        BY <1>1, <1>2, <1>4, <2>1
    <3>3. QED
        BY <3>1, <3>2
  <2>2. CASE LayerOf[x] # job.layer
    <3>1. files'[job.cmd.dir][LayerOf[x]] = files[job.cmd.dir][LayerOf[x]]
        BY <1>1, <1>2, <1>4, <2>2
    <3>2. QED
        BY <1>1, <2>2, <3>1 DEF MadeInv
  <2>3. QED
    BY <2>1, <2>2
<1>6. QED
    BY <1>1, <1>3, <1>5 DEF MadeInv

LEMMA HoldNext ==
    ASSUME TypeInv, KeptInv, HoldInv, [Next]_vars
    PROVE  HoldInv'
<1> SUFFICES ASSUME NoOverwrite' PROVE Held' /\ MadeInv'
    BY DEF HoldInv
<1>1. NoOverwrite /\ Held /\ MadeInv
  <2>1. config' = config
    BY StepOfTools, WritingKeeps, DieKeeps DEF Begin, toolVars
  <2>2. QED
    BY <2>1 DEF NoOverwrite, HoldInv
<1>2. CASE \E cmd \in config.jobs : Begin(cmd)
  <2>1. PICK cmd \in config.jobs : Begin(cmd)
    BY <1>2
  <2>2. job'.at = "layer" /\ entries' = <<>> /\ layouts' = layouts
    BY <2>1, BeginDoes
  <2>3. MadeInv'
    BY <2>2, EmptyLayout DEF MadeInv
  <2>4. QED
    BY <1>1, <2>2, <2>3, HeldKept
<1>3. CASE Writing /\ ~Publish
  <2>1. Held'
    BY <1>1, <1>3, WritingKeeps, HeldKept
  <2>2. MadeInv'
    BY <1>1, <1>3, OpenLayerMade, NextExpertMade, WriteTensorMade, WriteBlockMade, CloseLayerMade
       DEF Writing
  <2>3. QED
    BY <2>1, <2>2
<1>4. CASE Publish
  <2>1. /\ job.at = "layer" /\ layouts' = [layouts EXCEPT ![job.cmd.dir] = entries]
        /\ job' = NoJob /\ files' = files
    BY <1>4 DEF Publish
  <2>2. layouts \in [Dirs -> Layout \cup {None}]
    BY DEF TypeInv, ToolTypes
  <2>3. \A x \in DOMAIN entries : Holds(files[job.cmd.dir][LayerOf[x]], entries[x], x)
    BY <1>1, <2>1 DEF MadeInv
  <2>4. Held'
    BY <1>1, <2>1, <2>2, <2>3 DEF Held
  <2>5. MadeInv'
    BY <2>1 DEF MadeInv, NoJob
  <2>6. QED
    BY <2>4, <2>5
<1>5. CASE Die
  <2>1. layouts' = layouts /\ job' = NoJob
    BY <1>5, DieKeeps
  <2>2. MadeInv'
    BY <2>1 DEF MadeInv, NoJob
  <2>3. QED
    BY <1>1, <2>1, <2>2, HeldKept
<1>6. CASE UNCHANGED toolVars
  <2>1. Held'
    BY <1>1, <1>6 DEF Held, toolVars
  <2>2. \A e : Written(e)' = Written(e)
    BY <1>6 DEF Written, toolVars
  <2>3. MadeInv'
    BY <1>1, <1>6, <2>2 DEF MadeInv, toolVars
  <2>4. QED
    BY <2>1, <2>3
<1>7. QED
    BY <1>2, <1>3, <1>4, <1>5, <1>6, StepOfTools

LEMMA InitHolds == Init => HoldInv
    BY DEF Init, HoldInv, Held, MadeInv, NoJob

-----------------------------------------------------------------------------
(* A layout is whole *)

\* Commands for one directory, when it has one writer, differ in --overwrite alone.
LEMMA SameCommand ==
    ASSUME config \in Configs, OneWriter, NEW j \in config.jobs, NEW k \in config.jobs,
           j.dir = k.dir
    PROVE  /\ j.kind = k.kind
           /\ j.kind = "build" => Selected(j) = Selected(k)
           /\ j.kind = "repack" => j.from = k.from /\ j.order = k.order
<1>1. j \in BuildJobs \cup RepackJobs /\ k \in BuildJobs \cup RepackJobs
    BY JobTypes
<1>2. [j EXCEPT !.overwrite = TRUE] = [k EXCEPT !.overwrite = TRUE]
    BY DEF OneWriter
<1>3. /\ [j EXCEPT !.overwrite = TRUE].kind = j.kind
      /\ [k EXCEPT !.overwrite = TRUE].kind = k.kind
    BY <1>1 DEF BuildJobs, RepackJobs
<1>4. j.kind = k.kind
    BY <1>2, <1>3
<1>5. CASE j \in BuildJobs /\ k \in BuildJobs
  <2>1. /\ [j EXCEPT !.overwrite = TRUE].layers = j.layers
        /\ [j EXCEPT !.overwrite = TRUE].experts = j.experts
        /\ [j EXCEPT !.overwrite = TRUE].routes = j.routes
        /\ [j EXCEPT !.overwrite = TRUE].top = j.top
    BY <1>5 DEF BuildJobs
  <2>2. /\ [k EXCEPT !.overwrite = TRUE].layers = k.layers
        /\ [k EXCEPT !.overwrite = TRUE].experts = k.experts
        /\ [k EXCEPT !.overwrite = TRUE].routes = k.routes
        /\ [k EXCEPT !.overwrite = TRUE].top = k.top
    BY <1>5 DEF BuildJobs
  <2>3. j.layers = k.layers /\ j.experts = k.experts /\ j.routes = k.routes /\ j.top = k.top
    BY <1>2, <2>1, <2>2
  <2>4. Selected(j) = Selected(k)
    BY <2>3 DEF Selected
  <2>5. j.kind = "build"
    BY <1>5 DEF BuildJobs
  <2>6. QED
    BY <1>4, <2>4, <2>5
<1>6. CASE j \in RepackJobs /\ k \in RepackJobs
  <2>1. /\ [j EXCEPT !.overwrite = TRUE].from = j.from
        /\ [j EXCEPT !.overwrite = TRUE].order = j.order
        /\ [k EXCEPT !.overwrite = TRUE].from = k.from
        /\ [k EXCEPT !.overwrite = TRUE].order = k.order
        /\ j.kind = "repack"
    BY <1>6 DEF RepackJobs
  <2>2. QED
    BY <1>2, <1>4, <2>1
<1>7. QED
    BY <1>1, <1>4, <1>5, <1>6 DEF BuildJobs, RepackJobs

\* What a command asks for: a build, the experts of its filter; a repack, those of the
\* layout that it reads.
Asked(cmd) == IF cmd.kind = "build" THEN Selected(cmd) ELSE DOMAIN layouts[cmd.from]

WholeInv ==
    OneWriter =>
        /\ \A cmd \in config.jobs : layouts[cmd.dir] # None =>
              /\ DOMAIN layouts[cmd.dir] = Asked(cmd)
              /\ cmd.kind = "repack" => layouts[cmd.from] # None
        /\ job.at # "idle" =>
              /\ DOMAIN job.input = Asked(job.cmd)
              /\ job.cmd.kind = "repack" => layouts[job.cmd.from] # None

\* A layout that is made again has the experts that it had.
LEMMA PublishWhole ==
    ASSUME TypeInv, WholeInv, Publish, OneWriter, NEW cmd \in config.jobs,
           layouts'[cmd.dir] # None
    PROVE  /\ DOMAIN layouts'[cmd.dir] = Asked(cmd)'
           /\ cmd.kind = "repack" => layouts'[cmd.from] # None
<1>1. /\ job.at = "layer" /\ job.layers = {}
      /\ layouts' = [layouts EXCEPT ![job.cmd.dir] = entries] /\ config' = config
    BY DEF Publish
<1>2. /\ layouts \in [Dirs -> Layout \cup {None}] /\ entries \in Layout
      /\ config \in Configs /\ job.cmd \in config.jobs /\ job.cmd.dir \in Dirs
    BY <1>1, JobNow DEF TypeInv, ToolTypes
<1>3. entries # None
  <2>1. PICK S \in SUBSET Experts : entries \in [S -> Entries]
    BY <1>2 DEF Layout
  <2>2. QED
    BY <2>1, NoneAssumption
<1>4. DOMAIN entries = Asked(job.cmd)
  <2>1. DOMAIN entries = DOMAIN job.input
    BY <1>1 DEF TypeInv, JobInv
  <2>2. QED
    BY <1>1, <2>1 DEF WholeInv
<1>5. layouts'[job.cmd.dir] = entries /\ \A d \in Dirs : d # job.cmd.dir => layouts'[d] = layouts[d]
    BY <1>1, <1>2
<1>6. layouts[job.cmd.dir] # None => DOMAIN layouts[job.cmd.dir] = DOMAIN entries
    BY <1>2, <1>4 DEF WholeInv
<1>7. \A d \in Dirs : layouts[d] # None => layouts'[d] # None /\ DOMAIN layouts'[d] = DOMAIN layouts[d]
    BY <1>3, <1>5, <1>6
<1>8. cmd.dir \in Dirs /\ (cmd.kind = "build" \/ (cmd.kind = "repack" /\ cmd.from \in Dirs))
    BY <1>2, CommandTypes
<1>9. Asked(cmd) = DOMAIN layouts'[cmd.dir] /\ (cmd.kind = "repack" => layouts[cmd.from] # None)
  <2>1. CASE cmd.dir = job.cmd.dir
    <3>1. Asked(cmd) = Asked(job.cmd)
        BY <1>2, <1>8, <2>1, SameCommand DEF Asked
    <3>2. cmd.kind = "repack" => layouts[cmd.from] # None
        BY <1>1, <1>2, <2>1, SameCommand DEF WholeInv
    <3>3. QED
        BY <1>4, <1>5, <2>1, <3>1, <3>2
  <2>2. CASE cmd.dir # job.cmd.dir
    BY <1>5, <1>8, <2>2 DEF WholeInv
  <2>3. QED
    BY <2>1, <2>2
<1>10. Asked(cmd)' = Asked(cmd)
    BY <1>7, <1>8, <1>9 DEF Asked
<1>11. QED
    BY <1>7, <1>8, <1>9, <1>10

LEMMA WholeNext ==
    ASSUME TypeInv, WholeInv, [Next]_vars
    PROVE  WholeInv'
<1>1. config' = config
    BY StepOfTools, WritingKeeps, DieKeeps DEF Begin, toolVars
<1>2. CASE layouts' = layouts
  <2>1. \A cmd : Asked(cmd)' = Asked(cmd)
    BY <1>2 DEF Asked
  <2>2. CASE \E cmd \in config.jobs : Begin(cmd)
    <3>1. PICK cmd \in config.jobs : Begin(cmd)
        BY <2>2
    <3>2. DOMAIN job'.input = Asked(cmd) /\ job'.cmd = cmd
          /\ (cmd.kind = "repack" => layouts[cmd.from] # None)
        BY <3>1, BeginDoes DEF Asked
    <3>3. QED
        BY <1>1, <1>2, <2>1, <3>2 DEF WholeInv, OneWriter
  <2>3. CASE Writing /\ ~Publish
    BY <1>1, <1>2, <2>1, <2>3, WritingKeeps DEF WholeInv, OneWriter
  <2>4. CASE Publish \/ Die
    <3>1. job'.at = "idle"
        BY <2>4 DEF Publish, Die, NoJob
    <3>2. QED
        BY <1>1, <1>2, <2>1, <3>1 DEF WholeInv, OneWriter
  <2>5. CASE UNCHANGED toolVars
    BY <2>1, <2>5 DEF WholeInv, OneWriter, toolVars
  <2>6. QED
    BY <2>2, <2>3, <2>4, <2>5, StepOfTools
<1>3. CASE Publish
  <2>1. job'.at = "idle"
    BY <1>3 DEF Publish, NoJob
  <2>2. QED
    BY <1>1, <1>3, <2>1, PublishWhole DEF WholeInv, OneWriter
<1>4. QED
    BY <1>2, <1>3, StepOfTools, WritingKeeps, DieKeeps DEF Begin, toolVars
-----------------------------------------------------------------------------
(* A hot-first layout is in order *)

LEMMA UsesTypes ==
    ASSUME NEW e PROVE Uses(e) \in Nat
<1>1. DOMAIN Trace = 1..Len(Trace) /\ Len(Trace) \in Nat
    BY TraceAssumption, LenProperties
<1>2. IsFiniteSet(DOMAIN Trace)
    BY <1>1, FS_Interval
<1>3. IsFiniteSet({i \in DOMAIN Trace : Trace[i] = e})
    BY <1>2, FS_Subset
<1>4. QED
    BY <1>3, FS_CardinalityType DEF Uses

\* No expert of f lies before one of its layer that is used more.
Ordered(f) ==
    \A x, y \in DOMAIN f :
        LayerOf[x] = LayerOf[y] /\ f[x].offset < f[y].offset => Uses(x) >= Uses(y)

HotJob == job.at # "idle" /\ job.cmd.kind = "repack" /\ job.cmd.order = "hot_first"

\* The experts that are still to be written go behind those that have been, and are
\* used no more.
MadeHot ==
    /\ HotJob => Ordered(entries)
    /\ HotJob /\ job.at = "write" => \A x \in DOMAIN entries : LayerOf[x] = job.layer =>
          /\ entries[x].offset <= Len(out)
          /\ \A y \in job.experts : Uses(x) >= Uses(y)

HotInv == HotFirst /\ MadeHot

LEMMA WriteBlockHot ==
    ASSUME TypeInv, MadeHot, WriteBlock, HotJob
    PROVE  MadeHot'
<1>1. PICK e \in job.experts, data \in Seq(Cells) :
              /\ e \in Experts /\ e \notin DOMAIN entries
              /\ \A f \in job.experts \ {e} : Before(job.cmd, e, f)
              /\ Write(data)
              /\ entries' \in Layout /\ DOMAIN entries' = DOMAIN entries \cup {e}
              /\ \A x \in DOMAIN entries : entries'[x] = entries[x]
              /\ entries'[e] = [job.input[e] EXCEPT !.offset = Len(out)]
              /\ job.input[e] \in Entries
              /\ job' \in Jobs /\ job'.at = "write" /\ job'.cmd = job.cmd /\ job'.layer = job.layer
              /\ job'.experts = job.experts \ {e}
    BY WriteBlockDoes
<1>2. job.at = "write" /\ LayerOf[e] = job.layer /\ out \in Seq(Cells)
      /\ \A x \in DOMAIN entries : entries[x].offset \in Nat
  <2>1. job.at = "write"
    BY DEF WriteBlock
  <2>2. QED
    BY <2>1, WriteNow, PlacesOf
<1>3. Len(out') >= Len(out) /\ Len(out) \in Nat /\ Len(out') \in Nat
  <2>1. Len(out') = Len(out) + Len(data) /\ Len(out) \in Nat /\ Len(data) \in Nat
    BY <1>1, <1>2, WriteDoes, LenProperties
  <2>2. QED
    BY <2>1
<1>4. entries'[e].offset = Len(out)
    BY <1>1 DEF Entries
<1>5. \A f \in job.experts \ {e} : Uses(e) >= Uses(f)
  <2>1. \A f \in job.experts \ {e} : Uses(e) = Uses(f) \/ Uses(e) > Uses(f)
    BY <1>1 DEF Before, HotJob
  <2>2. \A f : Uses(f) \in Nat
    BY UsesTypes
  <2>3. QED
    BY <2>1, <2>2
<1>6. \A x \in DOMAIN entries : LayerOf[x] = job.layer =>
          entries[x].offset <= Len(out) /\ \A y \in job.experts : Uses(x) >= Uses(y)
    BY <1>2 DEF MadeHot
<1>7. \A x \in DOMAIN entries' : LayerOf[x] = job.layer =>
          entries'[x].offset <= Len(out') /\ \A y \in job'.experts : Uses(x) >= Uses(y)
  <2>1. ASSUME NEW x \in DOMAIN entries, LayerOf[x] = job.layer
        PROVE  entries'[x].offset <= Len(out') /\ \A y \in job'.experts : Uses(x) >= Uses(y)
    <3>1. entries'[x] = entries[x] /\ entries[x].offset \in Nat /\ entries[x].offset <= Len(out)
        BY <1>1, <1>2, <1>6, <2>1
    <3>2. \A y \in job'.experts : Uses(x) >= Uses(y)
        BY <1>1, <1>6, <2>1
    <3>3. QED
        BY <1>3, <3>1, <3>2
  <2>2. entries'[e].offset <= Len(out') /\ \A y \in job'.experts : Uses(e) >= Uses(y)
    BY <1>1, <1>3, <1>4, <1>5
  <2>3. QED
    BY <1>1, <2>1, <2>2
<1>8. Ordered(entries')
  <2> SUFFICES ASSUME NEW x \in DOMAIN entries', NEW y \in DOMAIN entries',
                      LayerOf[x] = LayerOf[y], entries'[x].offset < entries'[y].offset
               PROVE  Uses(x) >= Uses(y)
    BY DEF Ordered
  <2>1. CASE x # e /\ y # e
    <3>1. x \in DOMAIN entries /\ y \in DOMAIN entries
          /\ entries'[x] = entries[x] /\ entries'[y] = entries[y]
        BY <1>1, <2>1
    <3>2. QED
        BY <3>1 DEF MadeHot, Ordered
  <2>2. CASE y = e /\ x # e
    BY <1>1, <1>2, <1>6, <2>2
  <2>3. CASE x = e
    <3>1. y # e /\ y \in DOMAIN entries => entries[y].offset <= Len(out) /\ entries[y].offset \in Nat
        BY <1>2, <1>6, <2>3
    <3>2. y # e => y \in DOMAIN entries /\ entries'[y] = entries[y]
        BY <1>1
    <3>3. Len(out) < entries'[y].offset
        BY <1>4, <2>3
    <3>4. y = e
        BY <1>3, <3>1, <3>2, <3>3
    <3>5. QED
        BY <1>3, <3>3, <1>4, <3>4
  <2>4. QED
    BY <2>1, <2>2, <2>3
<1>9. QED
    BY <1>1, <1>7, <1>8 DEF MadeHot, Ordered

LEMMA HotFirstKept ==
    ASSUME HotFirst, config' = config, layouts' = layouts
    PROVE  HotFirst'
    BY DEF HotFirst, OneWriter

LEMMA PublishHot ==
    ASSUME TypeInv, HotInv, Publish
    PROVE  HotFirst'
<1>1. /\ job.at = "layer" /\ layouts' = [layouts EXCEPT ![job.cmd.dir] = entries]
      /\ config' = config
    BY DEF Publish
<1>2. /\ layouts \in [Dirs -> Layout \cup {None}] /\ config \in Configs
      /\ job.cmd \in config.jobs /\ job.cmd.dir \in Dirs
    BY <1>1, JobNow DEF TypeInv, ToolTypes
<1>3. SUFFICES ASSUME OneWriter, NEW cmd \in config.jobs,
                      cmd.kind = "repack", layouts'[cmd.dir] # None, cmd.order = "hot_first"
               PROVE  Ordered(layouts'[cmd.dir])
    BY <1>1 DEF HotFirst, OneWriter, Ordered
<1>4. CASE cmd.dir = job.cmd.dir
  <2>1. job.cmd.kind = "repack" /\ job.cmd.order = "hot_first"
    BY <1>2, <1>3, <1>4, SameCommand
  <2>2. QED
    BY <1>1, <1>2, <1>4, <2>1 DEF HotInv, MadeHot, HotJob
<1>5. CASE cmd.dir # job.cmd.dir
  <2>1. cmd.dir \in Dirs
    BY <1>2, CommandTypes
  <2>2. layouts'[cmd.dir] = layouts[cmd.dir]
    BY <1>1, <1>2, <1>5, <2>1
  <2>3. QED
    BY <1>3, <2>2 DEF HotInv, HotFirst, Ordered
<1>6. QED
    BY <1>4, <1>5

LEMMA HotNext ==
    ASSUME TypeInv, HotInv, [Next]_vars
    PROVE  HotInv'
<1>1. config' = config
    BY StepOfTools, WritingKeeps, DieKeeps DEF Begin, toolVars
<1>2. CASE \E cmd \in config.jobs : Begin(cmd)
  <2>1. PICK cmd \in config.jobs : Begin(cmd)
    BY <1>2
  <2>2. job'.at = "layer" /\ entries' = <<>> /\ layouts' = layouts
    BY <2>1, BeginDoes
  <2>3. MadeHot'
    BY <2>2, EmptyLayout DEF MadeHot, Ordered
  <2>4. QED
    BY <1>1, <2>2, <2>3, HotFirstKept DEF HotInv
<1>3. CASE Writing /\ ~Publish
  <2>1. /\ layouts' = layouts /\ job'.at # "idle" /\ job.at # "idle" /\ job'.cmd = job.cmd
    BY <1>3, WritingKeeps
  <2>2. HotJob' = HotJob
    BY <2>1 DEF HotJob
  <2>3. MadeHot'
    <3>1. CASE ~HotJob
        BY <2>2, <3>1 DEF MadeHot
    <3>2. CASE OpenLayer
      <4>1. PICK l \in job.layers :
                job' = [job EXCEPT !.at = "write", !.layer = l, !.layers = @ \ {l},
                                   !.experts = {e \in DOMAIN job.input : LayerOf[e] = l}]
        BY <3>2 DEF OpenLayer, First
      <4>2. job.at = "layer" /\ entries' = entries /\ job \in Jobs
        BY <3>2 DEF OpenLayer, TypeInv, ToolTypes
      <4>3. job'.layer = l /\ \A x \in DOMAIN entries : LayerOf[x] # l
        BY <4>1, <4>2 DEF Jobs, TypeInv, JobInv
      <4>4. QED
        BY <2>2, <4>2, <4>3 DEF MadeHot, HotInv, Ordered
    <3>3. CASE HotJob /\ (NextExpert \/ WriteTensor)
      <4>1. job.cmd.kind # "build"
        BY <3>3 DEF HotJob
      <4>2. job.tensors = {}
        BY <4>1 DEF TypeInv, JobInv
      <4>3. QED
        BY <3>3, <4>1, <4>2 DEF NextExpert, WriteTensor, First
    <3>4. CASE HotJob /\ WriteBlock
        BY <3>4, WriteBlockHot DEF HotInv
    <3>5. CASE CloseLayer
      <4>1. entries' = entries /\ job' = [job EXCEPT !.at = "layer", !.layer = None] /\ job \in Jobs
        BY <3>5 DEF CloseLayer, TypeInv, ToolTypes
      <4>2. job'.at = "layer"
        BY <4>1 DEF Jobs
      <4>3. QED
        BY <2>2, <4>1, <4>2 DEF MadeHot, HotInv, Ordered
    <3>6. QED
        BY <1>3, <3>1, <3>2, <3>3, <3>4, <3>5 DEF Writing
  <2>4. QED
    BY <1>1, <2>1, <2>3, HotFirstKept DEF HotInv
<1>4. CASE Publish
  <2>1. ~HotJob'
    BY <1>4 DEF Publish, NoJob, HotJob
  <2>2. QED
    BY <1>4, <2>1, PublishHot DEF HotInv, MadeHot
<1>5. CASE Die
  <2>1. layouts' = layouts /\ job' = NoJob
    BY <1>5, DieKeeps
  <2>2. ~HotJob'
    BY <2>1 DEF NoJob, HotJob
  <2>3. QED
    BY <1>1, <2>1, <2>2, HotFirstKept DEF HotInv, MadeHot
<1>6. CASE UNCHANGED toolVars
  <2>1. HotFirst'
    BY <1>6, HotFirstKept DEF HotInv, toolVars
  <2>2. MadeHot'
    BY <1>6 DEF HotInv, MadeHot, HotJob, Ordered, toolVars
  <2>3. QED
    BY <2>1, <2>2 DEF HotInv
<1>7. QED
    BY <1>2, <1>3, <1>4, <1>5, <1>6, StepOfTools

-----------------------------------------------------------------------------
RightInv == HoldInv /\ WholeInv /\ HotInv

LEMMA InitRight == Init => RightInv
<1> SUFFICES ASSUME Init PROVE RightInv
    OBVIOUS
<1>1. layouts = [d \in Dirs |-> None] /\ job.at = "idle" /\ config \in Configs
    BY DEF Init, NoJob
<1>2. \A cmd \in config.jobs : cmd.dir \in Dirs
    BY <1>1, CommandTypes
<1>3. QED
    BY <1>1, <1>2, InitHolds DEF RightInv, WholeInv, HotInv, HotFirst, MadeHot, HotJob

\* Wherever builds and repacks stop, and whatever is made again: a layout that exists
\* describes the files beside it, tensor by tensor (unless files are overwritten), and
\* has every expert it was asked for, in the order it was asked for (unless another
\* command writes to its directory).
THEOREM LayoutsAreRight == Spec => []LayoutsRight
<1>1. Init => KeptInv
    BY DEF Init, KeptInv, NoJob
<1> DEFINE Inv == TypeInv /\ KeptInv /\ RightInv
<1>2. Init => Inv
    BY InitTypes, <1>1, InitRight
<1>3. Inv /\ [Next]_vars => Inv'
    BY NextTypes, KeptNext, HoldNext, WholeNext, HotNext DEF RightInv
<1>4. Inv => LayoutsRight
    BY DEF RightInv, HoldInv, Held, WholeInv, HotInv, LayoutsRight, LayoutsHold, LayoutsWhole, Asked
<1> HIDE DEF Inv
<1>5. Spec => []Inv
    BY <1>2, <1>3, PTL DEF Spec
<1>6. QED
    BY <1>4, <1>5, PTL

-----------------------------------------------------------------------------
(* Where everything goes in a layer file *)

\* The bytes of some tensors of an expert.
BytesOf(C) == {b \in C \X Nat : b[2] \in 1..Size[b[1]]}
Weight(C) == Cardinality(BytesOf(C))

\* Span: the bytes of the blocks of some experts.
WholeBlock == BytesOf(Components)
Span(S) == Cardinality(S \X WholeBlock)

\* Where a tensor begins in its block.
Inner(c) == Weight({d \in Components : d < c})

\* A checkpoint is finite, and has every byte of every expert: there are finitely many.
LEMMA Finite ==
    ASSUME NEW e \in Experts
    PROVE  IsFiniteSet(Experts) /\ IsFiniteSet(WholeBlock)
<1>1. Len(Shard) \in Nat /\ DOMAIN Shard = 1..Len(Shard)
    BY ShardAssumption, LenProperties
<1>2. IsFiniteSet(1..Len(Shard))
    BY <1>1, FS_Interval
<1>3. ASSUME NEW f \in Experts, NEW c \in Components, NEW i \in 1..Size[c]
      PROVE  /\ SourceOf[<<f, c>>] + i \in 1..Len(Shard)
             /\ Shard[SourceOf[<<f, c>>] + i] = <<f, c, i>>
  <2>1. SourceOf[<<f, c>>] \in Nat /\ Size[c] \in Nat
    BY ShardAssumption, ComponentAssumption
  <2>2. SourceOf[<<f, c>>] + Size[c] <= Len(Shard)
    BY ShardAssumption
  <2>3. SourceOf[<<f, c>>] + i \in 1..Len(Shard)
    BY <1>1, <2>1, <2>2
  <2>4. QED
    BY <2>3, ShardAssumption
<1>4. IsFiniteSet(Experts)
  <2>1. PICK c \in Components : TRUE
    BY ComponentAssumption
  <2>2. 1 \in 1..Size[c]
    BY ComponentAssumption
  <2> DEFINE at == [f \in Experts |-> SourceOf[<<f, c>>] + 1]
  <2>3. at \in [Experts -> 1..Len(Shard)]
    BY <1>3, <2>2
  <2>4. ASSUME NEW f \in Experts, NEW g \in Experts, at[f] = at[g]
        PROVE  f = g
    <3>1. Shard[at[f]] = <<f, c, 1>> /\ Shard[at[g]] = <<g, c, 1>>
        BY <1>3, <2>2
    <3>2. <<f, c, 1>> = <<g, c, 1>>
        BY <3>1, <2>4
    <3>3. QED
        BY <3>2
  <2>5. at \in Injection(Experts, 1..Len(Shard))
    BY <2>3, <2>4 DEF Injection, IsInjective
  <2>6. QED
    BY <1>2, <2>5, FS_Injection
<1>5. IsFiniteSet(WholeBlock)
  <2> DEFINE at == [b \in WholeBlock |-> SourceOf[<<e, b[1]>>] + b[2]]
  <2>1. \A b \in WholeBlock : b[1] \in Components /\ b[2] \in 1..Size[b[1]] /\ b = <<b[1], b[2]>>
    BY DEF WholeBlock, BytesOf
  <2>2. at \in [WholeBlock -> 1..Len(Shard)]
    BY <1>3, <2>1
  <2>3. ASSUME NEW a \in WholeBlock, NEW b \in WholeBlock, at[a] = at[b]
        PROVE  a = b
    <3>1. Shard[at[a]] = <<e, a[1], a[2]>> /\ Shard[at[b]] = <<e, b[1], b[2]>>
        BY <1>3, <2>1
    <3>2. <<e, a[1], a[2]>> = <<e, b[1], b[2]>>
        BY <3>1, <2>3
    <3>3. QED
        BY <3>2, <2>1
  <2>4. at \in Injection(WholeBlock, 1..Len(Shard))
    BY <2>2, <2>3 DEF Injection, IsInjective
  <2>5. QED
    BY <1>2, <2>4, FS_Injection
<1>6. QED
    BY <1>4, <1>5

LEMMA WeightMono ==
    ASSUME NEW e \in Experts, NEW C \in SUBSET Components, NEW D \in SUBSET C
    PROVE  Weight(C) \in Nat /\ Weight(D) <= Weight(C) /\ IsFiniteSet(BytesOf(C))
<1>1. BytesOf(C) \subseteq WholeBlock /\ BytesOf(D) \subseteq BytesOf(C)
    BY DEF WholeBlock, BytesOf
<1>2. IsFiniteSet(BytesOf(C))
    BY <1>1, Finite, FS_Subset
<1>3. Cardinality(BytesOf(D)) <= Cardinality(BytesOf(C))
    BY <1>1, <1>2, FS_Subset
<1>4. QED
    BY <1>2, <1>3, FS_CardinalityType DEF Weight

\* One tensor more.
LEMMA WeightAdd ==
    ASSUME NEW e \in Experts, NEW C \in SUBSET Components, NEW c \in Components \ C
    PROVE  Weight(C \cup {c}) = Weight(C) + Size[c]
<1>1. Size[c] \in Nat
    BY ComponentAssumption
<1>2. C \cup {c} \in SUBSET Components /\ {c} \in SUBSET Components
    OBVIOUS
<1>3. IsFiniteSet(BytesOf(C)) /\ IsFiniteSet(BytesOf({c})) /\ Weight(C) \in Nat
    BY <1>2, WeightMono
<1>4. BytesOf(C \cup {c}) = BytesOf(C) \cup BytesOf({c})
    BY DEF BytesOf
<1>5. BytesOf(C) \cap BytesOf({c}) = {}
    BY DEF BytesOf
<1>6. Cardinality(BytesOf({c})) = Size[c]
  <2> DEFINE at == [i \in 1..Size[c] |-> <<c, i>>]
  <2>1. at \in [1..Size[c] -> BytesOf({c})]
    BY <1>1 DEF BytesOf
  <2>2. \A i, j \in 1..Size[c] : at[i] = at[j] => i = j
    OBVIOUS
  <2>3. \A b \in BytesOf({c}) : b[2] \in 1..Size[c] /\ at[b[2]] = b
    BY DEF BytesOf
  <2>4. at \in Bijection(1..Size[c], BytesOf({c}))
    <3>1. at \in Injection(1..Size[c], BytesOf({c}))
        BY <2>1, <2>2 DEF Injection, IsInjective
    <3>2. at \in Surjection(1..Size[c], BytesOf({c}))
        BY <2>1, <2>3 DEF Surjection
    <3>3. QED
        BY <3>1, <3>2 DEF Bijection
  <2>5. IsFiniteSet(1..Size[c]) /\ Cardinality(1..Size[c]) = Size[c]
    BY <1>1, FS_Interval
  <2>6. QED
    BY <2>4, <2>5, FS_Bijection DEF ExistsBijection
<1>7. Cardinality(BytesOf(C) \cup BytesOf({c}))
      = Cardinality(BytesOf(C)) + Cardinality(BytesOf({c})) - Cardinality(BytesOf(C) \cap BytesOf({c}))
    BY <1>3, FS_Union
<1>8. Cardinality(BytesOf(C) \cap BytesOf({c})) = 0
    BY <1>5, FS_EmptySet
<1>9. /\ Weight(C) = Cardinality(BytesOf(C))
      /\ Weight(C \cup {c}) = Cardinality(BytesOf(C) \cup BytesOf({c}))
    BY <1>4 DEF Weight
<1>10. QED
    BY <1>1, <1>3, <1>6, <1>7, <1>8, <1>9

LEMMA WeightNone == Weight({}) = 0
<1>1. BytesOf({}) = {}
    BY DEF BytesOf
<1>2. QED
    BY <1>1, FS_EmptySet DEF Weight

LEMMA SpanMono ==
    ASSUME NEW S \in SUBSET Experts, NEW T \in SUBSET S, S # {}
    PROVE  Span(S) \in Nat /\ Span(T) \in Nat /\ Span(T) <= Span(S) /\ IsFiniteSet(S \X WholeBlock)
<1>1. IsFiniteSet(Experts) /\ IsFiniteSet(WholeBlock)
    BY Finite
<1>2. IsFiniteSet(S)
    BY <1>1, FS_Subset
<1>3. IsFiniteSet(S \X WholeBlock)
    BY <1>1, <1>2, FS_Product
<1>4. (T \X WholeBlock) \in SUBSET (S \X WholeBlock)
    OBVIOUS
<1>5. IsFiniteSet(T \X WholeBlock) /\ Cardinality(T \X WholeBlock) <= Cardinality(S \X WholeBlock)
    BY <1>3, <1>4, FS_Subset
<1>6. QED
    BY <1>3, <1>5, FS_CardinalityType DEF Span

LEMMA SpanNone == Span({}) = 0
<1>1. {} \X WholeBlock = {}
    OBVIOUS
<1>2. QED
    BY <1>1, FS_EmptySet DEF Span

\* One block more.
LEMMA SpanAdd ==
    ASSUME NEW S \in SUBSET Experts, NEW e \in Experts \ S
    PROVE  Span(S) \in Nat /\ Span(S \cup {e}) = Span(S) + Weight(Components)
<1>1. IsFiniteSet(Experts) /\ IsFiniteSet(WholeBlock)
    BY Finite
<1>2. IsFiniteSet(S) /\ IsFiniteSet({e}) /\ Cardinality({e}) = 1
    BY <1>1, FS_Subset, FS_Singleton
<1>3. /\ IsFiniteSet(S \X WholeBlock) /\ IsFiniteSet({e} \X WholeBlock)
      /\ Cardinality({e} \X WholeBlock) = Cardinality({e}) * Cardinality(WholeBlock)
    BY <1>1, <1>2, FS_Product
<1>4. /\ (S \cup {e}) \X WholeBlock = (S \X WholeBlock) \cup ({e} \X WholeBlock)
      /\ (S \X WholeBlock) \cap ({e} \X WholeBlock) = {}
    OBVIOUS
<1>5. Cardinality((S \X WholeBlock) \cup ({e} \X WholeBlock))
      = Cardinality(S \X WholeBlock) + Cardinality({e} \X WholeBlock)
        - Cardinality((S \X WholeBlock) \cap ({e} \X WholeBlock))
    BY <1>3, FS_Union
<1>6. Cardinality(WholeBlock) \in Nat /\ Cardinality(S \X WholeBlock) \in Nat
    BY <1>1, <1>3, FS_CardinalityType
<1>7. Cardinality({e} \X WholeBlock) = Cardinality(WholeBlock)
    BY <1>2, <1>3, <1>6
<1>8. Cardinality((S \X WholeBlock) \cap ({e} \X WholeBlock)) = 0
    BY <1>4, FS_EmptySet
<1>9. /\ Span(S) = Cardinality(S \X WholeBlock) /\ Weight(Components) = Cardinality(WholeBlock)
      /\ Span(S \cup {e}) = Cardinality((S \X WholeBlock) \cup ({e} \X WholeBlock))
    BY <1>4 DEF Span, Weight, WholeBlock
<1>10. QED
    BY <1>5, <1>6, <1>7, <1>8, <1>9

\* The tensors of a block lie one behind another.
LEMMA InnerApart ==
    ASSUME NEW e \in Experts, NEW c \in Components
    PROVE  /\ Inner(c) \in Nat /\ Size[c] \in Nat /\ Weight(Components) \in Nat
           /\ Inner(c) + Size[c] <= Weight(Components)
           /\ \A d \in Components : c < d => Inner(c) + Size[c] <= Inner(d)
<1> DEFINE below(d) == {x \in Components : x < d}
<1>1. Components \subseteq Nat /\ Size[c] \in Nat
    BY ComponentAssumption
<1>2. \A d : below(d) \in SUBSET Components
    OBVIOUS
<1>3. c \in Components \ below(c)
    BY <1>1
<1>4. Weight(below(c) \cup {c}) = Weight(below(c)) + Size[c]
    BY <1>2, <1>3, WeightAdd
<1>5. below(c) \cup {c} \in SUBSET Components
    OBVIOUS
<1>6. Weight(Components) \in Nat /\ Weight(below(c) \cup {c}) <= Weight(Components)
    BY <1>5, WeightMono
<1>7. ASSUME NEW d \in Components, c < d
      PROVE  Weight(below(c) \cup {c}) <= Weight(below(d))
  <2>1. c \in Nat /\ d \in Nat
    BY <1>1, <1>7
  <2>2. \A x \in Components : x < c => x < d
    BY <1>1, <1>7, <2>1
  <2>3. below(c) \cup {c} \in SUBSET below(d)
    BY <1>7, <2>2
  <2>4. QED
    BY <1>2, <2>3, WeightMono
<1>8. \A d : Inner(d) = Weight(below(d))
    BY DEF Inner
<1>9. Inner(c) \in Nat
    BY <1>2, <1>8, WeightMono
<1>10. QED
    BY <1>1, <1>4, <1>6, <1>7, <1>8, <1>9

-----------------------------------------------------------------------------
(* The layout that a command makes of the experts D, and the files beside it *)

\* The experts that lie before e in its layer's file.
Preceding(cmd, D, e) == {f \in D : LayerOf[f] = LayerOf[e] /\ f # e /\ Before(cmd, f, e)}

Start(cmd, D, e) == Span(Preceding(cmd, D, e))
Inside == [c \in Components |-> [offset |-> Inner(c), bytes |-> Size[c]]]
Planned(cmd, D, e) ==
    [offset |-> Start(cmd, D, e), bytes |-> Weight(Components), tensors |-> Inside]

\* As far as it goes, the file of layer l has every byte in its place.
Laid(file, cmd, D, l) ==
    \A e \in D : LayerOf[e] = l => \A c \in Components : \A i \in 1..Size[c] :
        Start(cmd, D, e) + Inner(c) + i <= Len(file)
        => file[Start(cmd, D, e) + Inner(c) + i] = <<e, c, i>>

LEMMA BeforeOrders ==
    ASSUME NEW cmd, NEW e \in Experts, NEW f \in Experts
    PROVE  /\ e # f => Before(cmd, e, f) \/ Before(cmd, f, e)
           /\ ~(Before(cmd, e, f) /\ Before(cmd, f, e))
           /\ \A g \in Experts : Before(cmd, e, f) /\ Before(cmd, f, g) => Before(cmd, e, g)
<1>1. Uses(e) \in Nat /\ Uses(f) \in Nat /\ \A g \in Experts : Uses(g) \in Nat
    BY UsesTypes
<1>2. Experts \subseteq Nat
    BY ExpertAssumption
<1>3. CASE cmd.kind = "build" \/ cmd.order = "expert_id"
  <2>1. \A x, y \in Experts : Before(cmd, x, y) <=> x < y
    BY <1>3 DEF Before
  <2>2. QED
    BY <1>2, <2>1
<1>4. CASE ~(cmd.kind = "build" \/ cmd.order = "expert_id")
  <2>1. \A x, y \in Experts :
            Before(cmd, x, y) <=> IF Uses(x) = Uses(y) THEN x < y ELSE Uses(x) > Uses(y)
    BY <1>4 DEF Before
  <2>2. QED
    BY <1>1, <1>2, <2>1
<1>5. QED
    BY <1>3, <1>4

\* The blocks of a layer lie one behind another.
LEMMA BlocksApart ==
    ASSUME NEW cmd, NEW D \in SUBSET Experts, NEW e \in D, NEW f \in D,
           LayerOf[e] = LayerOf[f], e # f
    PROVE  /\ Start(cmd, D, e) \in Nat /\ Start(cmd, D, f) \in Nat
           /\ \/ Start(cmd, D, e) + Weight(Components) <= Start(cmd, D, f)
              \/ Start(cmd, D, f) + Weight(Components) <= Start(cmd, D, e)
<1>1. ASSUME NEW x \in D
      PROVE  /\ Preceding(cmd, D, x) \in SUBSET Experts /\ x \in Experts \ Preceding(cmd, D, x)
             /\ Start(cmd, D, x) \in Nat
  <2>1. Preceding(cmd, D, x) \in SUBSET Experts /\ x \in Experts \ Preceding(cmd, D, x)
    BY DEF Preceding
  <2>2. QED
    BY <2>1, SpanAdd DEF Start
<1>2. ASSUME NEW x \in D, NEW y \in D, LayerOf[x] = LayerOf[y], x # y, Before(cmd, x, y)
      PROVE  Start(cmd, D, x) + Weight(Components) <= Start(cmd, D, y)
  <2>1. Span(Preceding(cmd, D, x) \cup {x}) = Span(Preceding(cmd, D, x)) + Weight(Components)
    BY <1>1, SpanAdd
  <2>2. ASSUME NEW z \in Preceding(cmd, D, x) PROVE z \in Preceding(cmd, D, y)
    <3>1. z \in D /\ LayerOf[z] = LayerOf[x] /\ z # x /\ Before(cmd, z, x)
        BY DEF Preceding
    <3>2. Before(cmd, z, y)
        BY <1>2, <3>1, BeforeOrders
    <3>3. z # y
        BY <1>2, <3>1, BeforeOrders
    <3>4. QED
        BY <1>2, <3>1, <3>2, <3>3 DEF Preceding
  <2>3. x \in Preceding(cmd, D, y)
    BY <1>2 DEF Preceding
  <2>4. Preceding(cmd, D, x) \cup {x} \in SUBSET Preceding(cmd, D, y)
    BY <2>2, <2>3
  <2>5. Preceding(cmd, D, y) # {}
    BY <2>3
  <2>6. Span(Preceding(cmd, D, x) \cup {x}) <= Span(Preceding(cmd, D, y))
    BY <1>1, <2>4, <2>5, SpanMono
  <2>7. QED
    BY <2>1, <2>6 DEF Start
<1>3. Before(cmd, e, f) \/ Before(cmd, f, e)
    BY BeforeOrders
<1>4. QED
    BY <1>1, <1>2, <1>3

\* What a plan's numbers are.
LEMMA PlanTypes ==
    ASSUME NEW cmd, NEW D \in SUBSET Experts, NEW e \in D, NEW c \in Components
    PROVE  /\ Start(cmd, D, e) \in Nat /\ Inner(c) \in Nat /\ Size[c] \in Nat
           /\ Weight(Components) \in Nat /\ Inner(c) + Size[c] <= Weight(Components)
<1>1. Preceding(cmd, D, e) \in SUBSET Experts /\ e \in Experts \ Preceding(cmd, D, e)
    BY DEF Preceding
<1>2. QED
    BY <1>1, SpanAdd, InnerApart DEF Start

\* No two bytes of a layer have the same place.
LEMMA PlacesApart ==
    ASSUME NEW cmd, NEW D \in SUBSET Experts, NEW e \in D, NEW f \in D,
           LayerOf[e] = LayerOf[f], NEW c \in Components, NEW d \in Components,
           e # f \/ c # d
    PROVE  \/ Start(cmd, D, e) + Inner(c) + Size[c] <= Start(cmd, D, f) + Inner(d)
           \/ Start(cmd, D, f) + Inner(d) + Size[d] <= Start(cmd, D, e) + Inner(c)
<1>1. /\ Start(cmd, D, e) \in Nat /\ Inner(c) \in Nat /\ Size[c] \in Nat
      /\ Inner(c) + Size[c] <= Weight(Components) /\ Weight(Components) \in Nat
    BY PlanTypes
<1>2. /\ Start(cmd, D, f) \in Nat /\ Inner(d) \in Nat /\ Size[d] \in Nat
      /\ Inner(d) + Size[d] <= Weight(Components)
    BY PlanTypes
<1>3. CASE e # f
  <2>1. \/ Start(cmd, D, e) + Weight(Components) <= Start(cmd, D, f)
        \/ Start(cmd, D, f) + Weight(Components) <= Start(cmd, D, e)
    BY <1>3, BlocksApart
  <2>2. QED
    BY <1>1, <1>2, <2>1
<1>4. CASE e = f /\ c # d
  <2>1. c \in Nat /\ d \in Nat
    BY ComponentAssumption
  <2>2. c < d \/ d < c
    BY <1>4, <2>1
  <2>3. c < d => Inner(c) + Size[c] <= Inner(d)
    BY InnerApart
  <2>4. d < c => Inner(d) + Size[d] <= Inner(c)
    BY InnerApart
  <2>5. QED
    BY <1>1, <1>2, <1>4, <2>2, <2>3, <2>4
<1>5. QED
    BY <1>3, <1>4

LEMMA NothingLaid ==
    ASSUME NEW cmd, NEW D \in SUBSET Experts, NEW l
    PROVE  Laid(<<>>, cmd, D, l)
<1> SUFFICES ASSUME NEW e \in D, NEW c \in Components, NEW i \in 1..Size[c]
             PROVE  ~(Start(cmd, D, e) + Inner(c) + i <= Len(<<>>))
    BY DEF Laid
<1>1. Start(cmd, D, e) \in Nat /\ Inner(c) \in Nat /\ Size[c] \in Nat
    BY PlanTypes
<1>2. i \in Nat /\ 1 <= i
    BY <1>1
<1>3. QED
    BY <1>1, <1>2

\* Whatever of a file is on the disk is in place too.
LEMMA PrefixLaid ==
    ASSUME NEW cmd, NEW D \in SUBSET Experts, NEW l, NEW disk \in Seq(Cells),
           NEW written \in Seq(Cells), Laid(written, cmd, D, l),
           NEW file \in Flushed(disk, written)
    PROVE  Laid(file, cmd, D, l)
<1>1. PICK n \in Len(disk)..Len(written) : file = SubSeq(written, 1, n)
    BY DEF Flushed
<1>2. Len(disk) \in Nat /\ Len(written) \in Nat
    BY LenProperties
<1>3. n \in Nat /\ n <= Len(written)
    BY <1>1, <1>2
<1>4. Len(file) = n /\ \A k \in 1..n : file[k] = written[k]
    BY <1>1, <1>3
<1> SUFFICES ASSUME NEW e \in D, LayerOf[e] = l, NEW c \in Components, NEW i \in 1..Size[c],
                    Start(cmd, D, e) + Inner(c) + i <= Len(file)
             PROVE  file[Start(cmd, D, e) + Inner(c) + i] = <<e, c, i>>
    BY DEF Laid
<1>5. Start(cmd, D, e) \in Nat /\ Inner(c) \in Nat /\ Size[c] \in Nat
    BY PlanTypes
<1>6. i \in Nat /\ 1 <= i
    BY <1>5
<1>7. /\ Start(cmd, D, e) + Inner(c) + i \in 1..n
      /\ Start(cmd, D, e) + Inner(c) + i <= Len(written)
    BY <1>2, <1>3, <1>4, <1>5, <1>6
<1>8. QED
    BY <1>4, <1>7 DEF Laid

\* A file goes on in place when what is written next is in place.
LEMMA JoinedLaid ==
    ASSUME NEW cmd, NEW D \in SUBSET Experts, NEW l, NEW file \in Seq(Cells),
           NEW data \in Seq(Cells), Laid(file, cmd, D, l),
           \A e \in D : LayerOf[e] = l => \A c \in Components : \A i \in 1..Size[c] :
               \A k \in 1..Len(data) :
                   Start(cmd, D, e) + Inner(c) + i = Len(file) + k => data[k] = <<e, c, i>>
    PROVE  Laid(file \o data, cmd, D, l)
<1> SUFFICES ASSUME NEW e \in D, LayerOf[e] = l, NEW c \in Components, NEW i \in 1..Size[c],
                    Start(cmd, D, e) + Inner(c) + i <= Len(file \o data)
             PROVE  (file \o data)[Start(cmd, D, e) + Inner(c) + i] = <<e, c, i>>
    BY DEF Laid
<1> DEFINE p == Start(cmd, D, e) + Inner(c) + i
<1>1. Start(cmd, D, e) \in Nat /\ Inner(c) \in Nat /\ Size[c] \in Nat
    BY PlanTypes
<1>2. p \in Nat /\ 1 <= p
    BY <1>1
<1>3. /\ Len(file \o data) = Len(file) + Len(data) /\ Len(file) \in Nat /\ Len(data) \in Nat
      /\ \A k \in 1..Len(file) : (file \o data)[k] = file[k]
      /\ \A k \in 1..Len(data) : (file \o data)[Len(file) + k] = data[k]
    BY Joined
<1>4. p <= Len(file) => file[p] = <<e, c, i>>
    BY DEF Laid
<1>5. \A k \in 1..Len(data) : p = Len(file) + k => data[k] = <<e, c, i>>
    OBVIOUS
<1>6. p <= Len(file) + Len(data)
    BY <1>3
<1> HIDE DEF p
<1>7. ASSUME p <= Len(file) PROVE (file \o data)[p] = <<e, c, i>>
    BY <1>2, <1>3, <1>4, <1>7
<1>8. ASSUME ~(p <= Len(file)) PROVE (file \o data)[p] = <<e, c, i>>
  <2>1. p - Len(file) \in 1..Len(data) /\ Len(file) + (p - Len(file)) = p
    BY <1>2, <1>3, <1>6, <1>8
  <2>2. (file \o data)[Len(file) + (p - Len(file))] = data[p - Len(file)]
    BY <1>3, <2>1
  <2>3. QED
    BY <1>5, <2>1, <2>2
<1>9. QED
    BY <1>7, <1>8 DEF p

LEMMA InOneOfTwo ==
    ASSUME NEW a \in Nat, NEW b \in Nat, NEW m \in Nat, NEW n \in Nat, NEW i \in Nat, NEW k \in Nat,
           1 <= i, i <= n, 1 <= k, k <= m, a + i = b + k
    PROVE  ~(b + m <= a) /\ ~(a + n <= b) /\ (a = b => i = k)
    OBVIOUS

\* A build puts the next tensor of an expert behind the ones that it has.
LEMMA TensorLaid ==
    ASSUME NEW cmd, NEW D \in SUBSET Experts, NEW file \in Seq(Cells),
           NEW data \in Seq(Cells), NEW e \in D, NEW c \in Components,
           Laid(file, cmd, D, LayerOf[e]), Len(file) = Start(cmd, D, e) + Inner(c),
           Len(data) = Size[c], \A i \in 1..Size[c] : data[i] = <<e, c, i>>
    PROVE  Laid(file \o data, cmd, D, LayerOf[e])
<1>1. /\ Start(cmd, D, e) \in Nat /\ Inner(c) \in Nat /\ Size[c] \in Nat
    BY PlanTypes
<1>2. ASSUME NEW f \in D, LayerOf[f] = LayerOf[e], NEW d \in Components, NEW i \in 1..Size[d],
             NEW k \in 1..Len(data), Start(cmd, D, f) + Inner(d) + i = Len(file) + k
      PROVE  data[k] = <<f, d, i>>
  <2>1. Start(cmd, D, f) \in Nat /\ Inner(d) \in Nat /\ Size[d] \in Nat
    BY PlanTypes
  <2>2. i \in Nat /\ 1 <= i /\ i <= Size[d]
    BY <2>1
  <2>3. /\ k \in Nat /\ 1 <= k /\ k <= Size[c]
        /\ Start(cmd, D, f) + Inner(d) + i = Start(cmd, D, e) + Inner(c) + k
    BY <1>1, <1>2
  <2>9. Start(cmd, D, f) + Inner(d) \in Nat /\ Start(cmd, D, e) + Inner(c) \in Nat
    BY <1>1, <2>1
  <2>4. e = f /\ c = d
    <3>1. \/ e = f /\ c = d
          \/ Start(cmd, D, e) + Inner(c) + Size[c] <= Start(cmd, D, f) + Inner(d)
          \/ Start(cmd, D, f) + Inner(d) + Size[d] <= Start(cmd, D, e) + Inner(c)
        BY <1>2, PlacesApart
    <3>2. /\ ~(Start(cmd, D, e) + Inner(c) + Size[c] <= Start(cmd, D, f) + Inner(d))
          /\ ~(Start(cmd, D, f) + Inner(d) + Size[d] <= Start(cmd, D, e) + Inner(c))
      <4> DEFINE a == Start(cmd, D, f) + Inner(d)
                 b == Start(cmd, D, e) + Inner(c)
      <4>1. a \in Nat /\ b \in Nat /\ a + i = b + k
        BY <2>3, <2>9
      <4> HIDE DEF a, b
      <4>2. ~(b + Size[c] <= a) /\ ~(a + Size[d] <= b)
        BY <1>1, <2>1, <2>2, <2>3, <4>1, InOneOfTwo
      <4>3. QED
        BY <4>2 DEF a, b
    <3>3. QED
        BY <3>1, <3>2
  <2>5. k = i
    <3>1. Start(cmd, D, f) + Inner(d) = Start(cmd, D, e) + Inner(c)
        BY <2>4
    <3>2. QED
        BY <1>1, <2>1, <2>2, <2>3, <2>9, <3>1, InOneOfTwo
  <2>6. QED
    BY <2>4, <2>5
<1>3. QED
    BY <1>2, JoinedLaid

\* A repack puts a block behind the ones that it has written.
LEMMA BlockLaid ==
    ASSUME NEW cmd, NEW D \in SUBSET Experts, NEW file \in Seq(Cells),
           NEW data \in Seq(Cells), NEW e \in D,
           Laid(file, cmd, D, LayerOf[e]), Len(file) = Start(cmd, D, e),
           Len(data) = Weight(Components),
           \A c \in Components : \A i \in 1..Size[c] : data[Inner(c) + i] = <<e, c, i>>
    PROVE  Laid(file \o data, cmd, D, LayerOf[e])
<1>1. ASSUME NEW f \in D, LayerOf[f] = LayerOf[e], NEW d \in Components, NEW i \in 1..Size[d],
             NEW k \in 1..Len(data), Start(cmd, D, f) + Inner(d) + i = Len(file) + k
      PROVE  data[k] = <<f, d, i>>
  <2>1. /\ Start(cmd, D, f) \in Nat /\ Inner(d) \in Nat /\ Size[d] \in Nat
        /\ Inner(d) + Size[d] <= Weight(Components) /\ Weight(Components) \in Nat
        /\ Start(cmd, D, e) \in Nat
    BY PlanTypes
  <2>2. i \in Nat /\ 1 <= i /\ i <= Size[d]
    BY <2>1
  <2>3. /\ k \in Nat /\ 1 <= k /\ k <= Weight(Components)
        /\ Start(cmd, D, f) + Inner(d) + i = Start(cmd, D, e) + k
    BY <1>1, <2>1
  <2>4. e = f
    <3>1. \/ e = f
          \/ Start(cmd, D, e) + Weight(Components) <= Start(cmd, D, f)
          \/ Start(cmd, D, f) + Weight(Components) <= Start(cmd, D, e)
        BY <1>1, BlocksApart
    <3>2. Inner(d) + i \in Nat /\ 1 <= Inner(d) + i /\ Inner(d) + i <= Weight(Components)
        BY <2>1, <2>2
    <3>3. Start(cmd, D, f) + (Inner(d) + i) = Start(cmd, D, e) + k
        BY <2>1, <2>2, <2>3
    <3>4. QED
        BY <2>1, <2>3, <3>1, <3>2, <3>3, InOneOfTwo
  <2>5. k = Inner(d) + i
    <3> DEFINE a == Start(cmd, D, e)
               b == Inner(d)
    <3>1. a \in Nat /\ b \in Nat /\ a + b + i = a + k
        BY <2>1, <2>3, <2>4
    <3> HIDE DEF a, b
    <3>2. k = b + i
        BY <2>2, <2>3, <3>1
    <3>3. QED
        BY <3>2 DEF b
  <2>6. QED
    BY <2>4, <2>5
<1>2. QED
    BY <1>1, JoinedLaid

-----------------------------------------------------------------------------
(* A layer file that is being written *)

OfLayer(D, l) == {e \in D : LayerOf[e] = l}

\* The tensors that the expert in progress has, when the ones in parts are to come.
Had(parts) == IF parts = {} THEN {} ELSE Components \ parts

\* The entry of an expert that has the tensors C.
Begun(cmd, D, e, C) ==
    [offset |-> Start(cmd, D, e), bytes |-> Weight(C),
     tensors |-> [c \in C |-> [offset |-> Inner(c), bytes |-> Size[c]]]]

\* The file of layer l, with the experts `left` still to be written, and `parts` of the
\* first of them if it is begun.
Partly(cmd, D, l, left, parts, f, file) ==
    /\ Laid(file, cmd, D, l)
    /\ \A x \in OfLayer(D, l) \ left, e \in left : Before(cmd, x, e)
    /\ \A c \in Components \ parts, d \in parts : c < d
    /\ Len(file) = Span(OfLayer(D, l) \ left) + Weight(Had(parts))
    /\ \A e \in left \cap DOMAIN f : f[e] = Begun(cmd, D, e, Components \ parts)

\* The next expert comes right behind the ones that are written.
LEMMA NextStart ==
    ASSUME NEW cmd, NEW D \in SUBSET Experts, NEW l, NEW left \in SUBSET OfLayer(D, l),
           NEW e \in left, \A f \in left \ {e} : Before(cmd, e, f),
           \A x \in OfLayer(D, l) \ left : Before(cmd, x, e)
    PROVE  Start(cmd, D, e) = Span(OfLayer(D, l) \ left)
<1>1. e \in D /\ LayerOf[e] = l
    BY DEF OfLayer
<1>2. ASSUME NEW x \in Preceding(cmd, D, e) PROVE x \in OfLayer(D, l) \ left
  <2>1. x \in D /\ x # e /\ Before(cmd, x, e) /\ LayerOf[x] = l
    BY <1>1, <1>2 DEF Preceding
  <2>2. ~Before(cmd, e, x)
    BY <1>1, <2>1, BeforeOrders
  <2>3. QED
    BY <2>1, <2>2 DEF OfLayer
<1>3. ASSUME NEW x \in OfLayer(D, l) \ left PROVE x \in Preceding(cmd, D, e)
    BY <1>1, <1>3 DEF OfLayer, Preceding
<1>4. Preceding(cmd, D, e) = OfLayer(D, l) \ left
    BY <1>2, <1>3
<1>5. QED
    BY <1>4 DEF Start

\* The file is opened.
LEMMA OpenPartly ==
    ASSUME NEW cmd, NEW D \in SUBSET Experts, NEW l, NEW f,
           \A e \in DOMAIN f : LayerOf[e] # l
    PROVE  Partly(cmd, D, l, OfLayer(D, l), {}, f, <<>>)
<1>1. Laid(<<>>, cmd, D, l)
    BY NothingLaid
<1>2. OfLayer(D, l) \ OfLayer(D, l) = {} /\ Had({}) = {} /\ Len(<<>>) = 0
    BY DEF Had
<1>3. Len(<<>>) = Span(OfLayer(D, l) \ OfLayer(D, l)) + Weight(Had({}))
    BY <1>2, SpanNone, WeightNone
<1>4. OfLayer(D, l) \cap DOMAIN f = {}
    BY DEF OfLayer
<1>5. QED
    BY <1>1, <1>2, <1>3, <1>4 DEF Partly

\* The next expert is begun.
LEMMA NextPartly ==
    ASSUME NEW cmd, NEW D \in SUBSET Experts, NEW l, NEW left \in SUBSET OfLayer(D, l),
           NEW f \in Layout, NEW file \in Seq(Cells), Partly(cmd, D, l, left, {}, f, file),
           left \cap DOMAIN f = {},
           NEW e \in left, \A x \in left \ {e} : Before(cmd, e, x)
    PROVE  Partly(cmd, D, l, left, Components,
                  With(f, e, [offset |-> Len(file), bytes |-> 0, tensors |-> <<>>]), file)
<1> DEFINE entry == [offset |-> Len(file), bytes |-> 0, tensors |-> <<>>]
           g == With(f, e, entry)
<1>1. e \in Experts /\ e \in D
    BY DEF OfLayer
<1>2. Len(file) \in Nat
    BY LenProperties
<1>3. entry \in Entries
    BY <1>2, NewEntry
<1>4. DOMAIN g = DOMAIN f \cup {e} /\ g[e] = entry
    BY <1>1, <1>3, WithTypes
<1>5. Had({}) = {} /\ Had(Components) = {}
    BY ComponentAssumption DEF Had
<1>6. Len(file) = Span(OfLayer(D, l) \ left) + Weight(Had(Components))
    BY <1>5 DEF Partly
<1>7. Start(cmd, D, e) = Span(OfLayer(D, l) \ left)
    BY NextStart DEF Partly
<1>8. Len(file) = Start(cmd, D, e)
  <2>1. Start(cmd, D, e) \in Nat
    BY <1>1, PlanTypes, ComponentAssumption
  <2>2. QED
    BY <1>5, <1>6, <1>7, <2>1, WeightNone
<1>9. entry = Begun(cmd, D, e, Components \ Components)
  <2>1. Components \ Components = {}
    OBVIOUS
  <2>2. <<>> = [c \in {} |-> [offset |-> Inner(c), bytes |-> Size[c]]]
    OBVIOUS
  <2>3. QED
    BY <1>8, <2>1, <2>2, WeightNone DEF Begun
<1>10. left \cap DOMAIN g = {e}
    BY <1>4
<1> HIDE DEF entry, g
<1>11. \A x \in left \cap DOMAIN g : g[x] = Begun(cmd, D, x, Components \ Components)
    BY <1>4, <1>9, <1>10
<1>12. Laid(file, cmd, D, l) /\ \A x \in OfLayer(D, l) \ left, y \in left : Before(cmd, x, y)
    BY DEF Partly
<1>13. Partly(cmd, D, l, left, Components, g, file)
    BY <1>6, <1>11, <1>12 DEF Partly
<1>14. QED
    BY <1>13 DEF g, entry

\* The experts of S are all before those of T; e is before the others of S.
Behind(cmd, S, T) == \A x \in S, y \in T : Before(cmd, x, y)
Foremost(cmd, S, e) == \A x \in S \ {e} : Before(cmd, e, x)

IsTensor(data, e, c) == Len(data) = Size[c] /\ \A i \in 1..Size[c] : data[i] = <<e, c, i>>

\* The tensors that are there are the ones before the next, and it goes behind them.
LEMMA HadIsBelow ==
    ASSUME NEW e \in Experts, NEW parts \in SUBSET Components, NEW c \in parts,
           \A d \in parts \ {c} : c < d, \A x \in Components \ parts, d \in parts : x < d
    PROVE  /\ Had(parts) = Components \ parts /\ Weight(Components \ parts) = Inner(c)
           /\ Components \ (parts \ {c}) = (Components \ parts) \cup {c}
           /\ Weight((Components \ parts) \cup {c}) = Inner(c) + Size[c]
<1>1. Had(parts) = Components \ parts
    BY DEF Had
<1>2. Components \ parts = {d \in Components : d < c}
  <2>1. \A d \in Components : d \in Nat
    BY ComponentAssumption
  <2>2. ASSUME NEW d \in parts PROVE ~(d < c)
    BY <2>1, <2>2
  <2>3. QED
    BY <2>2
<1>3. Weight(Components \ parts) = Inner(c)
    BY <1>2 DEF Inner
<1>4. Components \ (parts \ {c}) = (Components \ parts) \cup {c}
    OBVIOUS
<1>5. Components \ parts \in SUBSET Components /\ c \in Components \ (Components \ parts)
    OBVIOUS
<1>6. Weight((Components \ parts) \cup {c}) = Weight(Components \ parts) + Size[c]
    BY <1>5, WeightAdd
<1>7. QED
    BY <1>1, <1>3, <1>4, <1>6

\* An entry with one tensor more.
Grown(entry, next, c) ==
    /\ next.offset = entry.offset /\ next.bytes = entry.bytes + Size[c]
    /\ DOMAIN next.tensors = DOMAIN entry.tensors \cup {c}
    /\ next.tensors[c] = [offset |-> entry.bytes, bytes |-> Size[c]]
    /\ \A x \in DOMAIN entry.tensors : x # c => next.tensors[x] = entry.tensors[x]

LEMMA BegunMore ==
    ASSUME NEW cmd, NEW D, NEW e, NEW C \in SUBSET Components, NEW c \in Components \ C,
           NEW entry \in Entries, NEW next \in Entries, entry = Begun(cmd, D, e, C),
           Weight(C) = Inner(c), Weight(C \cup {c}) = Inner(c) + Size[c], Grown(entry, next, c)
    PROVE  next = Begun(cmd, D, e, C \cup {c})
<1>1. /\ entry.offset = Start(cmd, D, e) /\ entry.bytes = Inner(c)
      /\ entry.tensors = [x \in C |-> [offset |-> Inner(x), bytes |-> Size[x]]]
    BY DEF Begun
<1>2. /\ DOMAIN entry.tensors = C
      /\ next.offset = entry.offset /\ next.bytes = entry.bytes + Size[c]
      /\ DOMAIN next.tensors = DOMAIN entry.tensors \cup {c}
      /\ next.tensors[c] = [offset |-> entry.bytes, bytes |-> Size[c]]
      /\ \A x \in DOMAIN entry.tensors : x # c => next.tensors[x] = entry.tensors[x]
    BY <1>1 DEF Grown
<1>3. PICK S \in SUBSET Components : next.tensors \in [S -> Places]
    BY DEF Entries
<1>4. S = C \cup {c}
    BY <1>2, <1>3
<1>5. next.tensors[c] = [offset |-> Inner(c), bytes |-> Size[c]]
    BY <1>1, <1>2
<1>6. \A x \in C : next.tensors[x] = [offset |-> Inner(x), bytes |-> Size[x]]
    BY <1>1, <1>2
<1>7. next.tensors = [x \in C \cup {c} |-> [offset |-> Inner(x), bytes |-> Size[x]]]
  <2> DEFINE g == [x \in C \cup {c} |-> [offset |-> Inner(x), bytes |-> Size[x]]]
  <2>1. \A x \in C \cup {c} : next.tensors[x] = g[x]
    BY <1>5, <1>6
  <2>2. next.tensors = [x \in C \cup {c} |-> next.tensors[x]]
    BY <1>3, <1>4
  <2>3. QED
    BY <2>1, <2>2
<1>8. next.offset = Start(cmd, D, e) /\ next.bytes = Weight(C \cup {c})
    BY <1>1, <1>2
<1>9. next = [offset |-> next.offset, bytes |-> next.bytes, tensors |-> next.tensors]
    BY DEF Entries
<1>10. QED
    BY <1>7, <1>8, <1>9 DEF Begun

LEMMA BegunWhole ==
    ASSUME NEW cmd, NEW D, NEW e
    PROVE  Begun(cmd, D, e, Components) = Planned(cmd, D, e)
    BY DEF Begun, Planned, Inside

\* One expert less is left.
LEMMA LeftLess ==
    ASSUME NEW cmd, NEW D \in SUBSET Experts, NEW l, NEW left \in SUBSET OfLayer(D, l),
           NEW e \in left, Foremost(cmd, left, e),
           Behind(cmd, OfLayer(D, l) \ left, left)
    PROVE  /\ Start(cmd, D, e) \in Nat /\ Weight(Components) \in Nat
           /\ Span(OfLayer(D, l) \ (left \ {e})) = Start(cmd, D, e) + Weight(Components)
           /\ Behind(cmd, OfLayer(D, l) \ (left \ {e}), left \ {e})
<1>1. e \in Experts /\ e \in D /\ OfLayer(D, l) \subseteq Experts
    BY DEF OfLayer
<1>2. Start(cmd, D, e) = Span(OfLayer(D, l) \ left)
    BY NextStart DEF Foremost, Behind
<1>3. OfLayer(D, l) \ (left \ {e}) = (OfLayer(D, l) \ left) \cup {e}
    OBVIOUS
<1>4. OfLayer(D, l) \ left \in SUBSET Experts /\ e \in Experts \ (OfLayer(D, l) \ left)
    BY <1>1
<1>5. Span((OfLayer(D, l) \ left) \cup {e}) = Span(OfLayer(D, l) \ left) + Weight(Components)
    BY <1>4, SpanAdd
<1>6. Start(cmd, D, e) \in Nat /\ Weight(Components) \in Nat
    BY <1>1, PlanTypes, ComponentAssumption
<1>7. Behind(cmd, OfLayer(D, l) \ (left \ {e}), left \ {e})
    BY <1>3 DEF Foremost, Behind
<1>8. QED
    BY <1>2, <1>3, <1>5, <1>6, <1>7

\* The next tensor of an expert is written.
LEMMA TensorPartly ==
    ASSUME NEW cmd, NEW D \in SUBSET Experts, NEW l, NEW left \in SUBSET OfLayer(D, l),
           NEW parts \in SUBSET Components, NEW f \in Layout, NEW g \in Layout,
           NEW file \in Seq(Cells), NEW data \in Seq(Cells),
           Partly(cmd, D, l, left, parts, f, file),
           NEW e \in left, left \cap DOMAIN f = {e}, Foremost(cmd, left, e),
           NEW c \in parts, \A d \in parts \ {c} : c < d,
           IsTensor(data, e, c), DOMAIN g = DOMAIN f, Grown(f[e], g[e], c)
    PROVE  /\ parts = {c} => /\ Partly(cmd, D, l, left \ {e}, {}, g, file \o data)
                             /\ g[e] = Planned(cmd, D, e)
           /\ parts # {c} => Partly(cmd, D, l, left, parts \ {c}, g, file \o data)
<1>1. e \in D /\ LayerOf[e] = l /\ e \in Experts /\ c \in Components
    BY DEF OfLayer
<1>2. /\ Laid(file, cmd, D, l)
      /\ Behind(cmd, OfLayer(D, l) \ left, left)
      /\ \A x \in Components \ parts, d \in parts : x < d
      /\ Len(file) = Span(OfLayer(D, l) \ left) + Weight(Had(parts))
      /\ f[e] = Begun(cmd, D, e, Components \ parts)
    BY DEF Partly, Behind
<1>3. /\ Had(parts) = Components \ parts /\ Weight(Components \ parts) = Inner(c)
      /\ Components \ (parts \ {c}) = (Components \ parts) \cup {c}
      /\ Weight((Components \ parts) \cup {c}) = Inner(c) + Size[c]
    BY <1>1, <1>2, HadIsBelow
<1>4. Start(cmd, D, e) = Span(OfLayer(D, l) \ left)
    BY <1>2, NextStart DEF Foremost, Behind
<1>5. Len(file) = Start(cmd, D, e) + Inner(c)
    BY <1>2, <1>3, <1>4
<1>6. Laid(file \o data, cmd, D, l)
    BY <1>1, <1>2, <1>5, TensorLaid DEF IsTensor
<1>7. Start(cmd, D, e) \in Nat /\ Inner(c) \in Nat /\ Size[c] \in Nat
    BY <1>1, PlanTypes
<1>8. Len(file \o data) = Start(cmd, D, e) + (Inner(c) + Size[c])
  <2>1. Len(file \o data) = Len(file) + Len(data) /\ Len(data) = Size[c]
    BY Joined DEF IsTensor
  <2>2. Len(file \o data) = (Start(cmd, D, e) + Inner(c)) + Size[c]
    BY <1>5, <2>1
  <2>3. QED
    BY <1>7, <2>2
<1>9. f[e] \in Entries /\ g[e] \in Entries
    BY LayoutTypes
<1>10. g[e] = Begun(cmd, D, e, (Components \ parts) \cup {c})
  <2>1. Components \ parts \in SUBSET Components /\ c \in Components \ (Components \ parts)
    BY <1>1
  <2>2. /\ f[e] = Begun(cmd, D, e, Components \ parts)
        /\ Weight(Components \ parts) = Inner(c)
        /\ Weight((Components \ parts) \cup {c}) = Inner(c) + Size[c]
    BY <1>2, <1>3
  <2> DEFINE C == Components \ parts
             entry == f[e]
             next == g[e]
  <2>3. /\ entry \in Entries /\ next \in Entries /\ entry = Begun(cmd, D, e, C)
        /\ C \in SUBSET Components /\ c \in Components \ C
        /\ Weight(C) = Inner(c) /\ Weight(C \cup {c}) = Inner(c) + Size[c]
    BY <1>9, <2>1, <2>2
  <2>4. Grown(entry, next, c)
    OBVIOUS
  <2> HIDE DEF C, entry, next
  <2>5. next = Begun(cmd, D, e, C \cup {c})
    BY <2>3, <2>4, BegunMore
  <2>6. QED
    BY <2>5 DEF C, next
<1>11. /\ Start(cmd, D, e) \in Nat /\ Weight(Components) \in Nat
       /\ Span(OfLayer(D, l) \ (left \ {e})) = Start(cmd, D, e) + Weight(Components)
       /\ Behind(cmd, OfLayer(D, l) \ (left \ {e}), left \ {e})
  <2>1. Behind(cmd, OfLayer(D, l) \ left, left) /\ Foremost(cmd, left, e)
    BY <1>2
  <2>2. QED
    BY <2>1, LeftLess
<1>12. ASSUME parts = {c}
       PROVE  Partly(cmd, D, l, left \ {e}, {}, g, file \o data) /\ g[e] = Planned(cmd, D, e)
  <2>1. (Components \ parts) \cup {c} = Components
    BY <1>12
  <2>2. Weight(Components) = Inner(c) + Size[c]
    BY <1>3, <2>1
  <2>4. Weight(Had({})) = 0
    BY WeightNone DEF Had
  <2>5. Len(file \o data) = Span(OfLayer(D, l) \ (left \ {e})) + Weight(Had({}))
    BY <1>7, <1>8, <1>11, <2>2, <2>4
  <2>6. (left \ {e}) \cap DOMAIN g = {}
    OBVIOUS
  <2>7. Partly(cmd, D, l, left \ {e}, {}, g, file \o data)
    BY <1>6, <1>11, <2>5, <2>6 DEF Partly, Behind
  <2>8. g[e] = Planned(cmd, D, e)
    <3>1. g[e] = Begun(cmd, D, e, Components)
        BY <1>10, <2>1
    <3>2. QED
        BY <3>1, BegunWhole
  <2>9. QED
    BY <2>7, <2>8
<1>13. ASSUME parts # {c}
       PROVE  Partly(cmd, D, l, left, parts \ {c}, g, file \o data)
  <2>1. Had(parts \ {c}) = (Components \ parts) \cup {c}
    BY <1>3, <1>13 DEF Had
  <2>2. Len(file \o data) = Span(OfLayer(D, l) \ left) + Weight(Had(parts \ {c}))
    BY <1>3, <1>4, <1>8, <2>1
  <2>3. left \cap DOMAIN g = {e}
    OBVIOUS
  <2>4. \A x \in left \cap DOMAIN g : g[x] = Begun(cmd, D, x, Components \ (parts \ {c}))
    BY <1>3, <1>10, <2>3
  <2>5. \A x \in Components \ (parts \ {c}), d \in parts \ {c} : x < d
    BY <1>2, <1>3
  <2>6. QED
    BY <1>2, <1>6, <2>2, <2>4, <2>5 DEF Partly, Behind
<1>14. QED
    BY <1>12, <1>13

\* A block is written.
LEMMA BlockPartly ==
    ASSUME NEW cmd, NEW D \in SUBSET Experts, NEW l, NEW left \in SUBSET OfLayer(D, l),
           NEW f, NEW g, NEW file \in Seq(Cells), NEW data \in Seq(Cells),
           Partly(cmd, D, l, left, {}, f, file), left \cap DOMAIN f = {},
           NEW e \in left, Foremost(cmd, left, e),
           Len(data) = Weight(Components),
           \A c \in Components : \A i \in 1..Size[c] : data[Inner(c) + i] = <<e, c, i>>,
           DOMAIN g = DOMAIN f \cup {e}
    PROVE  /\ Len(file) = Start(cmd, D, e)
           /\ Partly(cmd, D, l, left \ {e}, {}, g, file \o data)
<1>1. e \in D /\ LayerOf[e] = l /\ e \in Experts
    BY DEF OfLayer
<1>2. /\ Laid(file, cmd, D, l)
      /\ Behind(cmd, OfLayer(D, l) \ left, left)
      /\ Len(file) = Span(OfLayer(D, l) \ left) + Weight(Had({}))
    BY DEF Partly, Behind
<1>3. Weight(Had({})) = 0
    BY WeightNone DEF Had
<1>4. Start(cmd, D, e) = Span(OfLayer(D, l) \ left)
    BY <1>2, NextStart DEF Foremost, Behind
<1>5. /\ Start(cmd, D, e) \in Nat /\ Weight(Components) \in Nat
      /\ Span(OfLayer(D, l) \ (left \ {e})) = Start(cmd, D, e) + Weight(Components)
      /\ Behind(cmd, OfLayer(D, l) \ (left \ {e}), left \ {e})
    BY <1>2, LeftLess
<1>6. Len(file) = Start(cmd, D, e)
    BY <1>2, <1>3, <1>4, <1>5
<1>7. Laid(file \o data, cmd, D, l)
    BY <1>1, <1>2, <1>6, BlockLaid
<1>8. Len(file \o data) = Span(OfLayer(D, l) \ (left \ {e})) + Weight(Had({}))
  <2>1. Len(file \o data) = Len(file) + Len(data)
    BY Joined
  <2>2. Len(file \o data) = Start(cmd, D, e) + Weight(Components)
    BY <1>6, <2>1
  <2>3. QED
    BY <1>3, <1>5, <2>2
<1>9. (left \ {e}) \cap DOMAIN g = {}
    OBVIOUS
<1>10. QED
    BY <1>5, <1>6, <1>7, <1>8, <1>9 DEF Partly, Behind

-----------------------------------------------------------------------------
(* Every layout, file and buffer is in place *)

\* A layout has the entries that its command plans.
LayoutsPlanned ==
    \A d \in Dirs : layouts[d] # None =>
        /\ \E cmd \in config.jobs : cmd.dir = d
        /\ \A cmd \in config.jobs : cmd.dir = d =>
              layouts[d] = [e \in Asked(cmd) |-> Planned(cmd, Asked(cmd), e)]

\* So does a file, finished or not.
FilesPlaced ==
    \A cmd \in config.jobs, l \in Layers : files[cmd.dir][l] # None =>
        /\ cmd.kind = "repack" => layouts[cmd.from] # None
        /\ Laid(files[cmd.dir][l], cmd, Asked(cmd), l)

JobPlaced ==
    job.at # "idle" =>
        /\ job.cmd.kind = "repack" => job.input = layouts[job.cmd.from]
        /\ \A e \in DOMAIN entries \ job.experts :
              entries[e] = Planned(job.cmd, DOMAIN job.input, e)
        /\ job.at = "write" =>
              Partly(job.cmd, DOMAIN job.input, job.layer, job.experts, job.tensors, entries, out)

\* The buffer has the bytes of the expert, as many as have been read.
Filled(buffer, e) ==
    \A c \in Components : \A i \in 1..Size[c] :
        Inner(c) + i <= Len(buffer) => buffer[Inner(c) + i] = <<e, c, i>>

ReaderPlaced ==
    /\ reader.at # "closed" => layouts[reader.dir] # None /\ reader.layout = layouts[reader.dir]
    /\ reader.at \in {"read", "check"} => Filled(reader.buffer, reader.expert)
    /\ reader.at = "done" => \A c \in Components : reader.result[c] = Tensor(reader.expert, c)

ToolsPlaced == LayoutsPlanned /\ FilesPlaced /\ JobPlaced
PlacedInv == OneWriter => ToolsPlaced /\ ReaderPlaced

\* Commands for one directory plan the same.
LEMMA SamePlan ==
    ASSUME config \in Configs, OneWriter, NEW j \in config.jobs, NEW k \in config.jobs,
           j.dir = k.dir
    PROVE  /\ Asked(j) = Asked(k)
           /\ \A D, e : Planned(j, D, e) = Planned(k, D, e)
           /\ \A file, D, l : Laid(file, j, D, l) <=> Laid(file, k, D, l)
<1>1. /\ j.kind = k.kind
      /\ j.kind = "build" => Selected(j) = Selected(k)
      /\ j.kind = "repack" => j.from = k.from /\ j.order = k.order
    BY SameCommand
<1>2. j.kind = "build" \/ j.kind = "repack"
    BY CommandTypes
<1>3. Asked(j) = Asked(k)
    BY <1>1, <1>2 DEF Asked
<1>4. \A e, f : Before(j, e, f) = Before(k, e, f)
    BY <1>1, <1>2 DEF Before
<1>5. ASSUME NEW D, NEW e PROVE Preceding(j, D, e) = Preceding(k, D, e)
    BY <1>4 DEF Preceding
<1>6. \A D, e : Start(j, D, e) = Start(k, D, e)
    BY <1>5 DEF Start
<1>7. QED
    BY <1>3, <1>6 DEF Planned, Laid

\* The command that runs, and what it was asked for.
LEMMA JobAsked ==
    ASSUME TypeInv, WholeInv, OneWriter, job.at # "idle"
    PROVE  /\ config \in Configs /\ job.cmd \in config.jobs /\ job.cmd.dir \in Dirs
           /\ DOMAIN job.input = Asked(job.cmd) /\ DOMAIN job.input \in SUBSET Experts
           /\ job.cmd.kind = "repack" => layouts[job.cmd.from] # None
    BY JobNow DEF WholeInv

\* While no layout changes, a written file is in place when its command lays it so.
LEMMA FilesPlacedStep ==
    ASSUME TypeInv, WholeInv, OneWriter, FilesPlaced, config' = config, layouts' = layouts,
           job.at # "idle", NEW l \in Layers, NEW x \in Seq(Cells),
           files' = [files EXCEPT ![job.cmd.dir][l] = x],
           Laid(x, job.cmd, DOMAIN job.input, l)
    PROVE  FilesPlaced'
<1>1. /\ config \in Configs /\ job.cmd \in config.jobs /\ job.cmd.dir \in Dirs
      /\ DOMAIN job.input = Asked(job.cmd)
      /\ job.cmd.kind = "repack" => layouts[job.cmd.from] # None
    BY JobAsked
<1>2. /\ files'[job.cmd.dir][l] = x
      /\ \A d \in Dirs, k \in Layers : d # job.cmd.dir \/ k # l => files'[d][k] = files[d][k]
  <2> DEFINE d == job.cmd.dir
  <2>1. /\ files \in [Dirs -> [Layers -> Seq(Cells) \cup {None}]]
        /\ d \in Dirs /\ files' = [files EXCEPT ![d][l] = x]
    BY <1>1 DEF TypeInv, ToolTypes
  <2> HIDE DEF d
  <2>2. /\ files'[d][l] = x
        /\ \A c \in Dirs, k \in Layers : c # d \/ k # l => files'[c][k] = files[c][k]
    BY <2>1
  <2>3. QED
    BY <2>2 DEF d
<1>3. \A cmd : Asked(cmd)' = Asked(cmd)
    BY DEF Asked
<1> SUFFICES ASSUME NEW cmd \in config.jobs, NEW k \in Layers, files'[cmd.dir][k] # None
             PROVE  /\ cmd.kind = "repack" => layouts[cmd.from] # None
                    /\ Laid(files'[cmd.dir][k], cmd, Asked(cmd), k)
    BY <1>3 DEF FilesPlaced
<1>4. CASE cmd.dir = job.cmd.dir /\ k = l
  <2>1. Asked(cmd) = Asked(job.cmd) /\ (Laid(x, job.cmd, Asked(cmd), l) <=> Laid(x, cmd, Asked(cmd), l))
    BY <1>1, <1>4, SamePlan
  <2>2. cmd.kind = "repack" => layouts[cmd.from] # None
    BY <1>1, <1>4, SameCommand
  <2>3. QED
    BY <1>1, <1>2, <1>4, <2>1, <2>2
<1>5. CASE ~(cmd.dir = job.cmd.dir /\ k = l)
  <2>1. cmd.dir \in Dirs
    BY <1>1, CommandTypes
  <2>2. files'[cmd.dir][k] = files[cmd.dir][k]
    BY <1>2, <1>5, <2>1
  <2>3. QED
    BY <2>2 DEF FilesPlaced
<1>6. QED
    BY <1>4, <1>5

\* Layouts that do not change are still as planned.
LEMMA LayoutsPlannedKept ==
    ASSUME LayoutsPlanned, config' = config, layouts' = layouts
    PROVE  LayoutsPlanned'
<1>1. \A cmd : Asked(cmd)' = Asked(cmd)
    BY DEF Asked
<1>2. QED
    BY <1>1 DEF LayoutsPlanned

\* What a tool writes to its file.
LEMMA WriteLaid ==
    ASSUME TypeInv, job.at = "write", NEW data \in Seq(Cells), Write(data),
           NEW cmd, NEW D \in SUBSET Experts, Laid(out \o data, cmd, D, job.layer)
    PROVE  \E x \in Seq(Cells) : /\ files' = [files EXCEPT ![job.cmd.dir][job.layer] = x]
                                 /\ Laid(x, cmd, D, job.layer)
<1>1. PICK x \in Flushed(File, out \o data) :
          files' = [files EXCEPT ![job.cmd.dir][job.layer] = x]
    BY DEF Write
<1>2. out \in Seq(Cells) /\ File \in Seq(Cells)
    BY WriteNow DEF TypeInv, FileTypes
<1>3. out \o data \in Seq(Cells)
    BY <1>2, ConcatProperties
<1>4. x \in Seq(Cells)
    BY <1>1, <1>2, <1>3, FlushedTypes
<1>5. Laid(x, cmd, D, job.layer)
    BY <1>1, <1>2, <1>3, PrefixLaid
<1>6. QED
    BY <1>1, <1>4, <1>5

-----------------------------------------------------------------------------
(* The tools keep everything in place *)

\* The layout that a repack reads, and the file beside it.
LEMMA InputPlaced ==
    ASSUME TypeInv, WholeInv, OneWriter, ToolsPlaced, job.at = "write",
           job.cmd.kind = "repack", NEW e \in job.experts
    PROVE  \E cmd \in config.jobs :
              /\ cmd.dir = job.cmd.from
              /\ job.input[e] = Planned(cmd, DOMAIN job.input, e)
              /\ files[job.cmd.from][job.layer] \in Seq(Cells)
              /\ Laid(files[job.cmd.from][job.layer], cmd, DOMAIN job.input, job.layer)
<1>1. /\ job.input = layouts[job.cmd.from] /\ layouts[job.cmd.from] # None
      /\ job.cmd.from \in Dirs /\ job.cmd.kind # "build"
  <2>1. job.at # "idle"
    OBVIOUS
  <2>2. job.cmd.from \in Dirs /\ layouts[job.cmd.from] # None
    BY <2>1, JobNow, JobAsked
  <2>3. QED
    BY <2>1, <2>2 DEF ToolsPlaced, JobPlaced
<1>2. PICK cmd \in config.jobs : cmd.dir = job.cmd.from
    BY <1>1 DEF ToolsPlaced, LayoutsPlanned
<1>3. job.input = [x \in Asked(cmd) |-> Planned(cmd, Asked(cmd), x)]
    BY <1>1, <1>2 DEF ToolsPlaced, LayoutsPlanned
<1>4. DOMAIN job.input = Asked(cmd)
    BY <1>3
<1>5. e \in DOMAIN job.input /\ LayerOf[e] = job.layer /\ job.layer \in Layers
    BY WriteNow
<1>6. files[job.cmd.from][job.layer] \in Seq(Cells)
  <2>1. Filed(job.input, job.cmd.from)
    BY <1>1 DEF TypeInv, FileTypes
  <2>2. QED
    BY <1>5, <2>1 DEF Filed
<1>7. files[job.cmd.from][job.layer] # None
    BY <1>6, NoneAssumption
<1>8. Laid(files[job.cmd.from][job.layer], cmd, Asked(cmd), job.layer)
    BY <1>2, <1>5, <1>7 DEF ToolsPlaced, FilesPlaced
<1>9. QED
    BY <1>2, <1>3, <1>4, <1>5, <1>6, <1>8

LEMMA OpenLayerPlaced ==
    ASSUME TypeInv, WholeInv, OneWriter, ToolsPlaced, OpenLayer
    PROVE  ToolsPlaced'
<1>1. PICK l \in job.layers :
          /\ files' = [files EXCEPT ![job.cmd.dir][l] = <<>>]
          /\ job' = [job EXCEPT !.at = "write", !.layer = l, !.layers = @ \ {l},
                        !.experts = {e \in DOMAIN job.input : LayerOf[e] = l}]
    BY DEF OpenLayer, First
<1>2. job.at = "layer" /\ out' = <<>> /\ UNCHANGED <<config, layouts, entries, reader>>
    BY DEF OpenLayer
<1>3. job \in Jobs /\ l \in Layers
  <2>1. job \in Jobs
    BY DEF TypeInv, ToolTypes
  <2>2. QED
    BY <2>1 DEF Jobs
<1>4. /\ job'.at = "write" /\ job'.cmd = job.cmd /\ job'.input = job.input /\ job'.layer = l
      /\ job'.experts = {e \in DOMAIN job.input : LayerOf[e] = l} /\ job'.tensors = job.tensors
    BY <1>1, <1>3 DEF Jobs
<1>5. /\ job.experts = {} /\ job.tensors = {}
      /\ \A e \in DOMAIN entries : LayerOf[e] # l
    BY <1>2 DEF TypeInv, JobInv
<1>6. DOMAIN job.input \in SUBSET Experts
    BY <1>2, JobAsked
<1>7. Partly(job.cmd, DOMAIN job.input, l, OfLayer(DOMAIN job.input, l), {}, entries, <<>>)
    BY <1>5, <1>6, OpenPartly
<1>8. job'.experts = OfLayer(DOMAIN job.input, l)
    BY <1>4 DEF OfLayer
<1>9. JobPlaced'
    BY <1>2, <1>4, <1>5, <1>7, <1>8 DEF ToolsPlaced, JobPlaced
<1>10. FilesPlaced'
  <2>1. Laid(<<>>, job.cmd, DOMAIN job.input, l) /\ <<>> \in Seq(Cells)
    BY <1>6, NothingLaid
  <2>2. QED
    BY <1>1, <1>2, <1>3, <2>1, FilesPlacedStep DEF ToolsPlaced
<1>11. QED
    BY <1>2, <1>9, <1>10, LayoutsPlannedKept DEF ToolsPlaced

LEMMA NextExpertPlaced ==
    ASSUME TypeInv, WholeInv, OneWriter, ToolsPlaced, NextExpert
    PROVE  ToolsPlaced'
<1>1. PICK e \in job.experts :
          /\ \A x \in job.experts \ {e} : Before(job.cmd, e, x)
          /\ entries' = With(entries, e, [offset |-> Len(out), bytes |-> 0, tensors |-> <<>>])
    BY DEF NextExpert, First
<1>2. /\ job.at = "write" /\ job.tensors = {} /\ job' = [job EXCEPT !.tensors = Components]
      /\ UNCHANGED <<config, files, layouts, out, reader>>
    BY DEF NextExpert
<1>3. /\ job \in Jobs /\ entries \in Layout /\ out \in Seq(Cells)
      /\ job.experts \subseteq DOMAIN job.input /\ \A x \in job.experts : LayerOf[x] = job.layer
    BY <1>2, WriteNow
<1>4. /\ job'.at = "write" /\ job'.cmd = job.cmd /\ job'.input = job.input
      /\ job'.layer = job.layer /\ job'.experts = job.experts /\ job'.tensors = Components
    BY <1>2, <1>3 DEF Jobs
<1>5. DOMAIN job.input \in SUBSET Experts
    BY <1>2, JobAsked
<1>6. job.experts \in SUBSET OfLayer(DOMAIN job.input, job.layer)
    BY <1>3 DEF OfLayer
<1>7. job.experts \cap DOMAIN entries = {}
    BY <1>2 DEF TypeInv, JobInv
<1>8. Partly(job.cmd, DOMAIN job.input, job.layer, job.experts, {}, entries, out)
    BY <1>2 DEF ToolsPlaced, JobPlaced
<1>9. Partly(job.cmd, DOMAIN job.input, job.layer, job.experts, Components, entries', out)
    BY <1>1, <1>3, <1>5, <1>6, <1>7, <1>8, NextPartly
<1>10. /\ DOMAIN entries' = DOMAIN entries \cup {e}
       /\ \A x \in DOMAIN entries : x # e => entries'[x] = entries[x]
    BY <1>1 DEF With
<1>11. JobPlaced'
    BY <1>2, <1>4, <1>9, <1>10 DEF ToolsPlaced, JobPlaced
<1>12. FilesPlaced' /\ LayoutsPlanned'
  <2>1. \A cmd : Asked(cmd)' = Asked(cmd)
    BY <1>2 DEF Asked
  <2>2. QED
    BY <1>2, <2>1, LayoutsPlannedKept DEF ToolsPlaced, FilesPlaced
<1>13. QED
    BY <1>11, <1>12 DEF ToolsPlaced

LEMMA WriteTensorPlaced ==
    ASSUME TypeInv, WholeInv, OneWriter, ToolsPlaced, WriteTensor
    PROVE  ToolsPlaced'
<1>1. PICK e \in job.experts, c \in job.tensors, data \in Seq(Cells) :
              /\ e \in Experts /\ e \in DOMAIN entries /\ c \in Components
              /\ Len(data) = Size[c] /\ \A i \in 1..Size[c] : data[i] = <<e, c, i>>
              /\ Write(data)
              /\ entries[e].offset + entries[e].bytes = Len(out)
              /\ entries' \in Layout /\ DOMAIN entries' = DOMAIN entries
              /\ \A x \in DOMAIN entries : x # e => entries'[x] = entries[x]
              /\ entries'[e].offset = entries[e].offset
              /\ entries'[e].bytes = entries[e].bytes + Size[c]
              /\ DOMAIN entries'[e].tensors = DOMAIN entries[e].tensors \cup {c}
              /\ entries'[e].tensors[c] = [offset |-> entries[e].bytes, bytes |-> Size[c]]
              /\ \A x \in DOMAIN entries[e].tensors :
                    x # c => entries'[e].tensors[x] = entries[e].tensors[x]
              /\ job' \in Jobs /\ job'.at = "write" /\ job'.cmd = job.cmd
              /\ job'.input = job.input /\ job'.layer = job.layer /\ job'.layers = job.layers
              /\ job'.tensors = job.tensors \ {c}
              /\ job'.experts = IF job.tensors = {c} THEN job.experts \ {e} ELSE job.experts
              /\ \A d \in job.tensors \ {c} : c < d
    BY WriteTensorDoes
<1>2. job.at = "write" /\ UNCHANGED <<config, layouts, reader>>
    BY DEF WriteTensor
<1>3. /\ job \in Jobs /\ entries \in Layout /\ out \in Seq(Cells)
      /\ job.experts \subseteq DOMAIN job.input /\ \A x \in job.experts : LayerOf[x] = job.layer
    BY <1>2, WriteNow
<1>4. DOMAIN job.input \in SUBSET Experts /\ job.tensors \in SUBSET Components
    BY <1>2, <1>3, JobAsked DEF Jobs
<1>5. job.experts \in SUBSET OfLayer(DOMAIN job.input, job.layer)
    BY <1>3 DEF OfLayer
<1>6. job.experts \cap DOMAIN entries = {e}
    BY <1>1, OneAtATime
<1>7. Foremost(job.cmd, job.experts, e)
  <2>1. job.cmd.kind = "build" /\ \A f \in job.experts \ {e} : e < f
    BY <1>1 DEF TypeInv, JobInv
  <2>2. QED
    BY <2>1, BuildOrder DEF Foremost
<1>8. IsTensor(data, e, c) /\ Grown(entries[e], entries'[e], c)
    BY <1>1 DEF IsTensor, Grown
<1>9. Partly(job.cmd, DOMAIN job.input, job.layer, job.experts, job.tensors, entries, out)
    BY <1>2 DEF ToolsPlaced, JobPlaced
<1>10. /\ job.tensors = {c} =>
              /\ Partly(job.cmd, DOMAIN job.input, job.layer, job.experts \ {e}, {}, entries',
                        out \o data)
              /\ entries'[e] = Planned(job.cmd, DOMAIN job.input, e)
       /\ job.tensors # {c} =>
              Partly(job.cmd, DOMAIN job.input, job.layer, job.experts, job.tensors \ {c},
                     entries', out \o data)
  <2>1. /\ entries' \in Layout /\ DOMAIN entries' = DOMAIN entries
        /\ \A d \in job.tensors \ {c} : c < d
    BY <1>1
  <2> DEFINE cmd == job.cmd
             D == DOMAIN job.input
             l == job.layer
             left == job.experts
             parts == job.tensors
             f == entries
             g == entries'
             file == out
  <2>2. /\ D \in SUBSET Experts /\ left \in SUBSET OfLayer(D, l) /\ parts \in SUBSET Components
        /\ f \in Layout /\ g \in Layout /\ file \in Seq(Cells) /\ data \in Seq(Cells)
        /\ Partly(cmd, D, l, left, parts, f, file)
        /\ e \in left /\ left \cap DOMAIN f = {e} /\ Foremost(cmd, left, e)
        /\ c \in parts /\ IsTensor(data, e, c) /\ DOMAIN g = DOMAIN f /\ Grown(f[e], g[e], c)
    BY <1>3, <1>4, <1>5, <1>6, <1>7, <1>8, <1>9, <2>1
  <2>3. \A d \in parts \ {c} : c < d
    BY <2>1
  <2> HIDE DEF cmd, D, l, left, parts, f, g, file
  <2>4. /\ parts = {c} => /\ Partly(cmd, D, l, left \ {e}, {}, g, file \o data)
                          /\ g[e] = Planned(cmd, D, e)
        /\ parts # {c} => Partly(cmd, D, l, left, parts \ {c}, g, file \o data)
    BY <2>2, <2>3, TensorPartly
  <2>5. QED
    BY <2>4 DEF cmd, D, l, left, parts, f, g, file
<1>11. out' = out \o data
    BY <1>1, <1>2, WriteDoes
<1>12. Partly(job.cmd, DOMAIN job.input, job.layer, job'.experts, job'.tensors, entries', out')
  <2>1. CASE job.tensors = {c}
    <3>1. job'.tensors = {} /\ job'.experts = job.experts \ {e}
        BY <1>1, <2>1
    <3>2. QED
        BY <1>10, <1>11, <2>1, <3>1
  <2>2. CASE job.tensors # {c}
    <3>1. job'.tensors = job.tensors \ {c} /\ job'.experts = job.experts
        BY <1>1, <2>2
    <3>2. QED
        BY <1>10, <1>11, <2>2, <3>1
  <2>3. QED
    BY <2>1, <2>2
<1>13. \A x \in DOMAIN entries' \ job'.experts :
           entries'[x] = Planned(job.cmd, DOMAIN job.input, x)
  <2> SUFFICES ASSUME NEW x \in DOMAIN entries' \ job'.experts
               PROVE  entries'[x] = Planned(job.cmd, DOMAIN job.input, x)
    OBVIOUS
  <2>1. CASE x = e
    <3>1. job.tensors = {c}
        BY <1>1, <2>1
    <3>2. QED
        BY <1>10, <2>1, <3>1
  <2>2. CASE x # e
    <3>1. x \in DOMAIN entries \ job.experts /\ entries'[x] = entries[x]
        BY <1>1, <2>2
    <3>2. QED
        BY <1>2, <3>1 DEF ToolsPlaced, JobPlaced
  <2>3. QED
    BY <2>1, <2>2
<1>14. job'.cmd = job.cmd /\ job'.input = job.input /\ job'.layer = job.layer /\ job'.at = "write"
    BY <1>1
<1>15. JobPlaced'
    BY <1>2, <1>12, <1>13, <1>14 DEF ToolsPlaced, JobPlaced
<1>16. FilesPlaced'
  <2>1. Laid(out \o data, job.cmd, DOMAIN job.input, job.layer)
    BY <1>11, <1>12 DEF Partly
  <2>2. PICK x \in Seq(Cells) : /\ files' = [files EXCEPT ![job.cmd.dir][job.layer] = x]
                                /\ Laid(x, job.cmd, DOMAIN job.input, job.layer)
    BY <1>1, <1>2, <1>4, <2>1, WriteLaid
  <2>3. job.layer \in Layers
    BY <1>2, WriteNow
  <2>4. QED
    BY <1>2, <2>2, <2>3, FilesPlacedStep DEF ToolsPlaced
<1>17. QED
    BY <1>2, <1>15, <1>16, LayoutsPlannedKept DEF ToolsPlaced

-----------------------------------------------------------------------------
(* Reading in pieces *)

\* Data is what a file has at a place.
ReadOf(data, file, at) ==
    /\ \A i \in 1..Len(data) : data[i] = file[at + i]
    /\ Len(data) # 0 => at + Len(data) <= Len(file)

LEMMA FilledNone == \A e \in Experts : Filled(<<>>, e)
<1> SUFFICES ASSUME NEW e \in Experts, NEW c \in Components, NEW i \in 1..Size[c]
             PROVE  ~(Inner(c) + i <= Len(<<>>))
    BY DEF Filled
<1>1. Inner(c) \in Nat /\ Size[c] \in Nat
    BY InnerApart
<1>2. i \in Nat /\ 1 <= i
    BY <1>1
<1>3. QED
    BY <1>1, <1>2

\* A buffer is filled from a file that is in place.
LEMMA FilledMore ==
    ASSUME NEW file \in Seq(Cells), NEW cmd, NEW D \in SUBSET Experts, NEW e \in D,
           Laid(file, cmd, D, LayerOf[e]), NEW buffer \in Seq(Cells), NEW data \in Seq(Cells),
           Filled(buffer, e), ReadOf(data, file, Start(cmd, D, e) + Len(buffer))
    PROVE  Filled(buffer \o data, e)
<1> SUFFICES ASSUME NEW c \in Components, NEW i \in 1..Size[c], Inner(c) + i <= Len(buffer \o data)
             PROVE  (buffer \o data)[Inner(c) + i] = <<e, c, i>>
    BY DEF Filled
<1> DEFINE k == Inner(c) + i
           n == Len(buffer)
           m == Len(data)
           s == Start(cmd, D, e)
<1>1. /\ s \in Nat /\ Inner(c) \in Nat /\ Size[c] \in Nat
    BY PlanTypes
<1>2. k \in Nat /\ 1 <= k /\ Len(file) \in Nat
    BY <1>1, LenProperties
<1>3. /\ Len(buffer \o data) = n + m /\ n \in Nat /\ m \in Nat
      /\ \A j \in 1..n : (buffer \o data)[j] = buffer[j]
      /\ \A j \in 1..m : (buffer \o data)[n + j] = data[j]
    BY Joined
<1>4. k <= n + m
    BY <1>3
<1>5. k <= n => buffer[k] = <<e, c, i>>
    BY DEF Filled
<1>6. /\ \A j \in 1..m : data[j] = file[s + n + j]
      /\ m # 0 => s + n + m <= Len(file)
    BY DEF ReadOf
<1>7. s + k <= Len(file) => file[s + k] = <<e, c, i>>
  <2>1. s + k = s + Inner(c) + i
    BY <1>1
  <2>2. s + Inner(c) + i <= Len(file) => file[s + Inner(c) + i] = <<e, c, i>>
    BY DEF Laid
  <2>3. QED
    BY <2>1, <2>2
<1> HIDE DEF k, n, m, s
<1>8. (buffer \o data)[k] = <<e, c, i>>
  <2>1. CASE k <= n
    <3>1. k \in 1..n
        BY <1>2, <1>3, <2>1
    <3>2. QED
        BY <1>3, <1>5, <2>1, <3>1
  <2>2. CASE ~(k <= n)
    <3>1. k - n \in 1..m /\ n + (k - n) = k /\ s + n + (k - n) = s + k /\ m # 0
        BY <1>1, <1>2, <1>3, <1>4, <2>2
    <3>2. (buffer \o data)[k] = data[k - n] /\ data[k - n] = file[s + k]
        BY <1>3, <1>6, <3>1
    <3>3. s + k <= Len(file)
        BY <1>1, <1>2, <1>3, <1>4, <1>6, <3>1
    <3>4. QED
        BY <1>7, <3>2, <3>3
  <2>3. QED
    BY <2>1, <2>2
<1>9. QED
    BY <1>8 DEF k

LEMMA PlannedMoved ==
    ASSUME NEW j, NEW k, NEW D, NEW e, NEW n, n = Start(k, D, e)
    PROVE  [Planned(j, D, e) EXCEPT !.offset = n] = Planned(k, D, e)
    BY DEF Planned

LEMMA WriteBlockPlaced ==
    ASSUME TypeInv, WholeInv, OneWriter, ToolsPlaced, WriteBlock
    PROVE  ToolsPlaced'
<1>1. PICK e \in job.experts, data \in Seq(Cells) :
              /\ e \in Experts /\ e \notin DOMAIN entries /\ job.input[e] \in Entries
              /\ \A f \in job.experts \ {e} : Before(job.cmd, e, f)
              /\ Len(data) = job.input[e].bytes
              /\ \A i \in 1..Len(data) :
                    data[i] = files[job.cmd.from][job.layer][job.input[e].offset + i]
              /\ Write(data)
              /\ entries' \in Layout /\ DOMAIN entries' = DOMAIN entries \cup {e}
              /\ \A x \in DOMAIN entries : entries'[x] = entries[x]
              /\ entries'[e] = [job.input[e] EXCEPT !.offset = Len(out)]
              /\ job' \in Jobs /\ job'.at = "write" /\ job'.cmd = job.cmd
              /\ job'.input = job.input /\ job'.layer = job.layer /\ job'.layers = job.layers
              /\ job'.tensors = job.tensors /\ job'.experts = job.experts \ {e}
              /\ Len(data) # 0 =>
                    job.input[e].offset + Len(data) <= Len(files[job.cmd.from][job.layer])
    BY WriteBlockDoes
<1>2. job.at = "write" /\ job.cmd.kind = "repack" /\ UNCHANGED <<config, layouts, reader>>
    BY DEF WriteBlock
<1>3. /\ job \in Jobs /\ entries \in Layout /\ out \in Seq(Cells) /\ job.layer \in Layers
      /\ job.experts \subseteq DOMAIN job.input /\ \A x \in job.experts : LayerOf[x] = job.layer
    BY <1>2, WriteNow
<1>4. DOMAIN job.input \in SUBSET Experts
    BY <1>2, JobAsked
<1>5. job.experts \in SUBSET OfLayer(DOMAIN job.input, job.layer)
    BY <1>3 DEF OfLayer
<1>6. job.tensors = {} /\ job.experts \cap DOMAIN entries = {}
    BY <1>2 DEF TypeInv, JobInv
<1>7. Foremost(job.cmd, job.experts, e)
    BY <1>1 DEF Foremost
<1>8. Partly(job.cmd, DOMAIN job.input, job.layer, job.experts, {}, entries, out)
    BY <1>2, <1>6 DEF ToolsPlaced, JobPlaced
<1>9. PICK from \in config.jobs :
          /\ from.dir = job.cmd.from
          /\ job.input[e] = Planned(from, DOMAIN job.input, e)
          /\ files[job.cmd.from][job.layer] \in Seq(Cells)
          /\ Laid(files[job.cmd.from][job.layer], from, DOMAIN job.input, job.layer)
    BY <1>2, InputPlaced
<1> DEFINE D == DOMAIN job.input
           file == files[job.cmd.from][job.layer]
<1>10. /\ job.input[e].offset = Start(from, D, e) /\ job.input[e].bytes = Weight(Components)
    BY <1>9 DEF Planned
<1>11. e \in D /\ LayerOf[e] = job.layer
    BY <1>3
<1>12. Len(data) = Weight(Components) /\ Weight(Components) \in Nat /\ Start(from, D, e) \in Nat
    BY <1>1, <1>4, <1>10, <1>11, PlanTypes, ComponentAssumption
<1>13. Filled(data, e) /\ \A c \in Components : Inner(c) + Size[c] <= Len(data)
  <2>1. ReadOf(data, file, Start(from, D, e))
    BY <1>1, <1>10 DEF ReadOf
  <2>2. /\ file \in Seq(Cells) /\ Laid(file, from, D, LayerOf[e])
        /\ D \in SUBSET Experts /\ e \in D
    BY <1>4, <1>9, <1>11
  <2>3. Filled(data, e)
    <3>1. <<>> \in Seq(Cells) /\ Len(<<>>) = 0 /\ <<>> \o data = data /\ Filled(<<>>, e)
        BY <1>1, ConcatEmptySeq, FilledNone
    <3>2. Start(from, D, e) + Len(<<>>) = Start(from, D, e)
        BY <1>12, <3>1
    <3> HIDE DEF D, file
    <3>3. Filled(<<>> \o data, e)
        BY <2>1, <2>2, <3>1, <3>2, FilledMore
    <3>4. QED
        BY <3>1, <3>3
  <2>4. \A c \in Components : Inner(c) + Size[c] <= Weight(Components)
    BY <1>1, InnerApart
  <2>5. QED
    BY <1>12, <2>3, <2>4
<1>14. \A c \in Components : \A i \in 1..Size[c] : data[Inner(c) + i] = <<e, c, i>>
  <2> SUFFICES ASSUME NEW c \in Components, NEW i \in 1..Size[c]
               PROVE  data[Inner(c) + i] = <<e, c, i>>
    OBVIOUS
  <2>1. Inner(c) \in Nat /\ Size[c] \in Nat /\ Len(data) \in Nat
    BY <1>1, InnerApart, LenProperties
  <2>2. Inner(c) + Size[c] <= Len(data)
    BY <1>13
  <2>3. Inner(c) + i <= Len(data)
    BY <2>1, <2>2
  <2>4. QED
    BY <1>13, <2>3 DEF Filled
<1>15. /\ Len(out) = Start(job.cmd, D, e)
       /\ Partly(job.cmd, D, job.layer, job.experts \ {e}, {}, entries', out \o data)
  <2> DEFINE cmd == job.cmd
             l == job.layer
             left == job.experts
             f == entries
             g == entries'
             w == out
  <2>1. /\ D \in SUBSET Experts /\ left \in SUBSET OfLayer(D, l) /\ w \in Seq(Cells)
        /\ data \in Seq(Cells) /\ Partly(cmd, D, l, left, {}, f, w) /\ left \cap DOMAIN f = {}
        /\ e \in left /\ Foremost(cmd, left, e) /\ Len(data) = Weight(Components)
        /\ DOMAIN g = DOMAIN f \cup {e}
    BY <1>1, <1>3, <1>4, <1>5, <1>6, <1>7, <1>8, <1>12
  <2> HIDE DEF cmd, D, l, left, f, g, w
  <2>2. Len(w) = Start(cmd, D, e) /\ Partly(cmd, D, l, left \ {e}, {}, g, w \o data)
    BY <1>14, <2>1, BlockPartly
  <2>3. QED
    BY <2>2 DEF cmd, l, left, f, g, w
<1>16. out' = out \o data
    BY <1>1, <1>2, WriteDoes
<1>17. entries'[e] = Planned(job.cmd, D, e)
    BY <1>1, <1>9, <1>15, PlannedMoved
<1>18. \A x \in DOMAIN entries' \ job'.experts : entries'[x] = Planned(job.cmd, D, x)
  <2>1. \A x \in DOMAIN entries \ job.experts : entries[x] = Planned(job.cmd, D, x)
    BY <1>2 DEF ToolsPlaced, JobPlaced
  <2>2. /\ DOMAIN entries' = DOMAIN entries \cup {e} /\ job'.experts = job.experts \ {e}
        /\ \A x \in DOMAIN entries : entries'[x] = entries[x]
    BY <1>1
  <2> HIDE DEF D
  <2>3. QED
    BY <1>6, <1>17, <2>1, <2>2
<1>19. JobPlaced'
  <2>1. /\ job'.cmd = job.cmd /\ job'.input = job.input /\ job'.layer = job.layer
        /\ job'.at = "write" /\ job'.experts = job.experts \ {e} /\ job'.tensors = {}
    BY <1>1, <1>6
  <2>2. job.input = layouts[job.cmd.from]
    BY <1>2 DEF ToolsPlaced, JobPlaced
  <2>3. QED
    BY <1>2, <1>15, <1>16, <1>18, <2>1, <2>2 DEF JobPlaced
<1>20. FilesPlaced'
  <2>1. Laid(out \o data, job.cmd, D, job.layer)
    BY <1>15 DEF Partly
  <2>2. PICK x \in Seq(Cells) : /\ files' = [files EXCEPT ![job.cmd.dir][job.layer] = x]
                                /\ Laid(x, job.cmd, DOMAIN job.input, job.layer)
    BY <1>1, <1>2, <1>4, <2>1, WriteLaid
  <2>3. QED
    BY <1>2, <1>3, <2>2, FilesPlacedStep DEF ToolsPlaced
<1>21. QED
    BY <1>2, <1>19, <1>20, LayoutsPlannedKept DEF ToolsPlaced

LEMMA CloseLayerPlaced ==
    ASSUME TypeInv, WholeInv, OneWriter, ToolsPlaced, CloseLayer
    PROVE  ToolsPlaced'
<1>1. /\ job.at = "write" /\ job.experts = {}
      /\ files' = [files EXCEPT ![job.cmd.dir][job.layer] = out]
      /\ job' = [job EXCEPT !.at = "layer", !.layer = None]
      /\ UNCHANGED <<config, layouts, entries, reader>>
    BY DEF CloseLayer
<1>2. job \in Jobs /\ out \in Seq(Cells) /\ job.layer \in Layers
    BY <1>1, WriteNow
<1>3. /\ job'.at = "layer" /\ job'.cmd = job.cmd /\ job'.input = job.input
      /\ job'.experts = job.experts
    BY <1>1, <1>2 DEF Jobs
<1>4. JobPlaced'
    BY <1>1, <1>3 DEF ToolsPlaced, JobPlaced
<1>5. Laid(out, job.cmd, DOMAIN job.input, job.layer)
    BY <1>1 DEF ToolsPlaced, JobPlaced, Partly
<1>6. FilesPlaced'
    BY <1>1, <1>2, <1>5, FilesPlacedStep DEF ToolsPlaced
<1>7. QED
    BY <1>1, <1>4, <1>6, LayoutsPlannedKept DEF ToolsPlaced

LEMMA DiePlaced ==
    ASSUME TypeInv, WholeInv, OneWriter, ToolsPlaced, Die
    PROVE  ToolsPlaced'
<1>1. /\ config' = config /\ layouts' = layouts /\ job'.at = "idle" /\ job.at # "idle"
    BY DEF Die, NoJob
<1>2. JobPlaced' /\ LayoutsPlanned'
    BY <1>1, LayoutsPlannedKept DEF ToolsPlaced, JobPlaced
<1>3. CASE job.at = "write"
  <2>1. PICK x \in Flushed(File, out) : files' = [files EXCEPT ![job.cmd.dir][job.layer] = x]
    BY <1>3 DEF Die
  <2>2. File \in Seq(Cells) /\ out \in Seq(Cells) /\ job.layer \in Layers
    BY <1>3, WriteNow DEF TypeInv, FileTypes
  <2>3. Laid(out, job.cmd, DOMAIN job.input, job.layer)
    BY <1>3 DEF ToolsPlaced, JobPlaced, Partly
  <2>4. DOMAIN job.input \in SUBSET Experts
    BY <1>1, JobAsked
  <2>5. x \in Seq(Cells) /\ Laid(x, job.cmd, DOMAIN job.input, job.layer)
    BY <2>1, <2>2, <2>3, <2>4, FlushedTypes, PrefixLaid
  <2>6. FilesPlaced'
    BY <1>1, <2>1, <2>2, <2>5, FilesPlacedStep DEF ToolsPlaced
  <2>7. QED
    BY <1>2, <2>6 DEF ToolsPlaced
<1>4. CASE job.at # "write"
  <2>1. files' = files
    BY <1>4 DEF Die
  <2>2. \A cmd : Asked(cmd)' = Asked(cmd)
    BY <1>1 DEF Asked
  <2>3. FilesPlaced'
    BY <1>1, <2>1, <2>2 DEF ToolsPlaced, FilesPlaced
  <2>4. QED
    BY <1>2, <2>3 DEF ToolsPlaced
<1>5. QED
    BY <1>3, <1>4

LEMMA BeginPlaced ==
    ASSUME TypeInv, ToolsPlaced, NEW cmd \in config.jobs, Begin(cmd)
    PROVE  ToolsPlaced'
<1>1. /\ job'.at = "layer" /\ job'.cmd = cmd /\ entries' = <<>>
      /\ UNCHANGED <<config, files, layouts>>
      /\ cmd.kind = "repack" => job'.input = layouts[cmd.from]
    BY BeginDoes
<1>2. \A c : Asked(c)' = Asked(c)
    BY <1>1 DEF Asked
<1>3. FilesPlaced' /\ LayoutsPlanned'
    BY <1>1, <1>2, LayoutsPlannedKept DEF ToolsPlaced, FilesPlaced
<1>4. DOMAIN entries' = {}
    BY <1>1, EmptyLayout
<1>5. JobPlaced'
    BY <1>1, <1>4 DEF JobPlaced
<1>6. QED
    BY <1>3, <1>5 DEF ToolsPlaced

\* A layout that is made again is the same.
LEMMA PublishSame ==
    ASSUME TypeInv, WholeInv, OneWriter, ToolsPlaced, Publish
    PROVE  /\ config' = config /\ files' = files /\ job.at # "idle" /\ job'.at = "idle"
           /\ entries # None /\ layouts'[job.cmd.dir] = entries
           /\ entries = [e \in Asked(job.cmd) |-> Planned(job.cmd, Asked(job.cmd), e)]
           /\ \A d \in Dirs : /\ d # job.cmd.dir => layouts'[d] = layouts[d]
                              /\ layouts[d] # None => layouts'[d] = layouts[d]
<1>1. /\ job.at = "layer" /\ job.layers = {} /\ job' = NoJob
      /\ layouts' = [layouts EXCEPT ![job.cmd.dir] = entries] /\ UNCHANGED <<config, files>>
    BY DEF Publish
<1>2. /\ job.cmd \in config.jobs /\ job.cmd.dir \in Dirs /\ DOMAIN job.input = Asked(job.cmd)
    BY <1>1, JobAsked
<1>3. layouts \in [Dirs -> Layout \cup {None}] /\ entries \in Layout
    BY DEF TypeInv, ToolTypes
<1>4. entries # None
  <2>1. PICK S \in SUBSET Experts : entries \in [S -> Entries]
    BY <1>3 DEF Layout
  <2>2. QED
    BY <2>1, NoneAssumption
<1>5. DOMAIN entries = Asked(job.cmd) /\ job.experts = {}
    BY <1>1, <1>2 DEF TypeInv, JobInv
<1>6. entries = [e \in Asked(job.cmd) |-> Planned(job.cmd, Asked(job.cmd), e)]
  <2>1. \A e \in Asked(job.cmd) : entries[e] = Planned(job.cmd, Asked(job.cmd), e)
    BY <1>1, <1>2, <1>5 DEF ToolsPlaced, JobPlaced
  <2>2. entries = [e \in DOMAIN entries |-> entries[e]]
    BY <1>3, LayoutTypes
  <2>3. QED
    BY <1>5, <2>1, <2>2
<1>7. layouts[job.cmd.dir] # None => layouts[job.cmd.dir] = entries
    BY <1>2, <1>6 DEF ToolsPlaced, LayoutsPlanned
<1>8. /\ layouts'[job.cmd.dir] = entries
      /\ \A d \in Dirs : d # job.cmd.dir => layouts'[d] = layouts[d]
    BY <1>1, <1>2, <1>3
<1>9. job'.at = "idle" /\ job.at # "idle"
    BY <1>1 DEF NoJob
<1>10. QED
    BY <1>1, <1>4, <1>6, <1>7, <1>8, <1>9

LEMMA PublishPlaced ==
    ASSUME TypeInv, WholeInv, OneWriter, ToolsPlaced, Publish
    PROVE  ToolsPlaced'
<1>1. /\ config' = config /\ files' = files /\ job.at # "idle" /\ job'.at = "idle"
      /\ entries # None /\ layouts'[job.cmd.dir] = entries
      /\ entries = [e \in Asked(job.cmd) |-> Planned(job.cmd, Asked(job.cmd), e)]
      /\ \A d \in Dirs : /\ d # job.cmd.dir => layouts'[d] = layouts[d]
                         /\ layouts[d] # None => layouts'[d] = layouts[d]
    BY PublishSame
<1>2. /\ config \in Configs /\ job.cmd \in config.jobs /\ job.cmd.dir \in Dirs
      /\ job.cmd.kind = "repack" => layouts[job.cmd.from] # None
    BY <1>1, JobAsked
<1>3. ASSUME NEW cmd \in config.jobs, cmd.kind = "repack" => layouts[cmd.from] # None
      PROVE  /\ Asked(cmd)' = Asked(cmd)
             /\ cmd.kind = "repack" => layouts'[cmd.from] # None
  <2>1. cmd.kind = "build" \/ (cmd.kind = "repack" /\ cmd.from \in Dirs)
    BY <1>2, CommandTypes
  <2>2. cmd.kind = "repack" => layouts'[cmd.from] = layouts[cmd.from]
    BY <1>1, <1>3, <2>1
  <2>3. QED
    BY <1>3, <2>1, <2>2 DEF Asked
<1>4. FilesPlaced'
    BY <1>1, <1>3 DEF ToolsPlaced, FilesPlaced
<1>5. LayoutsPlanned'
  <2> SUFFICES ASSUME NEW d \in Dirs, layouts'[d] # None
               PROVE  /\ \E cmd \in config.jobs : cmd.dir = d
                      /\ \A cmd \in config.jobs : cmd.dir = d =>
                            layouts'[d] = [e \in Asked(cmd)' |-> Planned(cmd, Asked(cmd)', e)]
    BY <1>1 DEF LayoutsPlanned
  <2>1. CASE d = job.cmd.dir
    <3> SUFFICES ASSUME NEW cmd \in config.jobs, cmd.dir = d
                 PROVE  layouts'[d] = [e \in Asked(cmd)' |-> Planned(cmd, Asked(cmd)', e)]
        BY <1>2, <2>1
    <3>1. /\ Asked(cmd) = Asked(job.cmd)
          /\ \A D, e : Planned(cmd, D, e) = Planned(job.cmd, D, e)
        BY <1>2, <2>1, SamePlan
    <3>2. cmd.kind = "repack" => layouts[cmd.from] # None
        BY <1>2, <2>1, SameCommand
    <3>3. Asked(cmd)' = Asked(cmd)
        BY <1>3, <3>2
    <3>4. [e \in Asked(cmd)' |-> Planned(cmd, Asked(cmd)', e)]
          = [e \in Asked(job.cmd) |-> Planned(job.cmd, Asked(job.cmd), e)]
        BY <3>1, <3>3
    <3>5. QED
        BY <1>1, <2>1, <3>4
  <2>2. CASE d # job.cmd.dir
    <3>1. layouts'[d] = layouts[d] /\ layouts[d] # None
        BY <1>1, <2>2
    <3>2. ASSUME NEW cmd \in config.jobs, cmd.dir = d PROVE Asked(cmd)' = Asked(cmd)
      <4>1. cmd.kind = "repack" => layouts[cmd.from] # None
        BY <3>1, <3>2 DEF WholeInv
      <4>2. QED
        BY <1>3, <4>1
    <3>3. QED
        BY <3>1, <3>2 DEF ToolsPlaced, LayoutsPlanned
  <2>3. QED
    BY <2>1, <2>2
<1>6. JobPlaced'
    BY <1>1 DEF JobPlaced
<1>7. QED
    BY <1>4, <1>5, <1>6 DEF ToolsPlaced

LEMMA ToolsPlacedNext ==
    ASSUME TypeInv, WholeInv, OneWriter, ToolsPlaced, [Next]_vars
    PROVE  /\ ToolsPlaced' /\ config' = config
           /\ \A d \in Dirs : layouts[d] # None => layouts'[d] = layouts[d]
<1>1. CASE \E cmd \in config.jobs : Begin(cmd)
    BY <1>1, BeginPlaced DEF Begin
<1>2. CASE Writing
  <2>1. CASE Publish
    BY <2>1, PublishPlaced, PublishSame
  <2>2. CASE ~Publish
    <3>1. layouts' = layouts /\ config' = config
        BY <1>2, <2>2, WritingKeeps
    <3>2. ToolsPlaced'
        BY <1>2, <2>2, OpenLayerPlaced, NextExpertPlaced, WriteTensorPlaced, WriteBlockPlaced,
           CloseLayerPlaced DEF Writing
    <3>3. QED
        BY <3>1, <3>2
  <2>3. QED
    BY <2>1, <2>2
<1>3. CASE Die
    BY <1>3, DiePlaced DEF Die
<1>4. CASE UNCHANGED toolVars
  <2>1. \A c : Asked(c)' = Asked(c)
    BY <1>4 DEF Asked, toolVars
  <2>2. ToolsPlaced'
    BY <1>4, <2>1 DEF ToolsPlaced, LayoutsPlanned, FilesPlaced, JobPlaced, toolVars
  <2>3. QED
    BY <1>4, <2>2 DEF toolVars
<1>5. QED
    BY <1>1, <1>2, <1>3, <1>4, StepOfTools

-----------------------------------------------------------------------------
(* A read is right *)

\* A read ends within its file.
LEMMA PreadEnds ==
    ASSUME NEW file \in Seq(Cells), NEW n \in Nat, NEW offset \in Nat
    PROVE  ReadOf(Pread(file, n, offset), file, offset)
<1> DEFINE got == IF offset + n <= Len(file) THEN n
                  ELSE IF offset < Len(file) THEN Len(file) - offset ELSE 0
<1>1. Len(file) \in Nat
    BY LenProperties
<1>2. got \in Nat /\ (got # 0 => offset + got <= Len(file))
    BY <1>1
<1>3. Pread(file, n, offset) = [i \in 1..got |-> file[offset + i]]
    BY DEF Pread
<1>4. Len([i \in 1..got |-> file[offset + i]]) = got
    BY <1>2
<1> HIDE DEF got
<1>5. QED
    BY <1>2, <1>3, <1>4 DEF ReadOf

\* A tensor is read from where it is.
LEMMA TensorRead ==
    ASSUME NEW file \in Seq(Cells), NEW e \in Experts, NEW c \in Components, NEW at \in Nat,
           at + Size[c] <= Len(file), \A i \in 1..Size[c] : file[at + i] = <<e, c, i>>
    PROVE  Pread(file, Size[c], at) = Tensor(e, c)
<1>1. Pread(file, Size[c], at) = [i \in 1..Size[c] |-> file[at + i]]
    BY DEF Pread
<1>2. QED
    BY <1>1 DEF Tensor

\* What the reader reads is planned, and its file in place.
LEMMA EntryPlanned ==
    ASSUME TypeInv, WholeInv, OneWriter, ToolsPlaced, ReaderPlaced, reader.at \in {"read", "check"}
    PROVE  \E cmd \in config.jobs : \E D \in SUBSET Experts :
              /\ reader.expert \in D /\ Entry = Planned(cmd, D, reader.expert)
              /\ Opened \in Seq(Cells) /\ Laid(Opened, cmd, D, LayerOf[reader.expert])
<1>1. /\ reader.dir \in Dirs /\ reader.expert \in DOMAIN reader.layout
      /\ layouts[reader.dir] # None /\ reader.layout = layouts[reader.dir]
    BY DEF TypeInv, ReaderTypes, ReaderPlaced
<1>2. PICK cmd \in config.jobs : cmd.dir = reader.dir
    BY <1>1 DEF ToolsPlaced, LayoutsPlanned
<1>3. layouts[reader.dir] = [e \in Asked(cmd) |-> Planned(cmd, Asked(cmd), e)]
    BY <1>1, <1>2 DEF ToolsPlaced, LayoutsPlanned
<1>4. reader.expert \in Asked(cmd) /\ Entry = Planned(cmd, Asked(cmd), reader.expert)
    BY <1>1, <1>3 DEF Entry
<1>5. Asked(cmd) \in SUBSET Experts
  <2>1. layouts[reader.dir] \in Layout
    BY <1>1 DEF TypeInv, FileTypes
  <2>2. QED
    BY <1>3, <2>1, LayoutTypes
<1>6. Opened \in Seq(Cells)
    BY ReaderEntry
<1>7. Opened # None
    BY <1>6, NoneAssumption
<1>8. LayerOf[reader.expert] \in Layers
    BY <1>4, <1>5, LayersOfExperts
<1>9. Laid(Opened, cmd, Asked(cmd), LayerOf[reader.expert])
    BY <1>2, <1>7, <1>8 DEF ToolsPlaced, FilesPlaced, Opened
<1>10. QED
    BY <1>4, <1>5, <1>6, <1>9

LEMMA ReadSomePlaced ==
    ASSUME TypeInv, WholeInv, OneWriter, ToolsPlaced, ReaderPlaced, ReadSome
    PROVE  ReaderPlaced'
<1> DEFINE buffer == reader.buffer
           e == reader.expert
           at == Len(buffer)
           got == Pread(Opened, Entry.bytes - at, Entry.offset + at)
<1>1. /\ reader.at = "read" /\ UNCHANGED <<config, layouts>>
      /\ \E n \in (IF config.native THEN 1..Len(got) ELSE {Len(got)}) \ {0} :
             reader' = [reader EXCEPT !.buffer = @ \o SubSeq(got, 1, n),
                           !.at = IF config.native /\ at + n < Entry.bytes THEN "read" ELSE "check"]
    BY DEF ReadSome
<1>2. PICK cmd \in config.jobs : \E D \in SUBSET Experts :
              /\ e \in D /\ Entry = Planned(cmd, D, e)
              /\ Opened \in Seq(Cells) /\ Laid(Opened, cmd, D, LayerOf[e])
    BY <1>1, EntryPlanned
<1>3. PICK D \in SUBSET Experts :
              /\ e \in D /\ Entry = Planned(cmd, D, e)
              /\ Opened \in Seq(Cells) /\ Laid(Opened, cmd, D, LayerOf[e])
    BY <1>2
<1>4. reader \in Readers /\ Entry.offset \in Nat /\ Entry.bytes \in Nat
    BY <1>1, ReaderEntry
<1>5. buffer \in Seq(Cells) /\ at \in Nat /\ at <= Entry.bytes /\ Filled(buffer, e)
  <2>1. buffer \in Seq(Cells)
    BY <1>4 DEF Readers
  <2>2. QED
    BY <1>1, <2>1, LenProperties DEF TypeInv, ReaderTypes, ReaderPlaced
<1>6. Entry.bytes - at \in Nat /\ Entry.offset + at \in Nat
    BY <1>4, <1>5
<1>7. got \in Seq(Cells) /\ ReadOf(got, Opened, Entry.offset + at)
    BY <1>3, <1>6, PreadBrings, PreadEnds
<1>8. Entry.offset = Start(cmd, D, e)
    BY <1>3 DEF Planned
<1>9. Len(got) \in Nat
    BY <1>7, LenProperties
<1> DEFINE file == Opened
           s == Start(cmd, D, e)
<1> HIDE DEF at, got, file, e, buffer, s
<1>10. PICK n \in Nat :
          /\ n <= Len(got) /\ n # 0
          /\ reader' = [reader EXCEPT !.buffer = @ \o SubSeq(got, 1, n),
                           !.at = IF config.native /\ at + n < Entry.bytes THEN "read" ELSE "check"]
  <2>1. PICK n \in (IF config.native THEN 1..Len(got) ELSE {Len(got)}) \ {0} :
            reader' = [reader EXCEPT !.buffer = @ \o SubSeq(got, 1, n),
                           !.at = IF config.native /\ at + n < Entry.bytes THEN "read" ELSE "check"]
    BY <1>1
  <2>2. n \in Nat /\ n <= Len(got) /\ n # 0
    BY <1>9
  <2>3. QED
    BY <2>1, <2>2
<1> DEFINE data == SubSeq(got, 1, n)
<1>11. data \in Seq(Cells) /\ Len(data) = n /\ \A i \in 1..n : data[i] = got[i]
  <2>1. \A i \in 1..n : got[i] \in Cells
    BY <1>7, <1>9, <1>10
  <2>2. QED
    BY <1>10, <2>1, SubSeqProperties
<1> HIDE DEF data
<1>12. ReadOf(data, file, s + at)
  <2>1. Entry.offset + at = s + at /\ s \in Nat
    BY <1>4, <1>8 DEF s
  <2>2. /\ \A i \in 1..Len(got) : got[i] = file[s + at + i]
        /\ Len(got) # 0 => s + at + Len(got) <= Len(file)
    BY <1>7, <2>1 DEF ReadOf, file
  <2>3. Len(file) \in Nat
    BY <1>3, LenProperties DEF file
  <2>4. s + at + n <= Len(file)
    BY <1>5, <1>9, <1>10, <2>1, <2>2, <2>3
  <2>5. \A i \in 1..n : data[i] = file[s + at + i]
    BY <1>9, <1>10, <1>11, <2>2
  <2>6. QED
    BY <1>11, <2>4, <2>5 DEF ReadOf
<1>13. Filled(buffer \o data, e)
  <2>1. /\ file \in Seq(Cells) /\ e \in D /\ Laid(file, cmd, D, LayerOf[e])
        /\ ReadOf(data, file, Start(cmd, D, e) + Len(buffer))
    BY <1>3, <1>12 DEF file, s, at
  <2>2. QED
    BY <1>5, <1>11, <2>1, FilledMore
<1>14. /\ reader'.buffer = buffer \o data /\ reader'.expert = e /\ reader'.dir = reader.dir
       /\ reader'.layout = reader.layout /\ reader'.at \in {"read", "check"}
    BY <1>4, <1>10 DEF Readers, buffer, data, e
<1>15. QED
    BY <1>1, <1>13, <1>14 DEF ReaderPlaced

LEMMA CheckReadPlaced ==
    ASSUME TypeInv, WholeInv, OneWriter, ToolsPlaced, ReaderPlaced, CheckRead
    PROVE  ReaderPlaced'
<1>1. reader.at = "check" /\ UNCHANGED <<config, layouts>>
    BY DEF CheckRead
<1>2. reader \in Readers
    BY <1>1, ReaderEntry
<1>3. CASE Len(reader.buffer) # Entry.bytes
  <2>1. reader' = Waiting
    BY <1>3 DEF CheckRead
  <2>2. reader'.dir = reader.dir /\ reader'.layout = reader.layout /\ reader'.at = "open"
    BY <2>1 DEF Waiting, NoReader
  <2>3. QED
    BY <1>1, <2>2 DEF ReaderPlaced
<1>4. CASE Len(reader.buffer) = Entry.bytes
  <2> DEFINE buffer == reader.buffer
             e == reader.expert
             result == [c \in DOMAIN Entry.tensors |->
                           Pread(buffer, Entry.tensors[c].bytes, Entry.tensors[c].offset)]
  <2>1. reader' = [reader EXCEPT !.at = "done", !.buffer = <<>>, !.result = result]
    BY <1>4 DEF CheckRead
  <2>2. PICK cmd \in config.jobs : \E D \in SUBSET Experts :
              /\ e \in D /\ Entry = Planned(cmd, D, e)
              /\ Opened \in Seq(Cells) /\ Laid(Opened, cmd, D, LayerOf[e])
    BY <1>1, EntryPlanned
  <2>3. e \in Experts /\ Entry.bytes = Weight(Components) /\ Entry.tensors = Inside
    BY <2>2 DEF Planned
  <2>4. buffer \in Seq(Cells) /\ Filled(buffer, e)
    BY <1>1, <1>2 DEF Readers, ReaderPlaced
  <2> HIDE DEF buffer, e
  <2>5. ASSUME NEW c \in Components PROVE result[c] = Tensor(e, c)
    <3>1. result[c] = Pread(buffer, Size[c], Inner(c))
        BY <2>3 DEF Inside
    <3>2. /\ Inner(c) \in Nat /\ Size[c] \in Nat /\ Weight(Components) \in Nat
          /\ Inner(c) + Size[c] <= Weight(Components)
        BY <2>3, InnerApart
    <3>3. Len(buffer) = Weight(Components)
        BY <1>4, <2>3 DEF buffer
    <3> DEFINE k == Inner(c)
               n == Len(buffer)
               m == Size[c]
    <3>4. \A i \in 1..m : k + i <= n => buffer[k + i] = <<e, c, i>>
        BY <2>4 DEF Filled
    <3>5. k \in Nat /\ m \in Nat /\ n \in Nat /\ k + m <= n
        BY <3>2, <3>3
    <3> HIDE DEF k, n, m
    <3>6. \A i \in 1..m : buffer[k + i] = <<e, c, i>>
        BY <3>4, <3>5
    <3>7. Pread(buffer, Size[c], k) = Tensor(e, c)
        BY <2>3, <2>4, <3>5, <3>6, TensorRead DEF n, m
    <3>8. QED
        BY <3>1, <3>7 DEF k
  <2> HIDE DEF result
  <2>6. /\ reader'.dir = reader.dir /\ reader'.layout = reader.layout /\ reader'.at = "done"
        /\ reader'.expert = e /\ reader'.result = result
    BY <1>2, <2>1 DEF Readers, e
  <2>7. QED
    BY <1>1, <2>5, <2>6 DEF ReaderPlaced
<1>5. QED
    BY <1>3, <1>4

LEMMA FallBackPlaced ==
    ASSUME TypeInv, ReaderPlaced, NEW e \in Experts, FallBack(e)
    PROVE  ReaderPlaced'
<1> DEFINE result == [c \in Components |-> Pread(Shard, Size[c], SourceOf[<<e, c>>])]
<1>1. /\ reader \in Readers /\ reader.at = "open" /\ UNCHANGED <<config, layouts>>
      /\ reader' = [reader EXCEPT !.at = "done", !.expert = e, !.result = result]
    BY DEF FallBack, TypeInv, ReaderTypes
<1>2. \A c \in Components : result[c] = Tensor(e, c)
  <2>1. ASSUME NEW c \in Components PROVE Pread(Shard, Size[c], SourceOf[<<e, c>>]) = Tensor(e, c)
    <3>1. /\ Shard \in Seq(Cells) /\ SourceOf[<<e, c>>] \in Nat
          /\ SourceOf[<<e, c>>] + Size[c] <= Len(Shard)
          /\ \A i \in 1..Size[c] : Shard[SourceOf[<<e, c>>] + i] = <<e, c, i>>
        BY ShardAssumption
    <3>2. QED
        BY <3>1, TensorRead
  <2>2. QED
    BY <2>1
<1> HIDE DEF result
<1>3. /\ reader'.dir = reader.dir /\ reader'.layout = reader.layout /\ reader'.at = "done"
      /\ reader'.expert = e /\ reader'.result = result
    BY <1>1 DEF Readers
<1>4. QED
    BY <1>1, <1>2, <1>3 DEF ReaderPlaced

\* The reader waits, or has begun a read.
LEMMA RestPlaced ==
    ASSUME TypeInv, ReaderPlaced, UNCHANGED layouts,
           \/ \E d \in Dirs : OpenStore(d)
           \/ \E e \in Experts : Ask(e)
           \/ ReadNothing \/ Return \/ CloseStore
    PROVE  ReaderPlaced'
<1>1. reader \in Readers
    BY DEF TypeInv, ReaderTypes
<1>2. ASSUME NEW d \in Dirs, OpenStore(d) PROVE ReaderPlaced'
  <2>1. /\ reader'.dir = d /\ reader'.layout = layouts[d] /\ reader'.at = "open"
        /\ layouts[d] # None
    BY <1>2 DEF OpenStore, NoReader
  <2>2. QED
    BY <2>1 DEF ReaderPlaced
<1>3. ASSUME NEW e \in Experts, Ask(e) PROVE ReaderPlaced'
  <2>1. /\ reader'.dir = reader.dir /\ reader'.layout = reader.layout /\ reader'.at = "read"
        /\ reader'.expert = e /\ reader'.buffer = <<>> /\ reader.at = "open"
    BY <1>1, <1>3 DEF Ask, Readers
  <2>2. QED
    BY <2>1, FilledNone DEF ReaderPlaced
<1>4. CASE ReadNothing
  <2>1. /\ reader'.dir = reader.dir /\ reader'.layout = reader.layout /\ reader'.at = "check"
        /\ reader'.expert = reader.expert /\ reader'.buffer = reader.buffer /\ reader.at = "read"
    BY <1>1, <1>4 DEF ReadNothing, Readers
  <2>2. QED
    BY <2>1 DEF ReaderPlaced
<1>5. CASE Return
  <2>1. /\ reader'.dir = reader.dir /\ reader'.layout = reader.layout /\ reader'.at = "open"
        /\ reader.at = "done"
    BY <1>5 DEF Return, Waiting, NoReader
  <2>2. QED
    BY <2>1 DEF ReaderPlaced
<1>6. CASE CloseStore
  <2>1. reader'.at = "closed"
    BY <1>6 DEF CloseStore, NoReader
  <2>2. QED
    BY <2>1 DEF ReaderPlaced
<1>7. QED
    BY <1>2, <1>3, <1>4, <1>5, <1>6

LEMMA PlacedNext ==
    ASSUME TypeInv, WholeInv, PlacedInv, [Next]_vars
    PROVE  PlacedInv'
<1>1. config' = config
    BY StepOfTools, WritingKeeps, DieKeeps DEF Begin, toolVars
<1>2. OneWriter' = OneWriter
    BY <1>1 DEF OneWriter
<1> SUFFICES ASSUME OneWriter PROVE ToolsPlaced' /\ ReaderPlaced'
    BY <1>2 DEF PlacedInv
<1>3. ToolsPlaced /\ ReaderPlaced
    BY DEF PlacedInv
<1>4. ToolsPlaced' /\ \A d \in Dirs : layouts[d] # None => layouts'[d] = layouts[d]
    BY <1>3, ToolsPlacedNext
<1>5. CASE UNCHANGED reader
  <2>1. reader.at # "closed" => reader.dir \in Dirs
    BY DEF TypeInv, ReaderTypes
  <2>2. ReaderPlaced'
    BY <1>3, <1>4, <1>5, <2>1 DEF ReaderPlaced, Filled
  <2>3. QED
    BY <1>4, <2>2
<1>6. CASE ~UNCHANGED reader
  <2>1. \/ \E d \in Dirs : OpenStore(d)
        \/ \E e \in Experts : Ask(e) \/ FallBack(e)
        \/ ReadSome \/ ReadNothing \/ CheckRead \/ Return \/ CloseStore
    BY <1>6 DEF Next, vars, Begin, Writing, OpenLayer, NextExpert, WriteTensor, WriteBlock, CloseLayer,
                Publish, Die, Reading
  <2>2. UNCHANGED layouts
    BY <2>1 DEF OpenStore, Ask, FallBack, ReadSome, ReadNothing, CheckRead, Return, CloseStore
  <2>3. ReaderPlaced'
    BY <1>3, <2>1, <2>2, RestPlaced, FallBackPlaced, ReadSomePlaced, CheckReadPlaced
  <2>4. QED
    BY <1>4, <2>3
<1>7. QED
    BY <1>5, <1>6

LEMMA InitPlaced == Init => PlacedInv
<1> SUFFICES ASSUME Init PROVE ToolsPlaced /\ ReaderPlaced
    BY DEF PlacedInv
<1>1. ReaderPlaced
    BY DEF Init, NoReader, ReaderPlaced
<1>2. LayoutsPlanned
    BY DEF Init, LayoutsPlanned
<1>3. JobPlaced
    BY DEF Init, NoJob, JobPlaced
<1>4. FilesPlaced
  <2>1. \A cmd \in config.jobs : cmd.dir \in Dirs
    BY CommandTypes DEF Init
  <2>2. QED
    BY <2>1 DEF Init, FilesPlaced
<1>5. QED
    BY <1>1, <1>2, <1>3, <1>4 DEF ToolsPlaced

\* Whatever is stopped, made again or cut short under a running server: an expert that
\* tensors_for_expert returns is that expert, tensor by tensor, as the checkpoint has it,
\* when each directory is always made by the same command (PackedExpertStore in
\* lazy_official_runtime.py, build_layout and the repack's main).
THEOREM StoreReadsRight == Spec => []ReadsRight
<1>1. Init => TypeInv /\ WholeInv /\ PlacedInv
    BY InitTypes, InitRight, InitPlaced DEF RightInv
<1>2. TypeInv /\ WholeInv /\ PlacedInv /\ [Next]_vars => (TypeInv /\ WholeInv /\ PlacedInv)'
    BY NextTypes, WholeNext, PlacedNext
<1>3. PlacedInv => ReadsRight
    BY DEF PlacedInv, ReaderPlaced, ReadsRight
<1>4. QED
    BY <1>1, <1>2, <1>3, PTL DEF Spec
=============================================================================
