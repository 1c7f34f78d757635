----------------------------- MODULE Q4Release -----------------------------
(***************************************************************************)
(* Release bundles (release/serialization.py, release/runtime.py and       *)
(* scripts/export_release.py): exporters that write a bundle into a        *)
(* temporary directory, remove the release that is there and rename theirs *)
(* into its place; a reader that opens the files of the output directory   *)
(* one after the other; kills between any two filesystem calls.            *)
(*                                                                         *)
(* A tensor is a sequence of integers (its flattened values); its          *)
(* dequantised form counts sevenths, so that a scale amax / 7 is exact:    *)
(* the rounding of scales to float16 is left out.  A digest is the content *)
(* it is the digest of.                                                    *)
(***************************************************************************)
EXTENDS Integers, FiniteSets, SequencesExt

CONSTANTS
  Exports,         \* numbers of the export processes; also names the directory each writes
  Pids,            \* process ids, used again after a process has ended
  States,          \* state dicts to export: name -> [float, data]
  GroupSize,       \* --group-size
  SensitiveNames,  \* names that contain one of sensitive_patterns
  SafeName,        \* function from names to keys: _safe_name
  ModelNames,      \* parameters and buffers of the model a release is loaded into
  LinearModules,   \* modules of it that are nn.Linear
  MaxKills,        \* bound on killed exporters
  NONE

ASSUME GroupAssumption == GroupSize \in Nat \ {0}  \* serialization.py:31-32
ASSUME KillAssumption == MaxKills \in Nat /\ NONE \notin Exports
ASSUME StatesAssumption ==                         \* serialization.py:116-117
  \A s \in States :
    DOMAIN s # {} /\ \A n \in DOMAIN s : s[n].float \in BOOLEAN /\ s[n].data \in Seq(Int)
ASSUME NoneAssumption == NONE \notin Pids /\ NONE \notin States

\* A name is <<module, leaf>>.
Names == UNION {DOMAIN s : s \in States}
Files == {"model", "config", "quant", "runtime", "checksums"}
FileOrder == <<"model", "config", "quant", "runtime", "checksums">>

VARIABLES
  dirs,      \* export -> files in the directory it made: name -> content
  output,    \* the export whose directory is at the output path, or NONE
  tmp,       \* pid -> the export whose directory is at .name.tmp-pid, or NONE
  exporter,  \* export -> [pc, pid, state, listing, victim]
  reader,    \* [pc, kind, digests, manifest, tensors, params]
  kills

vars == <<dirs, output, tmp, exporter, reader, kills>>

-----------------------------------------------------------------------------
(* Group-wise int4 packing. *)

Abs(x) == IF x < 0 THEN -x ELSE x

RoundHalfEven(n, d) ==
  LET q == n \div d
      r == 2 * (n % d)
  IN  IF r > d \/ (r = d /\ q % 2 = 1) THEN q + 1 ELSE q

Clamp(x, low, high) == IF x < low THEN low ELSE IF x > high THEN high ELSE x

PaddedLength(n) ==
  IF n = 0 THEN GroupSize ELSE ((n + GroupSize - 1) \div GroupSize) * GroupSize

\* The group of element i (both counted from 1).
GroupOf(i) == (i - 1) \div GroupSize + 1

\* The largest magnitude of each group: seven times its scale.
Amax(data) ==
  [g \in 1 .. PaddedLength(Len(data)) \div GroupSize |->
     Max({0} \cup {Abs(data[i]) : i \in {j \in DOMAIN data : GroupOf(j) = g}})]

\* A group of zeros has the scale 1e-8 / 7 and quantises to zeros.
Quantized(data) ==
  LET amax == Amax(data)
  IN  [i \in 1 .. PaddedLength(Len(data)) |->
         IF i > Len(data) \/ amax[GroupOf(i)] = 0 THEN 8
         ELSE Clamp(RoundHalfEven(7 * data[i], amax[GroupOf(i)]), -8, 7) + 8]

Nibbles(data) ==
  LET q == Quantized(data)
  IN  IF Len(q) % 2 = 1 THEN Append(q, 0) ELSE q

PackedBytes(data) ==
  LET n == Nibbles(data)
  IN  [j \in 1 .. Len(n) \div 2 |-> n[2 * j - 1] + 16 * n[2 * j]]

Unpacked(packed, scales, entry) ==
  [i \in 1 .. entry.numel |->
     LET byte == packed[(i + 1) \div 2]
         nibble == IF i % 2 = 1 THEN byte % 16 ELSE byte \div 16
     IN  (nibble - 8) * scales[GroupOf(i)]]

-----------------------------------------------------------------------------
(* What a bundle holds. *)

IsQuantized(s, n) == s[n].float /\ n \notin SensitiveNames

EntryOf(s, n) ==
  IF IsQuantized(s, n)
  THEN [storage |-> "q4", numel |-> Len(s[n].data),
        keys |-> {<<"q4", SafeName[n]>>, <<"scale", SafeName[n]>>}]
  ELSE [storage |-> "native", numel |-> Len(s[n].data), keys |-> {<<"fp", SafeName[n]>>}]

\* Later names overwrite the keys of earlier ones; for equal keys any order is possible.
OwnerOf(s, key) == CHOOSE n \in DOMAIN s : key \in EntryOf(s, n).keys

ContentOf(key, data) ==
  CASE key[1] = "q4" -> PackedBytes(data)
    [] key[1] = "scale" -> Amax(data)
    [] OTHER -> [i \in DOMAIN data |-> 7 * data[i]]

TensorsOf(s) ==
  [key \in UNION {EntryOf(s, n).keys : n \in DOMAIN s} |->
     ContentOf(key, s[OwnerOf(s, key)].data)]

ManifestOf(s) == [n \in DOMAIN s |-> EntryOf(s, n)]

FileContent(s, f) ==
  CASE f = "model" -> TensorsOf(s)
    [] f = "quant" -> ManifestOf(s)
    [] OTHER -> f

\* The value an entry of a manifest stands for, given a file of tensors.
ValueOf(tensors, n, entry) ==
  IF entry.storage = "q4"
  THEN Unpacked(tensors[<<"q4", SafeName[n]>>], tensors[<<"scale", SafeName[n]>>], entry)
  ELSE tensors[<<"fp", SafeName[n]>>]

Referenced(manifest) == UNION {manifest[n].keys : n \in DOMAIN manifest}

\* inspect_q4_bundle: every file, every digest, every reference, nothing unreferenced.
Inspects(files) ==
  /\ Files \subseteq DOMAIN files
  /\ \A f \in DOMAIN files["checksums"] : f \in DOMAIN files /\ files["checksums"][f] = files[f]
  /\ DOMAIN files["quant"] # {}
  /\ DOMAIN files["model"] = Referenced(files["quant"])

-----------------------------------------------------------------------------
(* load_q4_runtime, once the files are in memory: modules of the model are *)
(* replaced or written in the order of the entries; any test that fails    *)
(* raises.                                                                 *)

WeightOf(module) == <<module, "weight">>
BiasOf(module) == <<module, "bias">>

LinearLoads(manifest, n) ==
  /\ n \in ModelNames /\ n[1] \in LinearModules
  /\ BiasOf(n[1]) \in DOMAIN manifest => manifest[BiasOf(n[1])].storage = "native"

EntryLoads(manifest, n) ==
  IF manifest[n].storage = "q4" /\ n[2] = "weight"
  THEN LinearLoads(manifest, n)
  ELSE \* the bias of a packed linear goes to its replacement, whether the model had one or not
       n \in ModelNames \/ (n[2] = "bias" /\ WeightOf(n[1]) \in DOMAIN manifest
                            /\ manifest[WeightOf(n[1])].storage = "q4")

\* Mutant: what the manifest does not mention is not looked for.
RuntimeLoadsAny(manifest, tensors) ==
  /\ Referenced(manifest) \subseteq DOMAIN tensors
  /\ \A n \in DOMAIN manifest : EntryLoads(manifest, n)

RuntimeLoads(manifest, tensors) ==
  /\ DOMAIN manifest # {}
  /\ Referenced(manifest) \subseteq DOMAIN tensors
  /\ \A n \in DOMAIN manifest : EntryLoads(manifest, n)
  /\ DOMAIN tensors \subseteq Referenced(manifest)

BundleLoads(manifest, tensors) == Referenced(manifest) \subseteq DOMAIN tensors

Loads(kind, manifest, tensors) ==
  IF kind = "runtime" THEN RuntimeLoads(manifest, tensors) ELSE BundleLoads(manifest, tensors)

Loaded(manifest, tensors) ==
  [n \in DOMAIN manifest |-> ValueOf(tensors, n, manifest[n])]

-----------------------------------------------------------------------------
(* Exporters. *)

IdleExporter == [pc |-> "idle", pid |-> NONE, state |-> NONE, listing |-> {}, victim |-> NONE]
IdleReader == [pc |-> "idle", kind |-> NONE, digests |-> NONE, manifest |-> NONE,
               tensors |-> NONE, params |-> NONE]

Running(e) == exporter[e].pc \notin {"idle", "refused", "failed", "killed", "done"}
NoFiles == [f \in {} |-> NONE]

Init ==
  /\ dirs = [e \in Exports |-> NoFiles]
  /\ output = NONE
  /\ tmp = [p \in Pids |-> NONE]
  /\ exporter = [e \in Exports |-> IdleExporter]
  /\ reader = IdleReader
  /\ kills = 0

GoTo(e, label) == exporter' = [exporter EXCEPT ![e].pc = label]

\* Mutant: the old release is removed to make room for the new one.
BeginExportRemoving(e, pid, s, force) ==
  /\ exporter[e].pc = "idle"
  /\ \A o \in Exports : Running(o) => exporter[o].pid # pid
  /\ output = NONE \/ force
  /\ exporter' = [exporter EXCEPT ![e].pc = "write", ![e].pid = pid, ![e].state = s]
  /\ tmp' = [tmp EXCEPT ![pid] = e]
  /\ dirs' = IF output = NONE THEN dirs ELSE [dirs EXCEPT ![output] = NoFiles]
  /\ UNCHANGED <<output, reader, kills>>

\* The name is tested, a directory left under this pid is deleted, a new one made.
BeginExport(e, pid, s, force) ==
  /\ exporter[e].pc = "idle"
  /\ \A o \in Exports : Running(o) => exporter[o].pid # pid
  /\ IF output # NONE /\ ~ force
     THEN GoTo(e, "refused") /\ UNCHANGED <<dirs, tmp>>
     ELSE /\ exporter' = [exporter EXCEPT ![e].pc = "write", ![e].pid = pid, ![e].state = s]
          /\ tmp' = [tmp EXCEPT ![pid] = e]
          /\ dirs' = IF tmp[pid] = NONE THEN dirs ELSE [dirs EXCEPT ![tmp[pid]] = NoFiles]
  /\ UNCHANGED <<output, reader, kills>>

\* One file after the other, checksums.json last.
WriteFile(e) ==
  /\ exporter[e].pc = "write"
  /\ LET f == FileOrder[Cardinality(DOMAIN dirs[e]) + 1]
         content == IF f = "checksums" THEN dirs[e] ELSE FileContent(exporter[e].state, f)
     IN  /\ dirs' = [dirs EXCEPT ![e] = [g \in DOMAIN dirs[e] \cup {f} |->
                                           IF g = f THEN content ELSE dirs[e][g]]]
         /\ IF f = "checksums" THEN GoTo(e, "publish") ELSE UNCHANGED exporter
  /\ UNCHANGED <<output, tmp, reader, kills>>

\* if output.exists(): shutil.rmtree(output), which lists the directory and then deletes.
FindOld(e) ==
  /\ exporter[e].pc = "publish"
  /\ IF output = NONE
     THEN GoTo(e, "rename")
     ELSE exporter' = [exporter EXCEPT ![e].pc = "remove", ![e].victim = output,
                                       ![e].listing = DOMAIN dirs[output]]
  /\ UNCHANGED <<dirs, output, tmp, reader, kills>>

\* A file another exporter has deleted first raises.
RemoveFile(e) ==
  /\ exporter[e].pc = "remove"
  /\ \E f \in exporter[e].listing :
       LET victim == exporter[e].victim
       IN  IF f \in DOMAIN dirs[victim]
           THEN /\ dirs' = [dirs EXCEPT ![victim] =
                              [g \in DOMAIN dirs[victim] \ {f} |-> dirs[victim][g]]]
                /\ exporter' = [exporter EXCEPT ![e].listing = @ \ {f}]
           ELSE GoTo(e, "failed") /\ UNCHANGED dirs
  /\ UNCHANGED <<output, tmp, reader, kills>>

\* rmdir of the path and os.replace onto it both need it to be free of files.
PathIsFree == output = NONE \/ DOMAIN dirs[output] = {}

RemoveDirectory(e) ==
  /\ exporter[e].pc = "remove" /\ exporter[e].listing = {}
  /\ IF output # NONE /\ PathIsFree
     THEN output' = NONE /\ GoTo(e, "rename")
     ELSE GoTo(e, "failed") /\ UNCHANGED output
  /\ UNCHANGED <<dirs, tmp, reader, kills>>

Rename(e) ==
  /\ exporter[e].pc = "rename"
  /\ IF PathIsFree
     THEN /\ output' = e
          /\ tmp' = [tmp EXCEPT ![exporter[e].pid] = NONE]
          /\ GoTo(e, "validate")
     ELSE GoTo(e, "failed") /\ UNCHANGED <<output, tmp>>
  /\ UNCHANGED <<dirs, reader, kills>>

\* The fresh interpreter inspects whatever is at the path.
Validate(e) ==
  /\ exporter[e].pc = "validate"
  /\ GoTo(e, IF output # NONE /\ Inspects(dirs[output]) THEN "done" ELSE "failed")
  /\ UNCHANGED <<dirs, output, tmp, reader, kills>>

Kill(e) ==
  /\ Running(e) /\ kills < MaxKills
  /\ GoTo(e, "killed")
  /\ kills' = kills + 1
  /\ UNCHANGED <<dirs, output, tmp, reader>>

-----------------------------------------------------------------------------
(* A reader: load_q4_bundle or load_q4_runtime. *)

HasFile(f) == output # NONE /\ f \in DOMAIN dirs[output]

Read(next) == reader' = next /\ UNCHANGED <<dirs, output, tmp, exporter, kills>>
Raised == [IdleReader EXCEPT !.pc = "raised"]

\* load_q4_runtime first asks for the manifest; the digests are optional.
OpenDigests(kind) ==
  /\ reader.pc = "idle" /\ output # NONE
  /\ Read(IF kind = "runtime" /\ ~ HasFile("quant") THEN Raised
          ELSE [reader EXCEPT !.kind = kind,
                              !.pc = IF HasFile("checksums") THEN "digest" ELSE "manifest",
                              !.digests = IF HasFile("checksums") THEN dirs[output]["checksums"]
                                          ELSE NONE])

CheckDigest ==
  /\ reader.pc = "digest"
  /\ Read(IF HasFile("model") /\ dirs[output]["model"] = reader.digests["model"]
          THEN [reader EXCEPT !.pc = "manifest", !.digests = NONE] ELSE Raised)

ReadManifest ==
  /\ reader.pc = "manifest"
  /\ Read(IF HasFile("quant")
          THEN [reader EXCEPT !.pc = "tensors", !.manifest = dirs[output]["quant"]] ELSE Raised)

ReadTensors ==
  /\ reader.pc = "tensors"
  /\ Read(IF HasFile("model") /\ Loads(reader.kind, reader.manifest, dirs[output]["model"])
          THEN [reader EXCEPT !.pc = "loaded", !.manifest = NONE,
                              !.params = Loaded(reader.manifest, dirs[output]["model"])]
          ELSE Raised)

CloseReader == reader.pc \in {"loaded", "raised"} /\ Read(IdleReader)

ExporterStep(e) ==
  \/ \E pid \in Pids, s \in States, force \in BOOLEAN : BeginExport(e, pid, s, force)
  \/ WriteFile(e) \/ FindOld(e) \/ RemoveFile(e) \/ RemoveDirectory(e) \/ Rename(e)
  \/ Validate(e) \/ Kill(e)

ReaderStep ==
  \/ \E kind \in {"bundle", "runtime"} : OpenDigests(kind)
  \/ CheckDigest \/ ReadManifest \/ ReadTensors \/ CloseReader

Next == (\E e \in Exports : ExporterStep(e)) \/ ReaderStep

Spec == Init /\ [][Next]_vars

-----------------------------------------------------------------------------
(* The exports are of one model: the states agree in the type and size of  *)
(* the tensors they share, and _safe_name keeps their names apart, which   *)
(* the code does not check.                                                *)
OneModel ==
  /\ \A m, n \in Names : SafeName[m] = SafeName[n] => m = n
  /\ \A s, t \in States : \A n \in DOMAIN s \cap DOMAIN t :
       s[n].float = t[n].float /\ Len(s[n].data) = Len(t[n].data)

(* Every value of a state within half a step of its group's scale; natives *)
(* exactly.                                                                *)
CloseTo(s, n, value) ==
  /\ Len(value) = Len(s[n].data)
  /\ \A i \in DOMAIN value :
       2 * Abs(7 * s[n].data[i] - value[i])
         <= IF IsQuantized(s, n) THEN Amax(s[n].data)[GroupOf(i)] ELSE 0

\* What a load returns was exported by one process, whatever was replaced,
\* removed or killed while it read: every value is that of one exported state
\* to within half a quantisation step, and the runtime gets all of that state.
LoadedIsOneExport ==
  reader.pc = "loaded" =>
    \E e \in Exports :
      /\ exporter[e].state # NONE
      /\ DOMAIN reader.params \subseteq DOMAIN exporter[e].state
      /\ reader.kind = "runtime" => DOMAIN reader.params = DOMAIN exporter[e].state
      /\ \A n \in DOMAIN reader.params : CloseTo(exporter[e].state, n, reader.params[n])

\* A file is taken out of the release at the output path only by an exporter
\* whose own bundle is already complete, so that a kill during the replacement
\* leaves a whole one on the disk.
RemovedForAWholeOne ==
  [][\A o \in Exports :
       output = o /\ DOMAIN dirs[o]' # DOMAIN dirs[o] =>
         \E e \in Exports : exporter[e].victim = o /\ e # o /\ Inspects(dirs[e])]_vars

=============================================================================
