------------------------------- MODULE ToolFiles -------------------------------
(* The YAML files of business tools: what the start loads, what makes it stop,  *)
(* and what validate-tools says of the same files beforehand. A tool's own      *)
(* checks (placeholders, read-only rules, system, allowlist) depend on that     *)
(* tool only and are one bit; names, masks and lengths reach across files.      *)
(* Files: src/customTools/{loader,schema}.ts, src/cli.ts                        *)
EXTENDS Naturals, Sequences, Functions

CONSTANTS
    FileSet,        \* what a file can hold
    MaxFiles,       \* bound: files listed
    BuiltIn,        \* names of built-in tools
    MaxText,        \* MAX_INSTRUCTIONS_LENGTH
    Together,       \* stands for an error that names no single file
    NoError

ASSUME FilesAssumption ==
    /\ MaxFiles \in Nat /\ MaxText \in Nat /\ Together # NoError
    /\ \A file \in FileSet : file.path # NoError /\ file.text \in Nat
                            /\ file.tools \in Seq(Range(file.tools))

VARIABLES
    files,          \* the files of the paths given, in order; a file may be listed twice
    renaming,       \* the driver's options rename result columns
    startup,        \* loadCustomToolsFromEnv()
    validation      \* validate-tools

fileSetVars == <<files, renaming, startup, validation>>

(* A file: path, does it parse against the schema, its tools (name, passes its  *)
(* own checks, columns it selects plainly, columns it uses otherwise), tables   *)
(* it annotates, columns it masks, length of its instructions.                  *)
NotRun == [run |-> FALSE]

-----------------------------------------------------------------------------
(* loadCustomTools(): the first error ends it *)

NothingLoaded == [error |-> NoError, tools |-> <<>>, annotations |-> {}, masks |-> {}, text |-> 0]

Taken(loaded) == BuiltIn \cup {tool.name : tool \in Range(loaded.tools)}

(* What the schema, checkTool() and the loop over the files ask of the next file: *)
(* no tool has the name of a built-in tool or of a tool before it, and no         *)
(* annotation or mask is another file's                                           *)
Fits(loaded, file) ==
    /\ file.sound /\ file.text <= MaxText
    /\ \A tool \in Range(file.tools) : tool.valid /\ tool.name \notin Taken(loaded)
    /\ \A j, k \in DOMAIN file.tools : j # k => file.tools[j].name # file.tools[k].name
    /\ file.annotations \cap loaded.annotations = {} /\ file.masks \cap loaded.masks = {}

AddFile(loaded, file) ==
    IF loaded.error # NoError THEN loaded
    ELSE IF ~Fits(loaded, file)
    THEN [loaded EXCEPT !.error = file.path]
    ELSE [error |-> NoError,
          tools |-> loaded.tools \o [j \in DOMAIN file.tools |->
                        [name |-> file.tools[j].name, path |-> file.path, plain |-> file.tools[j].plain,
                         buried |-> file.tools[j].buried, masked |-> {}]],
          annotations |-> loaded.annotations \cup file.annotations,
          masks |-> loaded.masks \cup file.masks,
          text |-> loaded.text + file.text]

(* What is known after each file *)
ReadFiles(list) ==
    LET read[i \in 0..Len(list)] == IF i = 0 THEN NothingLoaded ELSE AddFile(read[i - 1], list[i])
    IN  read

(* checkMaskedColumns(): a masked column may only be selected plainly. All     *)
(* files have been read, so the masks of later files count.                    *)
SetMasks(loaded) ==
    [loaded EXCEPT !.tools = [j \in DOMAIN loaded.tools |->
        [loaded.tools[j] EXCEPT !.masked = loaded.tools[j].plain \cap loaded.masks]]]

First(indices) == CHOOSE i \in indices : \A j \in indices : i <= j

MaskTools(loaded) ==
    LET rejected == {j \in DOMAIN loaded.tools : loaded.tools[j].buried \cap loaded.masks # {}}
    IN  IF rejected = {} THEN SetMasks(loaded)
        ELSE [loaded EXCEPT !.error = loaded.tools[First(rejected)].path]

(* Mutant: each file is judged by the masks read so far *)
LoadFilesInOrder(list) ==
    LET read == ReadFiles(list)
        rejected == {i \in DOMAIN list : \E t \in Range(list[i].tools) : t.buried \cap read[i].masks # {}}
        all == read[Len(list)]
    IN  IF all.error # NoError THEN all
        ELSE IF rejected # {} THEN [all EXCEPT !.error = list[First(rejected)].path]
        ELSE IF all.text > MaxText THEN [all EXCEPT !.error = Together]
        ELSE SetMasks(all)

LoadFiles(list) ==
    LET all == ReadFiles(list)[Len(list)]
    IN  IF all.error # NoError THEN all
        ELSE IF all.text > MaxText THEN [all EXCEPT !.error = Together]
        ELSE MaskTools(all)

(* validateCustomToolFiles(): every file on its own, then all of them *)
ValidateFiles(list) ==
    LET alone == [i \in DOMAIN list |-> LoadFiles(<<list[i]>>).error]
        failed == {i \in DOMAIN list : alone[i] # NoError}
    IN  IF failed # {} THEN {alone[i] : i \in failed}
        ELSE IF LoadFiles(list).error # NoError THEN {Together} ELSE {}

-----------------------------------------------------------------------------
FilesInit ==
    /\ files \in UNION {[1..n -> FileSet] : n \in 1..MaxFiles}
    /\ renaming \in BOOLEAN
    /\ startup = NotRun /\ validation = NotRun

(* assertMaskingSupported() follows, and only here *)
StartUp ==
    /\ startup = NotRun
    /\ LET loaded == LoadFiles(files)
       IN  startup' = [run |-> TRUE, loaded |-> loaded,
                       ok |-> loaded.error = NoError /\ ~(renaming /\ loaded.masks # {})]
    /\ UNCHANGED <<files, renaming, validation>>

RunValidateTools ==
    /\ validation = NotRun
    /\ validation' = [run |-> TRUE, failed |-> ValidateFiles(files)]
    /\ UNCHANGED <<files, renaming, startup>>

FilesNext == StartUp \/ RunValidateTools

FilesSpec == FilesInit /\ [][FilesNext]_fileSetVars

-----------------------------------------------------------------------------
(* Properties *)

FilesTypeOK ==
    /\ files \in Seq(FileSet) /\ renaming \in BOOLEAN
    /\ startup.run \in BOOLEAN /\ validation.run \in BOOLEAN

(* What files must be like, whatever order they are read in *)
ToolsOf(list) == UNION {Range(list[i].tools) : i \in DOMAIN list}
MasksOf(list) == UNION {list[i].masks : i \in DOMAIN list}
ToolsAt(list) == UNION {{i} \X DOMAIN list[i].tools : i \in DOMAIN list}
TextUpTo(list) ==
    LET sum[i \in 0..Len(list)] == IF i = 0 THEN 0 ELSE sum[i - 1] + list[i].text
    IN  sum

Acceptable(list) ==
    /\ \A i \in DOMAIN list : list[i].sound
    /\ \A t \in ToolsOf(list) : t.valid /\ t.name \notin BuiltIn /\ t.buried \cap MasksOf(list) = {}
    /\ \A e, f \in ToolsAt(list) :
          e # f => list[e[1]].tools[e[2]].name # list[f[1]].tools[f[2]].name
    /\ \A i, j \in DOMAIN list : i # j =>
          list[i].annotations \cap list[j].annotations = {} /\ list[i].masks \cap list[j].masks = {}
    /\ TextUpTo(list)[Len(list)] <= MaxText

(* The start accepts exactly the acceptable sets of files, whatever order they  *)
(* come in, has then every tool of every file, and knows every masked column a  *)
(* tool returns, also of a mask in a later file. docs/custom-tools.md:          *)
(* validate-tools "runs those startup checks and exits": it passes exactly the  *)
(* files that load, one by one and together. What it leaves out is the check of *)
(* masks against the driver's options.                                          *)
ValidationPredictsStartup ==
    /\ FilesTypeOK
    /\ startup.run =>
          /\ startup.loaded.error = NoError <=> Acceptable(files)
          /\ startup.ok => ~(renaming /\ MasksOf(files) # {})
          /\ startup.ok => {<<t.name, t.masked>> : t \in Range(startup.loaded.tools)}
                           = {<<t.name, t.plain \cap MasksOf(files)>> : t \in ToolsOf(files)}
    /\ startup.run /\ validation.run =>
          validation.failed = {} <=> startup.loaded.error = NoError

=============================================================================
