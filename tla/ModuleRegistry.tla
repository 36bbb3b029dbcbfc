---------------------------- MODULE ModuleRegistry ----------------------------
(***************************************************************************)
(* The two generators of src/src/modules: module_list.py writes            *)
(* module_list.h (OW_BIMOD_LIST) and modules_conf.py writes                *)
(* modules_conf.cmake.  Both scan the same directory for the               *)
(* OW_BIMOD_MODULE_DEF(name) line of each *.c file; modules_conf.py also   *)
(* reads modules_conf.ini, whose default section is '*'.  The build runs   *)
(* them as two separate steps, in either order.                            *)
(*                                                                         *)
(* A file's content is the name in its first OW_BIMOD_MODULE_DEF line,    *)
(* "none" when it has no such line, or "unreadable" when reading it        *)
(* raises.  Of the keys of modules_conf.ini the model keeps one boolean    *)
(* key and one string key that write_cmake_conf asserts on for the '*'    *)
(* section (required, depend-mods) and one of each that it does not        *)
(* (prefer-dyn, sources).                                                  *)
(***************************************************************************)
EXTENDS Integers, Sequences, SequencesExt

CONSTANTS
  Files,      \* the entries of the modules directory
  CFiles,     \* those that match '*.c'
  Stem,       \* file.stem of each entry
  ModNames,   \* the module names a DEF line can hold
  SectNames,  \* the module sections modules_conf.ini can have
  Star,       \* the default section '*'
  Unset,      \* a key given neither in a section nor in '*'
  Empty,      \* a key given the empty string
  Val         \* a key given a non-empty string

ASSUME /\ CFiles \subseteq Files
       /\ Stem \in [Files -> ModNames]
       /\ Star \notin SectNames

BoolKeys == {"required", "prefer-dyn"}
StrKeys == {"depend-mods", "sources"}
Keys == BoolKeys \cup StrKeys

VARIABLES
  order,     \* the order in which Path.iterdir() yields the entries
  content,   \* what scan_file finds in each entry
  default,   \* the '*' section of modules_conf.ini
  sections,  \* the other sections, in file order: [name, keys]
  listOut,   \* module_list.h: [status, names]
  cmakeOut   \* modules_conf.cmake: [status, available, required, prfdyn, vars]

vars == <<order, content, default, sections, listOut, cmakeOut>>

-----------------------------------------------------------------------------
(* modules_conf.ini as configparser reads it.                              *)

\* sect[key]: a section's own value, else the default's.
Get(sect, k) == IF sect.keys[k] # Unset THEN sect.keys[k] ELSE default[k]

\* The sections load_config iterates over: '*' first, then the others.
ConfSections == <<[name |-> Star, keys |-> default]>> \o sections

\* load_config: sect['depend-mods'] and sect['sources'] raise KeyError for
\* a key set nowhere; getboolean gives None (false) for one.
LoadConfigFails == \E i \in DOMAIN ConfSections, k \in StrKeys :
                     Get(ConfSections[i], k) = Unset

\* The ModuleConfig of each section of load_config's result.
ModConf(sect) ==
  [required |-> Get(sect, "required") = TRUE,
   prefer_dyn |-> Get(sect, "prefer-dyn") = TRUE,
   depend_mods |-> Get(sect, "depend-mods") = Val,
   sources |-> Get(sect, "sources") = Val]

-----------------------------------------------------------------------------
(* The directory scan shared by both scripts.                              *)

\* filter(lambda file: file.match('*.c'), iterdir())
CFilesInOrder == SelectSeq(order, LAMBDA f : f \in CFiles)

\* The position of the first .c file whose reading raises, or 0.
FirstUnreadable == SelectInSeq(CFilesInOrder, LAMBDA f : content[f] = "unreadable")

\* The .c files scan_dir gets through, in order, before any exception.
ScannedFiles ==
  IF FirstUnreadable = 0 THEN CFilesInOrder
  ELSE SubSeq(CFilesInOrder, 1, FirstUnreadable - 1)

\* Plausible slips, each a variant of one definition below.

\* module_list's scan_dir without the 'name is not None' filter
ScanDir_NoNoneFilter(fs) == [i \in DOMAIN fs |-> content[fs[i]]]

\* module_list.scan_dir: the names found, None results filtered out.
ScanDir(fs) ==
  LET hits == SelectSeq(fs, LAMBDA f : content[f] \in ModNames)
  IN [i \in DOMAIN hits |-> content[hits[i]]]

\* modules_conf's scan_file without the check against the file name
NameMismatch_NoCheck(f) == FALSE

\* modules_conf.scan_file raises RuntimeError when the name differs from
\* the file's stem.
NameMismatch(f) == content[f] \in ModNames /\ content[f] # Stem[f]

-----------------------------------------------------------------------------

NoOutput == [status |-> "none"]

\* The values a key can have in the '*' section and in another section.
DefaultValues(k) == IF k \in BoolKeys THEN {Unset, TRUE, FALSE} ELSE {Unset, Empty, Val}
SectionValues(k) == IF k \in BoolKeys THEN {Unset, TRUE} ELSE {Unset, Val}

Init ==
  /\ order \in SetToSeqs(Files)
  /\ content \in [Files -> ModNames \cup {"none", "unreadable"}]
  /\ default \in {d \in [Keys -> {Unset, TRUE, FALSE, Empty, Val}] :
                   \A k \in Keys : d[k] \in DefaultValues(k)}
  /\ sections \in {<<>>} \cup
       {<<[name |-> n, keys |-> ks]>> :
          n \in SectNames,
          ks \in {d \in [Keys -> {Unset, TRUE, Val}] :
                    \A k \in Keys : d[k] \in SectionValues(k)}}
  /\ listOut = NoOutput /\ cmakeOut = NoOutput

\* module_list.py's main: write_list opens module_list.h, then writes an
\* ELEM line for each name scan_dir yields; a file that cannot be read
\* raises in the middle of the loop and leaves the lines written so far.
ModuleListMain ==
  /\ listOut = NoOutput
  /\ listOut' = [status |-> IF FirstUnreadable = 0 THEN "ok" ELSE "partial",
                 names |-> ScanDir(ScannedFiles)]
  /\ UNCHANGED <<order, content, default, sections, cmakeOut>>

\* The names of the sections of conf.items() whose ModuleConfig has fld set.
Listed(fld) ==
  LET idx == SelectSeq([i \in DOMAIN ConfSections |-> i],
                       LAMBDA i : ModConf(ConfSections[i])[fld])
  IN [j \in DOMAIN idx |-> ConfSections[idx[j]].name]

\* The per-module variables: <<name, "DEP_MODS">> and <<name, "SOURCES">>.
ModVars ==
  {<<ConfSections[i].name, "DEP_MODS">> :
     i \in {i \in DOMAIN ConfSections : ModConf(ConfSections[i]).depend_mods}}
  \cup {<<ConfSections[i].name, "SOURCES">> :
          i \in {i \in DOMAIN ConfSections : ModConf(ConfSections[i]).sources}}

\* The content of modules_conf.cmake: the three lists and the per-module
\* variables, each over conf.items(), '*' included.
CMakeText ==
  [status |-> "ok",
   available |-> {content[f] : f \in Range(ScannedFiles)} \cap ModNames,
   required |-> Listed("required"), prfdyn |-> Listed("prefer_dyn"),
   vars |-> ModVars]

\* a modules_conf scan that passes over files it cannot read
ScanFails_NameCheckOnly ==
  \E f \in Range(ScannedFiles) : NameMismatch(f)

\* Whether scanning the directory raises: a file that cannot be read, or
\* modules_conf.scan_file's name check.
ScanFails ==
  FirstUnreadable # 0 \/ \E f \in Range(ScannedFiles) : NameMismatch(f)

\* Whether one of write_cmake_conf's asserts on the '*' section fails.
DefaultAssertFails ==
  ModConf(ConfSections[1]).required \/ ModConf(ConfSections[1]).depend_mods

ModulesConfMain ==
  /\ cmakeOut = NoOutput
  /\ cmakeOut' =
       IF LoadConfigFails \/ ScanFails \/ DefaultAssertFails
       THEN [status |-> "error"]
       ELSE CMakeText
  /\ UNCHANGED <<order, content, default, sections, listOut>>

Next == ModuleListMain \/ ModulesConfMain

Spec == Init /\ [][Next]_vars

-----------------------------------------------------------------------------

TypeOK ==
  /\ listOut.status \in {"none", "ok", "partial"}
  /\ listOut.status # "none" => listOut.names \in Seq(ModNames)
  /\ cmakeOut.status \in {"none", "ok", "partial", "error"}
  /\ cmakeOut.status = "ok" =>
       /\ cmakeOut.available \subseteq ModNames
       /\ cmakeOut.required \in Seq(SectNames \cup {Star})
       /\ cmakeOut.prfdyn \in Seq(SectNames \cup {Star})

\* When both generators succeed, module_list.h lists each module once and
\* exactly the modules of OW_AVAILABLE_MODULES.  module_list.py checks
\* nothing itself: two files defining one module would give two ELEM
\* lines, and only modules_conf.py's name check turns that into an error.
ListMatchesAvailable ==
  listOut.status = "ok" /\ cmakeOut.status = "ok" =>
    /\ IsInjective(listOut.names)
    /\ Range(listOut.names) = cmakeOut.available

PartialListMeansConfFails ==
  listOut.status = "partial" /\ cmakeOut.status # "none" => cmakeOut.status = "error"

=============================================================================
