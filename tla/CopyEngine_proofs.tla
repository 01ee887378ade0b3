-------------------------- MODULE CopyEngine_proofs --------------------------
(***************************************************************************)
(* Proofs about CopyEngine for every tree of files, every batch, every     *)
(* kind of destination and every number of failures and retries.           *)
(***************************************************************************)
EXTENDS CopyEngine, TLAPS

-----------------------------------------------------------------------------
(* The inductive invariant *)

InFile == {"file", "ask", "open", "pump", "verify", "delete", "rename", "stamp"}
Slotted == InFile \ {"file"}
InItem == InFile \cup {"item", "kid", "placed"}
Versioned(e, f) == e.of = f /\ e.ver = src[f]

\* Which of transfer's and copyEntry's locals are in use, and what they hold.
Locals ==
  /\ pc \in InItem => item \in Items /\ kids \subseteq Kids[item]
  /\ pc \in InFile => file \in Kids[item] /\ ver \in Versions /\ ver <= src[file]
  /\ pc \in {"pump", "verify", "delete", "rename"} /\ mode = "temp" =>
       Resumable /\ partials[key] # NoPartial
  /\ pc = "pump" => mode # "none" /\ copied <= Blocks
  /\ pc = "verify" => mode = "temp"
  /\ pc \in {"delete", "rename"} => mode \in {"temp", "part"}
  /\ pc = "failed" => failure.what # Nobody

\* A file is only written to its own name, with a number or without.
Own(s, f) == s \in Slots /\ s[1] = NameOf[f]
Named ==
  /\ \A k \in Keys : partials[k] # NoPartial => Own(partials[k].slot, k[1])
  /\ \A k \in Keys : outputs[k] # NoOutput => Own(outputs[k].slot, k[1])
  /\ pc \in Slotted => Own(slot, file)

\* The file that is being written holds blocks of the current version only.
WrittenTo(e) == Versioned(e, file) /\ e.len = copied
Growing ==
  /\ \A k \in Keys : temp[k].len <= Blocks
  /\ pc = "pump" =>
       /\ mode = "temp" => Versioned(temp[key], file) /\ temp[key].len <= copied
       /\ mode \in {"part", "atomic"} => WrittenTo(part[slot])
       /\ mode \in {"direct", "inplace"} => WrittenTo(dst[slot])

\* So does every other, and a partial is of the version its key names: of a newer
\* one only under the key of a first attempt, which is then not asked for again.
Clean ==
  /\ \A s \in Slots : dst[s].of # "mixed" /\ part[s].of # "mixed"
  /\ \A k \in Keys : Exists(temp[k]) =>
       k[1] \in Stamped /\ temp[k].of = k[1] /\ k[2] <= temp[k].ver /\ temp[k].ver <= src[k[1]]
  /\ pc \in {"file", "ask", "open"} => ver = src[file] \/ partials[key] = NoPartial

-----------------------------------------------------------------------------
(* The constants *)

LEMMA Constants ==
  /\ \A i \in Items : Kids[i] \subseteq Files /\ (~IsDir(i) => i \in Files /\ Kids[i] = {i})
  /\ NameOf \in [Files -> Names] /\ "none" \notin Names /\ Stamped \subseteq Files
  /\ MaxBlocks \in Nat \ {0} /\ MaxVersion \in Nat \ {0} /\ MaxAlt \in Nat /\ MaxFaults \in Nat
  /\ \A f \in Files \cup Items : f \notin {"old", "other", "folder", "mixed", "nobody"}
  /\ NoSlot \notin Slots /\ NoKey \notin Keys
<1>1. \A i \in Items : ~IsDir(i) => i \in Files /\ Kids[i] = {i}
  BY EngineAssumption DEF IsDir, Files, EngineAssumption
<1>2. NoSlot \notin Slots /\ NoKey \notin Keys
  BY EngineAssumption DEF NoSlot, Slots, NoKey, Keys, Nobody, EngineAssumption
<1> QED BY <1>1, <1>2, EngineAssumption DEF EngineAssumption

LEMMA SettingFacts ==
  ASSUME setting \in Settings
  PROVE  /\ Batch \in Seq(Items) /\ Unsafe \subseteq Files \cup Items
         /\ setting.faults \in 0..MaxFaults /\ setting.versions \in 1..MaxVersion
         /\ Blocks \in 1..MaxBlocks /\ Blocks \in Nat
         /\ backend \in {"resumable", "staged", "atomic"}
         /\ Listed \subseteq Items /\ Sources \subseteq Files
<1>1. /\ Batch \in Seq(Items) /\ Unsafe \subseteq Files \cup Items
      /\ setting.faults \in 0..MaxFaults /\ setting.versions \in 1..MaxVersion
      /\ Blocks \in 1..MaxBlocks /\ backend \in {"resumable", "staged", "atomic"}
  BY EngineAssumption DEF EngineAssumption, Batch, Unsafe, Blocks, backend
<1>2. Listed \subseteq Items
  BY <1>1 DEF Listed
<1>3. Sources \subseteq Files
  BY <1>2, Constants DEF Sources
<1> QED BY <1>1, <1>2, <1>3, Constants

LEMMA KeyFacts ==
  ASSUME NEW f \in Files, NEW v \in 0..MaxVersion
  PROVE  Key(f, v) \in Keys /\ Key(f, v)[1] = f /\ (f \in Stamped => Key(f, v) = <<f, v>>)
  BY Constants DEF Key, Keys

\* The entries the steps make.
LEMMA Entries ==
  ASSUME setting \in Settings, src \in [Files -> Versions]
  PROVE  /\ NoFile \in Entry /\ Folder \in Entry /\ Old \in Entry /\ Other \in Entry
         /\ NoPartial \in [slot : Slots \cup {NoSlot}, replacing : Entry]
         /\ NoOutput \in [slot : Slots \cup {NoSlot}, mt : Times]
         /\ \A f \in Files : Moved(f) \in Entry
         /\ file \in Files => Fresh \in Entry /\ \A e \in Entry : e.len < Blocks => Grown(e) \in Entry
<1>1. /\ MaxVersion \in Nat \ {0} /\ MaxBlocks \in Nat \ {0} /\ Blocks \in 1..MaxBlocks
      /\ \A f \in Files : src[f] \in 1..MaxVersion
  BY Constants, SettingFacts DEF Versions
<1>2. NoFile \in Entry /\ Folder \in Entry /\ Old \in Entry /\ Other \in Entry
  BY <1>1 DEF NoFile, Folder, Old, Other, Entry, Owners, Nobody, Times, OldTime, OtherTime
<1>3. \A f \in Files : Moved(f) \in Entry
  BY <1>1 DEF Moved, Entry, Owners, Times, OtherTime
<1>4. ASSUME file \in Files PROVE Fresh \in Entry /\ \A e \in Entry : e.len < Blocks => Grown(e) \in Entry
  BY <1>1, <1>4 DEF Fresh, Grown, Entry, Owners, Times, OtherTime
<1>5. /\ NoPartial \in [slot : Slots \cup {NoSlot}, replacing : Entry]
      /\ NoOutput \in [slot : Slots \cup {NoSlot}, mt : Times]
  BY <1>1, <1>2 DEF NoPartial, NoOutput, Times, OtherTime
<1> QED BY <1>2, <1>3, <1>4, <1>5

-----------------------------------------------------------------------------
(* Which steps write what, and where each may come from *)

Touching == \E f \in Sources : Touch(f)
Replacing == \E n \in Targets : Replace(n)

LEMMA NextCases ==
  ASSUME [Next]_vars
  PROVE  \/ Start \/ Retry \/ RetrySkipping \/ Discard \/ Cancel \/ Touching \/ Replacing \/
            PickEnd \/ PickItem \/ MoveWithin \/ MoveWithinFails \/ EnterFileItem \/ EnterDir \/
            ItemBreaks \/ NextKid \/ EndDir \/ Placed \/ DeleteSourceFails \/ LeaveOut \/
            ShortCircuit \/ Examine \/ ListFails \/ Overwrite \/ Skip \/ Rename \/ Abort \/
            OpenPartial \/ OpenReplace \/ OpenFails \/ Pump \/ PumpEnds \/ PumpBreaks \/ Verify \/
            VerifyFails \/ DeleteOld \/ DeleteOldFails \/ RenameTemp \/ RenameFails \/ Stamp \/
            UNCHANGED vars
  BY Zenon DEF Next, Touching, Replacing, Over

LEMMA Writers ==
  ASSUME [Next]_vars
  PROVE  /\ UNCHANGED fixedVars
         /\ src' = src \/ Touching
         /\ gone' = gone \/ MoveWithin \/ MoveWithinFails \/ Placed \/ DeleteSourceFails
         /\ dst' = dst \/ Replacing \/ MoveWithin \/ MoveWithinFails \/ OpenReplace \/ OpenFails \/ Pump \/
                          PumpEnds \/ PumpBreaks \/ DeleteOld \/ DeleteOldFails \/ RenameTemp \/
                          RenameFails \/ Stamp
         /\ part' = part \/ OpenReplace \/ Pump \/ PumpEnds \/ PumpBreaks \/ RenameTemp \/ RenameFails
         /\ temp' = temp \/ RetrySkipping \/ Discard \/ OpenPartial \/ Pump \/ RenameTemp \/ RenameFails
         /\ dirs' = dirs \/ MoveWithin \/ MoveWithinFails \/ EnterDir
         /\ completed' = completed \/ Examine \/ Stamp
         /\ rootsDone' = rootsDone \/ MoveWithin \/ Placed
         /\ outputs' = outputs \/ Stamp
         /\ partials' = partials \/ RetrySkipping \/ Discard \/ OpenPartial \/ RenameTemp
         /\ skipped' = skipped \/ RetrySkipping
         /\ todo' = todo \/ Start \/ Retry \/ RetrySkipping \/ PickItem
         /\ item' = item \/ PickItem
         /\ kids' = kids \/ PickItem \/ EnterDir \/ NextKid
         /\ file' = file \/ EnterFileItem \/ NextKid
         /\ ver' = ver \/ EnterFileItem \/ NextKid
         /\ slot' = slot \/ Examine \/ Rename
         /\ mode' = mode \/ OpenPartial \/ OpenReplace
         /\ copied' = copied \/ OpenPartial \/ OpenReplace \/ Pump
         /\ known' = known \/ Start \/ Retry \/ RetrySkipping \/ Stamp
         /\ cancelled' = cancelled \/ Cancel \/ Abort
         /\ released' = released \/ Replacing \/ Overwrite
         /\ leaked' = leaked \/ RetrySkipping \/ Discard
<1>1. CASE Start \/ Retry \/ RetrySkipping \/ Discard \/ Cancel \/ Touching \/ Replacing
  BY <1>1 DEF Start, Begin, Retry, RetrySkipping, Discard, Cancel, Touching, Touch, Replacing,
    Replace, fixedVars, fsVars, checkpointVars, loopVars, fileVars, historyVars
<1>2. CASE PickEnd \/ PickItem \/ MoveWithin \/ MoveWithinFails \/ EnterFileItem \/ EnterDir \/
           ItemBreaks \/ NextKid \/ EndDir \/ Placed \/ DeleteSourceFails
  BY <1>2 DEF PickEnd, PickItem, MoveWithin, MoveWithinFails, EnterFileItem, EnterDir, ItemBreaks,
    NextKid, EndDir, Placed, DeleteSourceFails, fixedVars, fsVars, checkpointVars,
    loopVars, fileVars, historyVars
<1>3. CASE LeaveOut \/ ShortCircuit \/ Examine \/ ListFails \/ Overwrite \/ Skip \/ Rename \/ Abort
  BY <1>3 DEF LeaveOut, ShortCircuit, Examine, ListFails, Overwrite, Skip, Rename, Abort, fixedVars,
    fsVars, checkpointVars, loopVars, fileVars, historyVars
<1>4. CASE OpenPartial \/ OpenReplace \/ OpenFails
  BY <1>4 DEF OpenPartial, OpenReplace, OpenFails, fixedVars, fsVars, checkpointVars, loopVars,
    fileVars, historyVars
<1>5. CASE Pump \/ PumpEnds \/ PumpBreaks
  BY <1>5 DEF Pump, PumpEnds, PumpBreaks, fixedVars, fsVars, checkpointVars, loopVars, fileVars,
    historyVars
<1>6. CASE Verify \/ VerifyFails \/ DeleteOld \/ DeleteOldFails \/ RenameTemp \/ RenameFails \/
           Stamp
  BY <1>6 DEF Verify, VerifyFails, DeleteOld, DeleteOldFails, RenameTemp, RenameFails, Stamp,
    fixedVars, fsVars, checkpointVars, loopVars, fileVars, historyVars
<1>7. CASE UNCHANGED vars
  BY <1>7 DEF vars, fixedVars, fsVars, checkpointVars, loopVars, fileVars, historyVars
<1> QED
  BY <1>1, <1>2, <1>3, <1>4, <1>5, <1>6, <1>7, NextCases, Zenon

LEMMA Arrivals ==
  ASSUME [Next]_vars
  PROVE  /\ pc' = "idle" => Touching \/ UNCHANGED vars
         /\ pc' = "item" => PickItem \/ Cancel \/ UNCHANGED vars
         /\ pc' = "kid" => EnterDir \/ LeaveOut \/ ShortCircuit \/ Skip \/ PumpBreaks \/ Stamp \/ Cancel \/
                           UNCHANGED vars
         /\ pc' = "file" => EnterFileItem \/ NextKid \/ Cancel \/ UNCHANGED vars
         /\ pc' = "ask" => Examine \/ Cancel \/ UNCHANGED vars
         /\ pc' = "open" => Examine \/ Overwrite \/ Rename \/ Cancel \/ UNCHANGED vars
         /\ pc' = "pump" => OpenPartial \/ OpenReplace \/ Pump \/ Cancel \/ UNCHANGED vars
         /\ pc' = "verify" => PumpEnds \/ Cancel \/ UNCHANGED vars
         /\ pc' = "delete" => PumpEnds \/ Verify \/ Cancel \/ UNCHANGED vars
         /\ pc' = "rename" => Verify \/ DeleteOld \/ DeleteOldFails \/ Cancel \/ UNCHANGED vars
         /\ pc' = "stamp" => PumpEnds \/ RenameTemp \/ Cancel \/ UNCHANGED vars
         /\ pc' = "placed" => LeaveOut \/ ShortCircuit \/ Skip \/ PumpBreaks \/ Stamp \/ EndDir \/ Cancel \/
                              UNCHANGED vars
         /\ pc' = "finished" => PickEnd \/ UNCHANGED vars
         /\ pc' = "over" => Discard \/ UNCHANGED vars
<1>1. CASE Start \/ Retry \/ RetrySkipping \/ Discard \/ Cancel \/ Touching \/ Replacing
  BY <1>1 DEF Start, Begin, Retry, RetrySkipping, Discard, Cancel, Touching, Touch, Replacing,
    Replace, fixedVars, fsVars, checkpointVars, loopVars, fileVars, historyVars
<1>2. CASE PickEnd \/ PickItem \/ MoveWithin \/ MoveWithinFails \/ EnterFileItem \/ EnterDir \/
           ItemBreaks \/ NextKid \/ EndDir \/ Placed \/ DeleteSourceFails
  BY <1>2 DEF PickEnd, PickItem, MoveWithin, MoveWithinFails, Fail, ItemFails, EnterFileItem,
    EnterDir, ItemBreaks, NextKid, EndDir, Placed, DeleteSourceFails, fixedVars, fsVars,
    checkpointVars, loopVars, fileVars, historyVars
<1>3. CASE LeaveOut \/ ShortCircuit \/ Examine \/ ListFails \/ Overwrite \/ Skip \/ Rename \/ Abort
  BY <1>3 DEF LeaveOut, FileReturns, ShortCircuit, Examine, ListFails, Fail, ItemFails, FileFails,
    Overwrite, Skip, Rename, Abort, fixedVars, fsVars, checkpointVars, loopVars, fileVars,
    historyVars
<1>4. CASE OpenPartial \/ OpenReplace \/ OpenFails
  BY <1>4 DEF OpenPartial, Fail, FileFails, OpenReplace, OpenFails, fixedVars, fsVars,
    checkpointVars, loopVars, fileVars, historyVars
<1>5. CASE Pump \/ PumpEnds \/ PumpBreaks
  BY <1>5 DEF Pump, PumpEnds, PumpBreaks, FileReturns, Fail, FileFails, fixedVars, fsVars,
    checkpointVars, loopVars, fileVars, historyVars
<1>6. CASE Verify \/ VerifyFails \/ DeleteOld \/ DeleteOldFails \/ RenameTemp \/ RenameFails \/
           Stamp
  BY <1>6 DEF Verify, VerifyFails, Fail, FileFails, DeleteOld, DeleteOldFails, RenameTemp,
    RenameFails, Stamp, FileReturns, fixedVars, fsVars, checkpointVars, loopVars, fileVars,
    historyVars
<1> QED
  BY <1>1, <1>2, <1>3, <1>4, <1>5, <1>6, NextCases, Zenon

\* What the steps that are not listed above assign.
LEMMA Others ==
  ASSUME [Next]_vars, complete \in BOOLEAN
  PROVE  /\ pc' = pc \/ pc' \in InItem \cup {"pick", "failed", "finished", "over"}
         /\ complete' \in BOOLEAN
         /\ \/ failure' = failure /\ (pc' = "failed" => pc = "failed")
            \/ failure' = [what |-> Nobody, key |-> NoKey] /\ pc' = "pick"
            \/ pc \in InFile /\ failure' = [what |-> file, key |-> key]
            \/ pc \in InItem /\ failure' = [what |-> item, key |-> IF IsDir(item) THEN NoKey ELSE Key(item, 1)]
         /\ faults' = faults \/ Fault \/ (PumpBreaks /\ faults' <= setting.faults)
<1>1. CASE Start \/ Retry \/ RetrySkipping \/ Discard \/ Cancel \/ Touching \/ Replacing
  BY <1>1 DEF InFile, InItem, Fault,
    Start, Begin, Retry, RetrySkipping, Discard, Cancel, Touching, Touch, Replacing,
    Replace, fixedVars, fsVars, checkpointVars, loopVars, fileVars, historyVars
<1>2. CASE PickEnd \/ PickItem \/ MoveWithin \/ MoveWithinFails \/ EnterFileItem \/ EnterDir \/
           ItemBreaks \/ NextKid \/ EndDir \/ Placed \/ DeleteSourceFails
  BY <1>2 DEF InFile, InItem, Fault,
    PickEnd, PickItem, MoveWithin, MoveWithinFails, Fail, ItemFails, EnterFileItem,
    EnterDir, ItemBreaks, NextKid, EndDir, Placed, DeleteSourceFails, fixedVars, fsVars,
    checkpointVars, loopVars, fileVars, historyVars
<1>3. CASE LeaveOut \/ ShortCircuit \/ Examine \/ ListFails \/ Overwrite \/ Skip \/ Rename \/ Abort
  BY <1>3 DEF InFile, InItem, Fault,
    LeaveOut, FileReturns, ShortCircuit, Examine, ListFails, Fail, ItemFails, FileFails,
    Overwrite, Skip, Rename, Abort, fixedVars, fsVars, checkpointVars, loopVars, fileVars,
    historyVars
<1>4. CASE OpenPartial \/ OpenReplace \/ OpenFails
  BY <1>4 DEF InFile, InItem, Fault,
    OpenPartial, Fail, FileFails, OpenReplace, OpenFails, fixedVars, fsVars,
    checkpointVars, loopVars, fileVars, historyVars
<1>5. CASE Pump \/ PumpEnds \/ PumpBreaks
  BY <1>5 DEF InFile, InItem, Fault,
    Pump, PumpEnds, PumpBreaks, FileReturns, Fail, FileFails, fixedVars, fsVars,
    checkpointVars, loopVars, fileVars, historyVars
<1>6. CASE Verify \/ VerifyFails \/ DeleteOld \/ DeleteOldFails \/ RenameTemp \/ RenameFails \/
           Stamp
  BY <1>6 DEF InFile, InItem, Fault,
    Verify, VerifyFails, Fail, FileFails, DeleteOld, DeleteOldFails, RenameTemp,
    RenameFails, Stamp, FileReturns, fixedVars, fsVars, checkpointVars, loopVars, fileVars,
    historyVars
<1>7. CASE UNCHANGED vars
  BY <1>7 DEF vars, fixedVars, fsVars, checkpointVars, loopVars, fileVars, historyVars
<1> QED
  BY <1>1, <1>2, <1>3, <1>4, <1>5, <1>6, <1>7, NextCases, Zenon

\* A move by rename puts each file under its own name.
LEMMA Places ==
  ASSUME NEW S, S \subseteq Files
  PROVE  /\ \A s \in Slots : \/ Placing(S)[s] = dst[s] /\ \A f \in S : s # <<NameOf[f], 0>>
                             \/ \E f \in S : s = <<NameOf[f], 0>> /\ Placing(S)[s] = Moved(f)
         /\ DOMAIN Placing(S) = Slots
         /\ Placing(S) = [s \in Slots |-> Placing(S)[s]]
<1> DEFINE found(s) == CHOOSE f \in S : s = <<NameOf[f], 0>>
<1>1. \A s \in Slots : (\E f \in S : s = <<NameOf[f], 0>>) => found(s) \in S /\ s = <<NameOf[found(s)], 0>>
  OBVIOUS
<1>2. Placing(S) = [s \in Slots |-> IF \E f \in S : s = <<NameOf[f], 0>> THEN Moved(found(s)) ELSE dst[s]]
  BY DEF Placing
<1> HIDE DEF found
<1> QED BY <1>1, <1>2

-----------------------------------------------------------------------------
(* Types *)

\* Where copyEntry is, its locals and the checkpoint key are of these types.
LEMMA FileFacts ==
  ASSUME TypeOK, Locals, pc \in InFile
  PROVE  /\ item \in Items /\ file \in Files /\ file \in Kids[item] /\ ver \in 1..MaxVersion
         /\ key \in Keys /\ key[1] = file /\ (file \in Stamped => key = <<file, ver>>)
         /\ src[file] \in 1..MaxVersion /\ temp[key] \in Entry
<1>1. item \in Items /\ file \in Kids[item] /\ ver \in 1..MaxVersion
  BY DEF Locals, InItem, Versions
<1>2. file \in Files /\ ver \in 0..MaxVersion
  BY <1>1, Constants
<1>3. key \in Keys /\ key[1] = file /\ (file \in Stamped => key = <<file, ver>>)
  BY <1>2, KeyFacts DEF key
<1> QED BY <1>1, <1>2, <1>3 DEF TypeOK, Versions

\* What the step of TargetSlot and NoPartial comes to.
LEMMA SlotFacts ==
  ASSUME TypeOK, Locals, Named, pc \in InFile
  PROVE  /\ Own(TargetSlot, file) /\ Own(<<NameOf[file], 0>>, file)
         /\ \A k \in 1..MaxAlt : Own(<<NameOf[file], k>>, file)
         /\ \A s \in Slots : \A e : [slot |-> s, replacing |-> e] # NoPartial
         /\ \A s \in Slots : \A t : [slot |-> s, mt |-> t] # NoOutput
<1>1. file \in Files /\ key \in Keys /\ key[1] = file
  BY FileFacts
<1>2. Own(<<NameOf[file], 0>>, file) /\ \A k \in 1..MaxAlt : Own(<<NameOf[file], k>>, file)
  BY <1>1, Constants DEF Own, Slots
<1>3. Own(TargetSlot, file)
  BY <1>1, <1>2 DEF TargetSlot, Named
<1>4. /\ \A s \in Slots : \A e : [slot |-> s, replacing |-> e] # NoPartial
      /\ \A s \in Slots : \A t : [slot |-> s, mt |-> t] # NoOutput
  BY Constants DEF NoPartial, NoOutput
<1> QED BY <1>2, <1>3, <1>4

LEMMA TypeStep ==
  ASSUME TypeOK, Locals, Named, Growing, [Next]_vars
  PROVE  TypeOK'
<1>0. setting \in Settings /\ setting' = setting /\ move' = move
  BY Writers DEF TypeOK, fixedVars
<1> USE <1>0
<1>1. src' \in [Files -> Versions]
  <2>1. CASE Touching
    <3>1. PICK f \in Sources : src' = [src EXCEPT ![f] = @ + 1] /\ src[f] < setting.versions
      BY <2>1 DEF Touching, Touch
    <3>2. f \in Files /\ src[f] \in 1..MaxVersion /\ setting.versions \in 1..MaxVersion /\ MaxVersion \in Nat
      BY SettingFacts, Constants DEF TypeOK, Versions
    <3>3. src[f] + 1 \in Versions
      BY <3>1, <3>2 DEF Versions
    <3> QED BY <3>1, <3>3 DEF TypeOK
  <2> QED BY <2>1, Writers DEF TypeOK
<1>2. gone' \subseteq Files /\ dirs' \subseteq Items
  <2>1. pc \in {"item", "placed"} => item \in Items /\ Kids[item] \subseteq Files
    BY Constants DEF Locals, InItem
  <2>2. gone' \subseteq Files
    BY <2>1, Writers DEF TypeOK, MoveWithin, MoveWithinFails, Placed, DeleteSourceFails
  <2>3. dirs' \subseteq Items
    BY <2>1, Writers DEF TypeOK, MoveWithin, MoveWithinFails, EnterDir
  <2> QED BY <2>2, <2>3
<1>3. /\ Old \in Entry /\ Other \in Entry /\ NoFile \in Entry
      /\ \A f \in Files : Moved(f) \in Entry
      /\ \A k \in Keys : temp[k] \in Entry
      /\ \A s \in Slots : dst[s] \in Entry /\ part[s] \in Entry /\ known[s] \in Entry
      /\ dst \in [Slots -> Entry] /\ part \in [Slots -> Entry] /\ temp \in [Keys -> Entry]
  BY Entries DEF TypeOK
<1>4. pc \in InFile => Fresh \in Entry /\ \A e \in Entry : e.len < Blocks => Grown(e) \in Entry
  BY Entries, FileFacts DEF TypeOK
<1>5. /\ pc = "item" => item \in Items /\ Kids[item] \subseteq Files
      /\ pc \in InFile => key \in Keys /\ ver \in Times
      /\ pc \in Slotted => slot \in Slots
      /\ pc \in Slotted => pc \in InFile
  BY FileFacts, Constants DEF Locals, Named, Own, InFile, InItem, Slotted, Times, OtherTime
<1>6. pc = "pump" /\ copied < Blocks =>
        /\ mode = "temp" => temp[key].len < Blocks
        /\ mode \in {"part", "atomic"} => part[slot].len < Blocks
        /\ mode \in {"direct", "inplace"} => dst[slot].len < Blocks
  <2>1. pc = "pump" => temp[key] \in Entry
    BY FileFacts DEF InFile
  <2>2. Blocks \in Nat /\ copied \in Nat /\ (pc = "pump" => temp[key].len \in Nat)
    BY <2>1, SettingFacts DEF TypeOK, Entry
  <2> QED BY <2>2 DEF Growing, WrittenTo
<1> USE DEF InFile, Slotted
<1>7. dst' \in [Slots -> Entry]
  <2>1. CASE Replacing
    BY <1>3, <2>1 DEF Replacing, Replace
  <2>2. CASE MoveWithin \/ MoveWithinFails
    <3>1. PICK S \in SUBSET Files : dst' = Placing(S)
      BY <1>5, <2>2 DEF MoveWithin, MoveWithinFails
    <3> QED BY <1>3, <3>1, Places
  <2>3. CASE OpenReplace \/ OpenFails \/ DeleteOld \/ DeleteOldFails
    BY <1>3, <1>4, <1>5, <2>3 DEF OpenReplace, OpenFails, DeleteOld, DeleteOldFails
  <2>4. CASE Pump
    <3>1. pc = "pump" /\ copied < Blocks
      BY <2>4 DEF Pump
    <3>2. dst' = dst \/ (mode \in {"direct", "inplace"} /\ dst' = [dst EXCEPT ![slot] = Grown(dst[slot])])
      BY <1>3, <1>5, <2>4, <3>1 DEF Pump
    <3> QED BY <1>3, <1>4, <1>5, <1>6, <3>1, <3>2
  <2>5. CASE PumpEnds \/ PumpBreaks
    <3>1. pc = "pump" /\ (dst' = dst \/ \E e \in {NoFile, part[slot]} : dst' = [dst EXCEPT ![slot] = e])
      BY <2>5 DEF PumpEnds, PumpBreaks
    <3> QED BY <1>3, <1>5, <3>1
  <2>6. CASE RenameTemp \/ RenameFails
    <3>1. pc = "rename" /\ (dst' = dst \/ \E e \in {temp[key], part[slot]} : dst' = [dst EXCEPT ![slot] = e])
      BY <2>6 DEF RenameTemp, RenameFails, PutInPlace
    <3> QED BY <1>3, <1>5, <3>1
  <2>7. CASE Stamp
    <3>1. pc = "stamp" /\ (dst' = dst \/ dst' = [dst EXCEPT ![slot] = [dst[slot] EXCEPT !.mt = ver]])
      BY <1>3, <1>5, <2>7 DEF Stamp
    <3>2. \A e \in Entry, t \in Times : [e EXCEPT !.mt = t] \in Entry
      BY DEF Entry
    <3> QED BY <1>3, <1>5, <3>1, <3>2
  <2> QED BY <1>3, <2>1, <2>2, <2>3, <2>4, <2>5, <2>6, <2>7, Writers
<1>8. part' \in [Slots -> Entry]
  <2>1. CASE Pump
    <3>1. pc = "pump" /\ copied < Blocks
      BY <2>1 DEF Pump
    <3>2. part' = part \/ (mode \in {"part", "atomic"} /\ part' = [part EXCEPT ![slot] = Grown(part[slot])])
      BY <1>3, <1>5, <2>1, <3>1 DEF Pump
    <3> QED BY <1>3, <1>4, <1>5, <1>6, <3>1, <3>2
  <2>2. CASE OpenReplace
    BY <1>3, <1>4, <1>5, <2>2 DEF OpenReplace
  <2>3. CASE PumpEnds \/ PumpBreaks \/ RenameTemp \/ RenameFails
    <3>1. part' = part \/ part' = [part EXCEPT ![slot] = NoFile]
      BY <2>3 DEF PumpEnds, PumpBreaks, RenameTemp, RenameFails, PutInPlace
    <3> QED BY <1>3, <3>1
  <2> QED BY <1>3, <2>1, <2>2, <2>3, Writers
<1>9. temp' \in [Keys -> Entry]
  <2>1. CASE RetrySkipping \/ Discard
    BY <1>3, <2>1 DEF RetrySkipping, Discard, Discarded
  <2>2. CASE OpenPartial
    <3>1. pc = "open" /\ (temp' = temp \/ \E e \in {temp[key], Fresh} : temp' = [temp EXCEPT ![key] = e])
      BY <1>3, <1>5, <2>2 DEF OpenPartial
    <3> QED BY <1>3, <1>4, <1>5, <3>1
  <2>3. CASE Pump
    <3>1. pc = "pump" /\ copied < Blocks
      BY <2>3 DEF Pump
    <3>2. temp' = temp \/ (mode = "temp" /\ temp' = [temp EXCEPT ![key] = Grown(temp[key])])
      BY <1>3, <1>5, <2>3, <3>1 DEF Pump
    <3> QED BY <1>3, <1>4, <1>5, <1>6, <3>1, <3>2
  <2>4. CASE RenameTemp \/ RenameFails
    <3>1. temp' = temp \/ temp' = [temp EXCEPT ![key] = NoFile]
      BY <2>4 DEF RenameTemp, RenameFails, PutInPlace
    <3> QED BY <1>3, <3>1
  <2> QED BY <1>3, <2>1, <2>2, <2>3, <2>4, Writers
<1>10. known' \in [Slots -> Entry]
  <2>1. CASE Start \/ Retry \/ RetrySkipping
    BY <1>3, <2>1 DEF Start, Retry, RetrySkipping, Begin
  <2>2. CASE Stamp
    BY <1>3, <1>5, <2>2 DEF Stamp, TypeOK
  <2> QED BY <2>1, <2>2, Writers DEF TypeOK
<1>11. completed' \subseteq Keys /\ rootsDone' \subseteq Items /\ skipped' \subseteq Files \cup Items
  <2>1. completed' \subseteq Keys
    BY <1>5, Writers DEF Examine, Stamp, TypeOK
  <2>2. rootsDone' \subseteq Items
    BY Writers DEF MoveWithin, Placed, TypeOK, Locals, InItem
  <2>3. skipped' \subseteq Files \cup Items
    <3>1. CASE RetrySkipping
      <4>1. pc = "failed" /\ skipped' = skipped \cup {failure.what}
        BY <3>1 DEF RetrySkipping
      <4>2. failure.what # Nobody
        BY <4>1 DEF Locals
      <4> QED BY <4>1, <4>2 DEF TypeOK
    <3> QED BY <3>1, Writers DEF TypeOK
  <2> QED BY <2>1, <2>2, <2>3

<1>12. outputs' \in [Keys -> [slot : Slots \cup {NoSlot}, mt : Times]]
  <2>1. CASE Stamp
    <3>1. PICK t \in {0, ver} : outputs' = [outputs EXCEPT ![key] = [slot |-> slot, mt |-> t]]
      BY <2>1 DEF Stamp
    <3>2. pc = "stamp" /\ t \in Times
      BY <1>5, <2>1, Constants DEF Stamp, Times, OtherTime
    <3>3. [slot |-> slot, mt |-> t] \in [slot : Slots \cup {NoSlot}, mt : Times]
      BY <1>5, <3>2
    <3> QED BY <3>1, <3>3 DEF TypeOK
  <2> QED BY <2>1, Writers DEF TypeOK
<1>13. partials' \in [Keys -> [slot : Slots \cup {NoSlot}, replacing : Entry]]
  <2>1. CASE RetrySkipping \/ Discard
    BY <2>1, Entries DEF RetrySkipping, Discard, TypeOK
  <2>2. CASE OpenPartial
    <3>1. pc = "open" /\ partials' = [partials EXCEPT ![key] = [slot |-> slot, replacing |-> known[slot]]]
      BY <2>2 DEF OpenPartial
    <3>2. [slot |-> slot, replacing |-> known[slot]] \in [slot : Slots \cup {NoSlot}, replacing : Entry]
      BY <1>3, <1>5, <3>1
    <3> QED BY <3>1, <3>2 DEF TypeOK
  <2>3. CASE RenameTemp
    BY <2>3, Entries DEF RenameTemp, TypeOK
  <2> QED BY <2>1, <2>2, <2>3, Writers DEF TypeOK
<1>14. failure' \in [what : Files \cup Items \cup {Nobody}, key : Keys \cup {NoKey}]
  <2>1. CASE pc \in InFile
    <3>1. file \in Files /\ key \in Keys /\ item \in Items /\ (~IsDir(item) => Key(item, 1) \in Keys)
      BY <2>1, FileFacts, Constants, KeyFacts
    <3> QED BY <3>1, Others DEF TypeOK, FlagsOK
  <2>2. CASE pc \notin InFile
    <3>1. pc \in InItem => item \in Items /\ (~IsDir(item) => Key(item, 1) \in Keys)
      BY Constants, KeyFacts DEF Locals
    <3> QED BY <2>2, <3>1, Others DEF TypeOK, FlagsOK
  <2> QED BY <2>1, <2>2
<1>15. /\ pc' \in {"idle", "pick", "item", "kid", "file", "ask", "open", "pump", "verify", "delete",
                  "rename", "stamp", "placed", "failed", "finished", "over"}
       /\ complete' \in BOOLEAN
  BY Others DEF TypeOK, FlagsOK, InItem
<1>16. todo' \in Seq(Items) /\ item' \in Items \cup {Nobody} /\ kids' \subseteq Files
  <2>1. CASE PickItem
    <3>1. todo \in Seq(Items) /\ todo # <<>> /\ item' = Head(todo) /\ todo' = Tail(todo) /\ kids' = {}
      BY <2>1 DEF PickItem, TypeOK
    <3>2. Head(todo) \in Items /\ Tail(todo) \in Seq(Items)
      BY <3>1
    <3> QED BY <3>1, <3>2
  <2>2. CASE Start \/ Retry \/ RetrySkipping
    <3>1. todo' = Batch /\ item' = item /\ kids' = kids
      BY <2>2 DEF Start, Retry, RetrySkipping, Begin
    <3> QED BY <3>1, SettingFacts DEF TypeOK
  <2>3. CASE EnterDir \/ NextKid
    <3>1. pc = "item" => Kids[item] \subseteq Files
      BY <1>5
    <3>2. kids' \subseteq Files
      BY <2>3, <3>1 DEF EnterDir, NextKid, TypeOK
    <3>3. UNCHANGED <<todo, item>>
      BY <2>3 DEF EnterDir, NextKid
    <3> QED BY <3>2, <3>3 DEF TypeOK
  <2> QED BY <2>1, <2>2, <2>3, Writers DEF TypeOK
<1>17. file' \in Files \cup {Nobody} /\ ver' \in 0..MaxVersion
  <2>1. CASE EnterFileItem
    <3>1. item \in Files /\ src[item] \in 0..MaxVersion /\ 1 \in 0..MaxVersion
      BY <2>1, <1>5, Constants DEF EnterFileItem, TypeOK, Versions
    <3> QED BY <2>1, <3>1 DEF EnterFileItem
  <2>2. CASE NextKid
    <3>1. PICK f \in Files : file' = f /\ ver' = src[f]
      BY <2>2 DEF NextKid, TypeOK
    <3>2. src[f] \in 0..MaxVersion
      BY Constants DEF TypeOK, Versions
    <3> QED BY <3>1, <3>2
  <2> QED BY <2>1, <2>2, Writers DEF TypeOK
<1>18. slot' \in Slots \cup {NoSlot}
  <2>1. CASE Examine \/ Rename
    <3>1. pc \in InFile
      BY <2>1 DEF Examine, Rename
    <3>2. TargetSlot \in Slots /\ \A k \in 1..MaxAlt : <<NameOf[file], k>> \in Slots
      BY <3>1, SlotFacts DEF Own
    <3> QED BY <2>1, <3>2 DEF Examine, Rename
  <2> QED BY <2>1, Writers DEF TypeOK
<1>19. mode' \in {"none", "temp", "direct", "part", "atomic", "inplace"} /\ copied' \in 0..MaxBlocks
  <2>1. mode' \in {"none", "temp", "direct", "part", "atomic", "inplace"}
    BY Writers DEF OpenPartial, OpenReplace, TypeOK
  <2>2. CASE OpenPartial
    <3>1. pc = "open" /\ copied' \in {copied, temp[key].len}
      BY <2>2 DEF OpenPartial, Offset
    <3>2. temp[key].len \in 0..MaxBlocks
      BY <1>3, <1>5, <3>1 DEF Entry
    <3> QED BY <2>1, <3>1, <3>2 DEF TypeOK
  <2>3. CASE OpenReplace \/ Pump
    <3>1. 0 \in 0..MaxBlocks /\ (copied < Blocks => copied + 1 \in 0..MaxBlocks)
      BY SettingFacts, Constants DEF TypeOK
    <3> QED BY <2>1, <2>3, <3>1 DEF OpenReplace, Pump
  <2> QED BY <2>1, <2>2, <2>3, Writers DEF TypeOK
<1>20. released' \subseteq Slots \X Owners \X (0..MaxVersion)
  <2>1. \A e \in Entry : e.of \in Owners /\ e.ver \in 0..MaxVersion
    BY DEF Entry
  <2>2. CASE Replacing
    <3>1. PICK n \in Targets :
            released' = released \/ released' = released \cup {<<<<n, 0>>, dst[<<n, 0>>].of, dst[<<n, 0>>].ver>>}
      BY <2>2 DEF Replacing, Replace
    <3>2. <<n, 0>> \in Slots
      <4>1. PICK f \in Sources : n = NameOf[f]
        BY DEF Targets
      <4>2. f \in Files
        BY SettingFacts
      <4>3. n \in Names /\ 0 \in 0..MaxAlt
        BY <4>1, <4>2, Constants
      <4> QED BY <4>3 DEF Slots
    <3>3. dst[<<n, 0>>] \in Entry
      BY <1>3, <3>2
    <3>4. <<<<n, 0>>, dst[<<n, 0>>].of, dst[<<n, 0>>].ver>> \in Slots \X Owners \X (0..MaxVersion)
      BY <2>1, <3>2, <3>3
    <3>5. released \subseteq Slots \X Owners \X (0..MaxVersion)
      BY DEF TypeOK
    <3> QED BY <3>1, <3>4, <3>5
  <2>3. CASE Overwrite
    <3>1. pc = "ask" /\ released' = released \cup {<<slot, known[slot].of, known[slot].ver>>}
      BY <2>3 DEF Overwrite
    <3> QED BY <1>3, <1>5, <2>1, <3>1 DEF TypeOK
  <2> QED BY <2>2, <2>3, Writers DEF TypeOK
<1>21. leaked' \subseteq Entry /\ faults' \in 0..MaxFaults /\ cancelled' \in BOOLEAN
  <2>1. leaked' \subseteq Entry
    BY <1>3, Writers DEF RetrySkipping, Discard, TypeOK
  <2>2. faults' \in 0..MaxFaults
    <3>1. faults \in Nat /\ setting.faults \in 0..MaxFaults /\ MaxFaults \in Nat
      BY SettingFacts, Constants DEF TypeOK
    <3>2. CASE PumpBreaks
      <4>1. PICK m, n \in {0, 1} : faults + m + n <= setting.faults /\ faults' = faults + m + n
        BY <3>2 DEF PumpBreaks
      <4> QED BY <3>1, <4>1
    <3>3. CASE Fault \/ faults' = faults
      BY <3>1, <3>3 DEF Fault, TypeOK
    <3> QED BY <3>2, <3>3, Others DEF TypeOK, FlagsOK
  <2>3. cancelled' \in BOOLEAN
    BY Writers DEF Cancel, Abort, TypeOK, FlagsOK
  <2> QED BY <2>1, <2>2, <2>3
<1> QED
  BY <1>1, <1>2, <1>7, <1>8, <1>9, <1>10, <1>11, <1>12, <1>13, <1>14, <1>15, <1>16, <1>17, <1>18, <1>19,
     <1>20, <1>21 DEF TypeOK, FlagsOK

-----------------------------------------------------------------------------
(* The locals *)

LEMMA Stays ==
  ASSUME [Next]_vars
  PROVE  /\ pc' \in InItem => PickItem \/ (pc \in InItem /\ item' = item)
         /\ pc' \in InFile => EnterFileItem \/ NextKid \/ (pc \in InFile /\ file' = file /\ ver' = ver)
         /\ pc' \in Slotted => Examine \/ Rename \/ (pc \in Slotted /\ slot' = slot)
<1>1. CASE Start \/ Retry \/ RetrySkipping \/ Discard \/ Cancel \/ Touching \/ Replacing
  BY <1>1 DEF InFile, InItem, Slotted, Start, Begin, Retry, RetrySkipping, Discard, Cancel, Touching, Touch,
    Replacing, Replace, fixedVars, fsVars, checkpointVars, loopVars, fileVars, historyVars
<1>2. CASE PickEnd \/ PickItem \/ MoveWithin \/ MoveWithinFails \/ EnterFileItem \/ EnterDir \/
           ItemBreaks \/ NextKid \/ EndDir \/ Placed \/ DeleteSourceFails
  BY <1>2 DEF InFile, InItem, Slotted, PickEnd, PickItem, MoveWithin, MoveWithinFails, Fail, ItemFails,
    EnterFileItem, EnterDir, ItemBreaks, NextKid, EndDir, Placed, DeleteSourceFails, fixedVars,
    fsVars, checkpointVars, loopVars, fileVars, historyVars
<1>3. CASE LeaveOut \/ ShortCircuit \/ Examine \/ ListFails \/ Overwrite \/ Skip \/ Rename \/ Abort
  BY <1>3 DEF InFile, InItem, Slotted, LeaveOut, FileReturns, ShortCircuit, Examine, ListFails, Fail,
    ItemFails, FileFails, Overwrite, Skip, Rename, Abort, fixedVars, fsVars, checkpointVars,
    loopVars, fileVars, historyVars
<1>4. CASE OpenPartial \/ OpenReplace \/ OpenFails
  BY <1>4 DEF InFile, InItem, Slotted, OpenPartial, Fail, FileFails, OpenReplace, OpenFails, fixedVars,
    fsVars, checkpointVars, loopVars, fileVars, historyVars
<1>5. CASE Pump \/ PumpEnds \/ PumpBreaks
  BY <1>5 DEF InFile, InItem, Slotted, Pump, PumpEnds, PumpBreaks, FileReturns, Fail, FileFails,
    fixedVars, fsVars, checkpointVars, loopVars, fileVars, historyVars
<1>6. CASE Verify \/ VerifyFails \/ DeleteOld \/ DeleteOldFails \/ RenameTemp \/ RenameFails \/
           Stamp
  BY <1>6 DEF InFile, InItem, Slotted, Verify, VerifyFails, Fail, FileFails, DeleteOld, DeleteOldFails,
    RenameTemp, RenameFails, Stamp, FileReturns, fixedVars, fsVars, checkpointVars, loopVars,
    fileVars, historyVars
<1>7. CASE UNCHANGED vars
  BY <1>7 DEF vars, fixedVars, fsVars, checkpointVars, loopVars, fileVars, historyVars
<1> QED
  BY <1>1, <1>2, <1>3, <1>4, <1>5, <1>6, <1>7, NextCases, Zenon

LEMMA LocalsStep ==
  ASSUME TypeOK, Locals, Named, Growing, NoOrphanTemp, [Next]_vars
  PROVE  Locals'
<1>0. setting' = setting /\ setting \in Settings
  BY Writers DEF fixedVars, TypeOK
<1>1. pc' \in InItem => item' \in Items /\ kids' \subseteq Kids[item']
  <2>1. PickItem => item' \in Items /\ kids' = {}
    BY DEF PickItem, TypeOK
  <2>2. EnterDir \/ NextKid => item' = item /\ kids' \subseteq Kids[item']
    BY DEF EnterDir, NextKid, Locals, InItem
  <2> QED BY <2>1, <2>2, Stays, Writers DEF Locals
<1>3. pc' \in InFile => file' \in Kids[item'] /\ ver' \in Versions /\ ver' <= src'[file']
  <2>1. \A f \in Files : src[f] \in Versions /\ src'[f] \in Versions /\ src[f] <= src'[f]
    <3>1. \A f \in Files : src[f] \in 1..MaxVersion /\ src'[f] \in 1..MaxVersion
      BY TypeStep DEF TypeOK, Versions
    <3>2. CASE Touching
      BY <3>1, <3>2, Constants DEF Touching, Touch, TypeOK, Versions
    <3> QED BY <3>1, <3>2, Constants, Writers DEF Versions
  <2>2. CASE EnterFileItem
    <3>1. /\ pc = "item" /\ ~IsDir(item) /\ file' = item /\ item' = item /\ src' = src
          /\ ver' = (IF NeedsRefresh THEN src[item] ELSE 1)
      BY <2>2 DEF EnterFileItem, fsVars, loopVars
    <3>2. item \in Files /\ item \in Kids[item]
      BY <3>1, Constants DEF Locals, InItem
    <3> QED BY <2>1, <3>1, <3>2, Constants DEF Versions
  <2>3. CASE NextKid
    <3>1. pc = "kid" /\ file' \in kids /\ ver' = src[file'] /\ item' = item /\ src' = src
      BY <2>3 DEF NextKid, fsVars
    <3>2. file' \in Kids[item] /\ file' \in Files
      BY <3>1 DEF Locals, InItem, TypeOK
    <3> QED BY <2>1, <3>1, <3>2, Constants DEF Versions
  <2>4. CASE pc \in InFile /\ file' = file /\ ver' = ver
    <3>1. ASSUME pc' \in InFile PROVE item' = item
      BY <2>4, <3>1, Stays DEF InFile, InItem, PickItem
    <3>2. file \in Files /\ file \in Kids[item] /\ ver \in 1..MaxVersion /\ ver <= src[file]
      BY <2>4, FileFacts DEF Locals
    <3> QED BY <2>1, <2>4, <3>1, <3>2, Constants DEF Versions
  <2> QED BY <2>2, <2>3, <2>4, Stays
<1>4. pc' \in {"pump", "verify", "delete", "rename"} /\ mode' = "temp" =>
        Resumable' /\ partials'[key'] # NoPartial
  <2> SUFFICES ASSUME pc' \in {"pump", "verify", "delete", "rename"}, mode' = "temp"
               PROVE  Resumable' /\ partials'[key'] # NoPartial
    OBVIOUS
  <2>1. pc \in Slotted /\ file' = file /\ ver' = ver /\ slot' = slot
    BY Stays, Writers, Arrivals DEF InFile, Slotted, EnterFileItem, NextKid, Examine, Rename
  <2>2. key' = key /\ Resumable' = Resumable
    BY <1>0, <2>1 DEF key, Key, Resumable, backend
  <2>3. CASE OpenPartial
    <3>1. Resumable /\ partials' = [partials EXCEPT ![key] = [slot |-> slot, replacing |-> known[slot]]]
      BY <2>3 DEF OpenPartial
    <3>2. key \in Keys /\ [slot |-> slot, replacing |-> known[slot]] # NoPartial
      BY <2>1, FileFacts, SlotFacts DEF Named, Own, Slotted, InFile
    <3> QED BY <2>2, <3>1, <3>2 DEF TypeOK
  <2>4. CASE ~OpenPartial
    <3>1. ~OpenReplace /\ ~RetrySkipping /\ ~Discard /\ ~RenameTemp
      <4>1. OpenReplace => mode' \in {"direct", "atomic", "part", "inplace"}
        BY DEF OpenReplace
      <4>2. RetrySkipping \/ Discard => pc \notin Slotted
        BY DEF RetrySkipping, Discard, Slotted, InFile
      <4>3. RenameTemp => pc' = "stamp"
        BY DEF RenameTemp
      <4> QED BY <2>1, <4>1, <4>2, <4>3
    <3>2. mode = "temp" /\ partials' = partials
      BY <2>4, <3>1, Writers
    <3>3. pc \in {"pump", "verify", "delete", "rename"}
      BY <2>4, <3>1, Arrivals DEF Pump, PumpEnds, Verify, DeleteOld, DeleteOldFails, Cancel, vars, loopVars
    <3> QED BY <2>2, <3>2, <3>3 DEF Locals
  <2> QED BY <2>3, <2>4
<1>5. pc' = "pump" => mode' # "none" /\ copied' <= Blocks'
  <2>1. CASE OpenPartial
    <3>1. pc \in InFile
      BY <2>1 DEF OpenPartial, InFile
    <3>2. key \in Keys
      BY <3>1, FileFacts
    <3> QED BY <1>0, <2>1, <3>2 DEF OpenPartial, Offset, Growing, Blocks, Fail, FileFails
  <2>2. CASE OpenReplace
    BY <1>0, <2>2, SettingFacts DEF OpenReplace, Blocks
  <2>3. CASE Pump
    BY <1>0, <2>3, SettingFacts DEF Pump, Blocks, Locals, TypeOK
  <2>4. CASE pc = "pump" /\ UNCHANGED <<mode, copied>>
    BY <1>0, <2>4 DEF Locals, Blocks
  <2> QED BY <2>1, <2>2, <2>3, <2>4, Arrivals DEF Cancel, vars, fileVars
<1>6. /\ pc' = "verify" => mode' = "temp"
      /\ pc' \in {"delete", "rename"} => mode' \in {"temp", "part"}
  <2>1. CASE PumpEnds
    BY <2>1 DEF PumpEnds, fileVars
  <2>2. CASE Verify \/ DeleteOld \/ DeleteOldFails
    BY <2>2 DEF Verify, DeleteOld, DeleteOldFails, Fail, FileFails, fileVars, Locals
  <2>3. CASE pc' = pc /\ UNCHANGED mode
    BY <2>3 DEF Locals
  <2> QED BY <2>1, <2>2, <2>3, Arrivals DEF Cancel, vars, fileVars
<1>7. pc' = "failed" => failure'.what # Nobody
  <2>1. pc \in InFile => file # Nobody
    BY FileFacts, Constants DEF Nobody
  <2>2. pc \in InItem => item # Nobody
    BY Constants DEF Locals, Nobody
  <2>3. pc = "failed" => failure.what # Nobody
    BY DEF Locals
  <2> QED BY <2>1, <2>2, <2>3, Others DEF TypeOK, FlagsOK
<1> QED BY <1>1, <1>3, <1>4, <1>5, <1>6, <1>7 DEF Locals

-----------------------------------------------------------------------------
(* Names *)

LEMMA NamedStep ==
  ASSUME TypeOK, Locals, Named, [Next]_vars
  PROVE  Named'
<1>1. \A k \in Keys : partials'[k] # NoPartial => Own(partials'[k].slot, k[1])
  <2>1. CASE RetrySkipping \/ Discard
    <3>1. \A k \in Keys : partials'[k] = partials[k] \/ partials'[k] = NoPartial
      BY <2>1 DEF RetrySkipping, Discard
    <3> QED BY <3>1 DEF Named
  <2>2. CASE OpenPartial
    <3>1. pc \in InFile /\ pc \in Slotted
      BY <2>2 DEF OpenPartial, InFile, Slotted
    <3>2. Own(slot, key[1])
      BY <3>1, FileFacts DEF Named
    <3>3. partials' = [partials EXCEPT ![key] = [slot |-> slot, replacing |-> known[slot]]]
      BY <2>2 DEF OpenPartial
    <3>4. \A k \in Keys : k # key => partials'[k] = partials[k]
      BY <3>3 DEF TypeOK
    <3>5. partials'[key].slot = slot
      BY <3>1, <3>3, FileFacts DEF TypeOK
    <3> QED BY <3>2, <3>4, <3>5 DEF Named
  <2>3. CASE RenameTemp
    <3>1. \A k \in Keys : partials'[k] = partials[k] \/ partials'[k] = NoPartial
      BY <2>3 DEF RenameTemp, TypeOK
    <3> QED BY <3>1 DEF Named
  <2> QED BY <2>1, <2>2, <2>3, Writers DEF Named
<1>2. \A k \in Keys : outputs'[k] # NoOutput => Own(outputs'[k].slot, k[1])
  <2>1. CASE Stamp
    <3>1. pc \in InFile /\ pc \in Slotted
      BY <2>1 DEF Stamp, InFile, Slotted
    <3>2. Own(slot, key[1])
      BY <3>1, FileFacts DEF Named
    <3>3. PICK t : outputs' = [outputs EXCEPT ![key] = [slot |-> slot, mt |-> t]]
      BY <2>1 DEF Stamp
    <3>4. \A k \in Keys : k # key => outputs'[k] = outputs[k]
      BY <3>3 DEF TypeOK
    <3>5. outputs'[key].slot = slot
      BY <3>1, <3>3, FileFacts DEF TypeOK
    <3> QED BY <3>2, <3>4, <3>5 DEF Named
  <2> QED BY <2>1, Writers DEF Named
<1>3. pc' \in Slotted => Own(slot', file')
  <2>1. CASE Examine
    <3>1. pc \in InFile /\ slot' = TargetSlot /\ file' = file
      BY <2>1 DEF Examine, InFile
    <3> QED BY <3>1, SlotFacts
  <2>2. CASE Rename
    <3>1. pc \in InFile /\ file' = file /\ \E k \in 1..MaxAlt : slot' = <<NameOf[file], k>>
      BY <2>2 DEF Rename, InFile
    <3> QED BY <3>1, SlotFacts
  <2>3. ASSUME pc' \in Slotted, ~Examine, ~Rename
        PROVE  pc \in Slotted /\ slot' = slot /\ file' = file
    BY <2>3, Stays, Writers DEF InFile, Slotted, EnterFileItem, NextKid
  <2> QED BY <2>1, <2>2, <2>3 DEF Named
<1> QED BY <1>1, <1>2, <1>3 DEF Named, Own

-----------------------------------------------------------------------------
(* Temp files, and the file being written *)

LEMMA OrphanStep ==
  ASSUME TypeOK, Locals, Named, NoOrphanTemp, [Next]_vars
  PROVE  NoOrphanTemp'
<1>0. /\ \A k \in Keys : Exists(temp[k]) => partials[k] # NoPartial
      /\ pc \in InFile => key \in Keys
      /\ ~Exists(NoFile)
  BY FileFacts DEF NoOrphanTemp, Exists, NoFile
<1>1. \A k \in Keys : Exists(temp'[k]) => partials'[k] # NoPartial
  <2>1. CASE RetrySkipping
    <3>1. \A k \in Keys :
            \/ temp'[k] = NoFile
            \/ temp'[k] = temp[k] /\ partials'[k] = partials[k]
            \/ temp'[k] = temp[k] /\ (partials[k] = NoPartial \/ ~Exists(temp[k]))
      BY <2>1 DEF RetrySkipping
    <3> QED BY <1>0, <3>1
  <2>2. CASE Discard
    <3>1. \A k \in Keys : temp'[k] = NoFile \/ (temp'[k] = temp[k] /\ partials[k] = NoPartial)
      BY <2>2 DEF Discard, Discarded
    <3> QED BY <1>0, <3>1
  <2>3. CASE OpenPartial
    <3>1. pc \in InFile
      BY <2>3 DEF OpenPartial, InFile
    <3>2. /\ partials' = [partials EXCEPT ![key] = [slot |-> slot, replacing |-> known[slot]]]
          /\ temp' = [temp EXCEPT ![key] = IF Exists(@) /\ @.len > 0 THEN @ ELSE Fresh] \/ temp' = temp
      BY <2>3 DEF OpenPartial
    <3>3. /\ \A k \in Keys : k # key => partials'[k] = partials[k] /\ temp'[k] = temp[k]
          /\ partials'[key] = [slot |-> slot, replacing |-> known[slot]]
      BY <1>0, <3>1, <3>2 DEF TypeOK
    <3>4. slot \in Slots
      BY <2>3 DEF Named, Own, OpenPartial, Slotted, InFile
    <3> QED BY <1>0, <3>1, <3>3, <3>4, SlotFacts
  <2>4. CASE Pump
    <3>1. pc \in InFile /\ partials' = partials /\ (mode # "temp" => temp' = temp)
      BY <2>4 DEF Pump, InFile, checkpointVars
    <3>2. \A k \in Keys : k # key => temp'[k] = temp[k]
      BY <1>0, <2>4, <3>1 DEF Pump, TypeOK
    <3>3. mode = "temp" => partials[key] # NoPartial
      BY <2>4 DEF Pump, Locals
    <3> QED BY <1>0, <3>1, <3>2, <3>3
  <2>5. CASE RenameTemp
    <3>1. pc \in InFile /\ PutInPlace /\ partials' = (IF mode = "temp" THEN [partials EXCEPT ![key] = NoPartial] ELSE partials)
      BY <2>5 DEF RenameTemp, InFile
    <3>2. CASE mode = "temp"
      <4>1. /\ \A k \in Keys : k # key => partials'[k] = partials[k] /\ temp'[k] = temp[k]
            /\ temp'[key] = NoFile
        BY <1>0, <3>1, <3>2 DEF PutInPlace, TypeOK
      <4> QED BY <1>0, <4>1
    <3> QED BY <1>0, <3>1, <3>2 DEF PutInPlace
  <2>6. CASE RenameFails
    <3>1. pc \in InFile /\ partials' = partials /\ (PutInPlace \/ temp' = temp)
      BY <2>6 DEF RenameFails, InFile
    <3>2. \A k \in Keys : temp'[k] = temp[k] \/ temp'[k] = NoFile
      BY <1>0, <3>1 DEF PutInPlace, TypeOK
    <3> QED BY <1>0, <3>1, <3>2
  <2> QED BY <1>0, <2>1, <2>2, <2>3, <2>4, <2>5, <2>6, Writers
<1>2. pc' = "over" => \A k \in Keys : ~Exists(temp'[k])
  <2>1. CASE Discard
    <3>1. \A k \in Keys : temp'[k] = NoFile \/ (temp'[k] = temp[k] /\ partials[k] = NoPartial)
      BY <2>1 DEF Discard, Discarded
    <3> QED BY <1>0, <3>1
  <2>2. CASE UNCHANGED vars
    BY <2>2 DEF vars, fsVars, NoOrphanTemp
  <2> QED BY <2>1, <2>2, Arrivals
<1> QED BY <1>1, <1>2 DEF NoOrphanTemp, Exists

LEMMA Steady ==
  ASSUME TypeOK, Locals, [Next]_vars, pc' \in Slotted
  PROVE  /\ pc \in InFile /\ file' = file /\ ver' = ver /\ key' = key /\ src' = src /\ Blocks' = Blocks
         /\ pc # "file" /\ pc # "ask" => slot' = slot
<1>1. pc \in InFile /\ file' = file /\ ver' = ver
  BY Stays DEF Slotted, InFile, EnterFileItem, NextKid
<1>2. ~Touching
  BY Stays DEF Touching, Touch, Slotted, InFile, loopVars, fileVars
<1> QED BY <1>1, <1>2, Writers DEF key, Key, Blocks, fixedVars, Examine, Rename

LEMMA GrowingStep ==
  ASSUME TypeOK, Locals, Named, Growing, Clean, NoOrphanTemp, [Next]_vars
  PROVE  Growing'
<1>0. /\ setting' = setting /\ Blocks' = Blocks /\ Blocks \in Nat /\ NoFile.len = 0 /\ Fresh.len = 0
      /\ \A k \in Keys : temp[k].len \in Nat /\ temp[k].len <= Blocks
  BY SettingFacts, Writers DEF TypeOK, fixedVars, Blocks, NoFile, Fresh, Growing, Entry
<1>1. pc \in InFile => key \in Keys /\ file \in Files
  BY FileFacts
<1>2. pc \in Slotted => slot \in Slots /\ pc \in InFile
  BY DEF Named, Own, Slotted
<1>3. ASSUME pc = "pump"
      PROVE  /\ mode = "temp" => Versioned(temp[key], file) /\ temp[key].len <= copied
             /\ mode \in {"part", "atomic"} => WrittenTo(part[slot])
             /\ mode \in {"direct", "inplace"} => WrittenTo(dst[slot])
             /\ copied \in Nat
  BY <1>3 DEF Growing, TypeOK
<1>4. \A e \in Entry : Versioned(e, file) => Versioned(Grown(e), file) /\ Grown(e).len = e.len + 1
  BY DEF Versioned, Grown
<1>5. /\ temp \in [Keys -> Entry] /\ part \in [Slots -> Entry] /\ dst \in [Slots -> Entry]
  BY DEF TypeOK
<1>6. \A k \in Keys : temp'[k].len <= Blocks
  <2>1. CASE RetrySkipping \/ Discard
    <3>1. \A k \in Keys : temp'[k] = temp[k] \/ temp'[k] = NoFile
      BY <2>1 DEF RetrySkipping, Discard, Discarded
    <3> QED BY <1>0, <3>1
  <2>2. CASE OpenPartial
    <3>1. \A k \in Keys : temp'[k] = temp[k] \/ temp'[k] = Fresh
      BY <1>5, <2>2 DEF OpenPartial
    <3> QED BY <1>0, <3>1
  <2>3. CASE Pump
    <3>1. CASE mode = "temp" /\ temp' = [temp EXCEPT ![key] = Grown(@)]
      <4>1. key \in Keys /\ copied < Blocks /\ pc = "pump"
        BY <1>1, <2>3 DEF Pump, InFile
      <4>2. temp'[key] = Grown(temp[key]) /\ \A k \in Keys : k # key => temp'[k] = temp[k]
        BY <1>5, <3>1, <4>1
      <4>3. temp'[key].len = temp[key].len + 1
        BY <1>3, <1>4, <1>5, <3>1, <4>1, <4>2
      <4> QED BY <1>0, <1>3, <3>1, <4>1, <4>2, <4>3
    <3> QED BY <1>0, <2>3, <3>1 DEF Pump
  <2>4. CASE RenameTemp \/ RenameFails
    <3>1. \A k \in Keys : temp'[k] = temp[k] \/ temp'[k] = NoFile
      BY <1>5, <2>4 DEF RenameTemp, RenameFails, PutInPlace
    <3> QED BY <1>0, <3>1
  <2> QED BY <1>0, <2>1, <2>2, <2>3, <2>4, Writers
<1>7. pc' = "pump" =>
        /\ mode' = "temp" => Versioned(temp[key], file)' /\ temp'[key'].len <= copied'
        /\ mode' \in {"part", "atomic"} => WrittenTo(part[slot])'
        /\ mode' \in {"direct", "inplace"} => WrittenTo(dst[slot])'
  <2> SUFFICES ASSUME pc' = "pump"
               PROVE  /\ mode' = "temp" => Versioned(temp[key], file)' /\ temp'[key'].len <= copied'
                      /\ mode' \in {"part", "atomic"} => WrittenTo(part[slot])'
                      /\ mode' \in {"direct", "inplace"} => WrittenTo(dst[slot])'
    OBVIOUS
  <2>1. file' = file /\ key' = key /\ src' = src /\ pc \in InFile
    BY Steady DEF Slotted, InFile
  <2>2. CASE OpenPartial
    <3>1. slot' = slot /\ mode' = "temp" /\ copied' = temp[key].len
          /\ temp' = [temp EXCEPT ![key] = IF Exists(@) /\ @.len > 0 THEN @ ELSE Fresh]
      BY <2>2 DEF OpenPartial, Offset, Fail, FileFails
    <3>2. temp'[key] = (IF Exists(temp[key]) /\ temp[key].len > 0 THEN temp[key] ELSE Fresh)
      BY <1>1, <1>5, <2>1, <3>1
    <3>3. Exists(temp[key]) => Versioned(temp[key], file)
      <4>1. pc = "open" /\ file \in Stamped /\ key = <<file, ver>>
        BY <2>1, <2>2, FileFacts DEF OpenPartial, Resumable
      <4>2. Exists(temp[key]) => partials[key] # NoPartial
        BY <1>1, <2>1 DEF NoOrphanTemp
      <4>3. Exists(temp[key]) => temp[key].of = file /\ ver <= temp[key].ver /\ temp[key].ver <= src[file]
        BY <1>1, <2>1, <4>1 DEF Clean
      <4>4. Exists(temp[key]) => ver = src[file]
        BY <4>1, <4>2 DEF Clean
      <4>5. temp[key].ver \in Nat /\ src[file] \in Nat
        BY <2>1, FileFacts DEF Entry
      <4> QED BY <4>3, <4>4, <4>5 DEF Versioned, WrittenTo
    <3>4. Versioned(Fresh, file)
      BY DEF Versioned, Fresh
    <3> QED BY <1>0, <1>1, <2>1, <3>1, <3>2, <3>3, <3>4 DEF Versioned, WrittenTo
  <2>3. CASE OpenReplace
    <3>1. slot' = slot /\ copied' = 0 /\ slot \in Slots /\ Versioned(Fresh, file)
      BY <1>2, <2>3 DEF OpenReplace, Versioned, Fresh, Slotted, InFile
    <3>2. \/ mode' \in {"direct", "inplace"} /\ dst' = [dst EXCEPT ![slot] = Fresh]
          \/ mode' \in {"part", "atomic"} /\ part' = [part EXCEPT ![slot] = Fresh]
      BY <2>3 DEF OpenReplace
    <3>3. \/ mode' \in {"direct", "inplace"} /\ dst'[slot] = Fresh
          \/ mode' \in {"part", "atomic"} /\ part'[slot] = Fresh
      BY <1>5, <3>1, <3>2
    <3> QED BY <1>0, <2>1, <3>1, <3>3 DEF Versioned, WrittenTo
  <2>4. CASE Pump
    <3>1. /\ pc = "pump" /\ slot' = slot /\ mode' = mode /\ copied' = copied + 1 /\ slot \in Slots /\ key \in Keys
          /\ copied \in Nat
      BY <1>1, <1>2, <1>3, <2>4 DEF Pump, Slotted, InFile
    <3>2. CASE mode = "temp"
      <4>1. temp'[key] = Grown(temp[key]) \/ temp'[key] = temp[key]
        BY <1>5, <2>4, <3>1, <3>2 DEF Pump
      <4>2. Versioned(temp'[key], file) /\ temp'[key].len <= copied + 1
        BY <1>0, <1>3, <1>4, <1>5, <3>1, <3>2, <4>1
      <4> QED BY <2>1, <3>1, <3>2, <4>2 DEF Versioned, WrittenTo
    <3>3. CASE mode \in {"part", "atomic"}
      <4>1. part'[slot] = Grown(part[slot])
        BY <1>5, <2>4, <3>1, <3>3 DEF Pump
      <4>2. Versioned(part'[slot], file) /\ part'[slot].len = copied + 1
        BY <1>3, <1>4, <1>5, <3>1, <3>3, <4>1 DEF WrittenTo
      <4> QED BY <2>1, <3>1, <3>3, <4>2 DEF Versioned, WrittenTo
    <3>4. CASE mode \in {"direct", "inplace"}
      <4>1. dst'[slot] = Grown(dst[slot])
        BY <1>5, <2>4, <3>1, <3>4 DEF Pump
      <4>2. Versioned(dst'[slot], file) /\ dst'[slot].len = copied + 1
        BY <1>3, <1>4, <1>5, <3>1, <3>4, <4>1 DEF WrittenTo
      <4> QED BY <2>1, <3>1, <3>4, <4>2 DEF Versioned, WrittenTo
    <3> QED BY <3>1, <3>2, <3>3, <3>4
  <2>5. CASE pc = "pump" /\ UNCHANGED <<slot, mode, copied, temp, part, dst>>
    BY <1>3, <2>1, <2>5 DEF Versioned, WrittenTo
  <2> QED BY <2>2, <2>3, <2>4, <2>5, Arrivals DEF Cancel, vars, fileVars, fsVars
<1> QED BY <1>0, <1>6, <1>7 DEF Growing

\* No step makes a mixed file: what is appended to is of the version being read.
LEMMA CleanStep ==
  ASSUME TypeOK, Locals, Named, Growing, Clean, NoOrphanTemp, [Next]_vars
  PROVE  Clean'
<1>0. /\ pc \in InFile => key \in Keys /\ file \in Files /\ Fresh.of # "mixed" /\ file # "mixed"
      /\ pc \in Slotted => slot \in Slots
      /\ NoFile.of # "mixed" /\ Other.of # "mixed" /\ ~Exists(NoFile)
      /\ \A f \in Files : Moved(f).of # "mixed"
      /\ temp \in [Keys -> Entry] /\ part \in [Slots -> Entry] /\ dst \in [Slots -> Entry]
  BY FileFacts, Constants DEF Named, Own, TypeOK, Fresh, NoFile, Other, Moved, Nobody, Exists
<1>1. /\ \A s \in Slots : dst[s].of # "mixed" /\ part[s].of # "mixed"
      /\ \A k \in Keys : Exists(temp[k]) => temp[k].of = k[1] /\ temp[k].of # "mixed"
      /\ \A k \in Keys : ~Exists(temp[k]) => temp[k].of # "mixed"
  BY Constants DEF Clean, Exists, Nobody, Keys
<1>2. pc = "pump" =>
        /\ mode = "temp" => Grown(temp[key]).of = file
        /\ mode \in {"part", "atomic"} => Grown(part[slot]).of = file
        /\ mode \in {"direct", "inplace"} => Grown(dst[slot]).of = file
  BY DEF Growing, Grown, Versioned, WrittenTo
<1>3. \A s \in Slots : dst'[s].of # "mixed"
  <2>1. CASE Replacing
    <3>1. \A s \in Slots : dst'[s] = dst[s] \/ dst'[s] = Other
      BY <1>0, <2>1 DEF Replacing, Replace
    <3> QED BY <1>0, <1>1, <3>1
  <2>2. CASE MoveWithin \/ MoveWithinFails
    <3>1. PICK S \in SUBSET Files : dst' = Placing(S)
      <4>1. Kids[item] \subseteq Files
        BY <2>2, Constants DEF MoveWithin, MoveWithinFails, Locals, InItem
      <4> QED BY <2>2, <4>1 DEF MoveWithin, MoveWithinFails
    <3> QED BY <1>0, <1>1, <3>1, Places
  <2>3. CASE OpenReplace \/ OpenFails
    <3>1. \A s \in Slots : dst'[s] \in {dst[s], Fresh, NoFile}
      BY <1>0, <2>3 DEF OpenReplace, OpenFails
    <3>2. Fresh.of # "mixed"
      BY <1>0, <2>3 DEF OpenReplace, OpenFails, InFile
    <3> QED BY <1>0, <1>1, <3>1, <3>2
  <2>4. CASE Pump
    <3>1. \A s \in Slots : dst'[s] = dst[s] \/ (s = slot /\ mode \in {"direct", "inplace"} /\ dst'[s] = Grown(dst[slot]))
      BY <1>0, <2>4 DEF Pump
    <3> QED BY <1>0, <1>1, <1>2, <2>4, <3>1 DEF Pump, InFile
  <2>5. CASE PumpEnds \/ PumpBreaks
    <3>1. \A s \in Slots : dst'[s] = dst[s] \/ dst'[s] = NoFile \/ (s = slot /\ dst'[s] = part[slot])
      BY <1>0, <2>5 DEF PumpEnds, PumpBreaks
    <3> QED BY <1>0, <1>1, <3>1
  <2>6. CASE DeleteOld \/ DeleteOldFails
    <3>1. \A s \in Slots : dst'[s] = dst[s] \/ dst'[s] = NoFile
      BY <1>0, <2>6 DEF DeleteOld, DeleteOldFails
    <3> QED BY <1>0, <1>1, <3>1
  <2>7. CASE RenameTemp \/ RenameFails
    <3>1. pc \in InFile
      BY <2>7 DEF RenameTemp, RenameFails, InFile
    <3>2. \A s \in Slots : dst'[s] = dst[s] \/ dst'[s] = temp[key] \/ (s = slot /\ dst'[s] = part[slot])
      BY <1>0, <2>7 DEF RenameTemp, RenameFails, PutInPlace
    <3> QED BY <1>0, <1>1, <3>1, <3>2
  <2>8. CASE Stamp
    <3>1. \A s \in Slots : dst'[s].of = dst[s].of
      BY <1>0, <2>8 DEF Stamp, Entry
    <3> QED BY <1>1, <3>1
  <2> QED BY <1>1, <2>1, <2>2, <2>3, <2>4, <2>5, <2>6, <2>7, <2>8, Writers
<1>4. \A s \in Slots : part'[s].of # "mixed"
  <2>1. CASE OpenReplace
    <3>1. \A s \in Slots : part'[s] \in {part[s], Fresh}
      BY <1>0, <2>1 DEF OpenReplace
    <3> QED BY <1>0, <1>1, <2>1, <3>1 DEF OpenReplace, InFile
  <2>2. CASE Pump
    <3>1. \A s \in Slots : part'[s] = part[s] \/ (s = slot /\ mode \in {"part", "atomic"} /\ part'[s] = Grown(part[slot]))
      BY <1>0, <2>2 DEF Pump
    <3> QED BY <1>0, <1>1, <1>2, <2>2, <3>1 DEF Pump, InFile
  <2>3. CASE PumpEnds \/ PumpBreaks \/ RenameTemp \/ RenameFails
    <3>1. \A s \in Slots : part'[s] = part[s] \/ part'[s] = NoFile
      BY <1>0, <2>3 DEF PumpEnds, PumpBreaks, RenameTemp, RenameFails, PutInPlace
    <3> QED BY <1>0, <1>1, <3>1
  <2> QED BY <1>1, <2>1, <2>2, <2>3, Writers
<1>5. \A k \in Keys : Exists(temp'[k]) =>
        k[1] \in Stamped /\ temp'[k].of = k[1] /\ k[2] <= temp'[k].ver /\ temp'[k].ver <= src'[k[1]]
  <2> DEFINE Right(k, e) == k[1] \in Stamped /\ e.of = k[1] /\ k[2] <= e.ver /\ e.ver <= src[k[1]]
  <2>1. \A k \in Keys : Exists(temp[k]) => Right(k, temp[k])
    BY DEF Clean
  <2>2. CASE Touching
    <3>1. /\ temp' = temp
          /\ \A f \in Files : src[f] \in Nat /\ (src'[f] = src[f] \/ src'[f] = src[f] + 1)
      BY <2>2 DEF Touching, Touch, TypeOK, Versions
    <3>2. \A k \in Keys : k[1] \in Files /\ temp[k].ver \in Nat
      BY <1>0 DEF Keys, Entry
    <3> HIDE DEF Keys
    <3> QED BY <2>1, <3>1, <3>2
  <2>3. CASE src' = src
    <3>1. \A k \in Keys : temp'[k] = temp[k] \/ ~Exists(temp'[k]) \/ Right(k, temp'[k])
      <4>1. CASE RetrySkipping \/ Discard
        BY <1>0, <4>1 DEF RetrySkipping, Discard, Discarded
      <4>2. CASE OpenPartial
        <5>1. \A k \in Keys : temp'[k] = temp[k] \/ (k = key /\ temp'[k] = Fresh)
          BY <1>0, <4>2 DEF OpenPartial
        <5>2. pc \in InFile /\ file \in Stamped
          BY <4>2 DEF OpenPartial, Resumable, InFile
        <5>3. key = <<file, ver>> /\ ver <= src[file] /\ src[file] \in Nat
          BY <5>2, FileFacts DEF Locals
        <5> QED BY <5>1, <5>2, <5>3 DEF Fresh
      <4>3. CASE Pump
        <5>1. \A k \in Keys : temp'[k] = temp[k] \/ (k = key /\ mode = "temp" /\ temp'[k] = Grown(temp[key]))
          BY <1>0, <4>3 DEF Pump
        <5>2. pc = "pump" /\ pc \in InFile
          BY <4>3 DEF Pump, InFile
        <5>3. ASSUME mode = "temp"
              PROVE  /\ key = <<file, ver>> /\ ver <= src[file] /\ file \in Stamped
                     /\ Grown(temp[key]).of = file /\ Grown(temp[key]).ver = src[file] /\ src[file] \in Nat
          BY <1>2, <5>2, <5>3, FileFacts DEF Locals, Resumable, Grown
        <5> QED BY <5>1, <5>3
      <4>4. CASE RenameTemp \/ RenameFails
        BY <1>0, <4>4 DEF RenameTemp, RenameFails, PutInPlace
      <4> QED BY <4>1, <4>2, <4>3, <4>4, Writers
    <3> QED BY <2>1, <2>3, <3>1
  <2> QED BY <2>2, <2>3, Writers
<1>6. pc' \in {"file", "ask", "open"} => ver' = src'[file'] \/ partials'[key'] = NoPartial
  <2> SUFFICES ASSUME pc' \in {"file", "ask", "open"}
               PROVE  ver' = src'[file'] \/ partials'[key'] = NoPartial
    OBVIOUS
  <2>1. CASE EnterFileItem
    <3>1. /\ file' = item /\ ver' = (IF NeedsRefresh THEN src[item] ELSE 1) /\ ~IsDir(item)
          /\ src' = src /\ partials' = partials
      BY <2>1 DEF EnterFileItem, fsVars, checkpointVars
    <3>2. ~NeedsRefresh => key' = Key(item, 1) /\ partials[Key(item, 1)] = NoPartial
      BY <3>1 DEF key, Key, NeedsRefresh
    <3> QED BY <3>1, <3>2
  <2>2. CASE NextKid
    BY <2>2 DEF NextKid, fsVars
  <2>3. CASE ~EnterFileItem /\ ~NextKid
    <3>1. file' = file /\ ver' = ver /\ pc \in InFile
      BY <2>3, Stays DEF InFile
    <3>2. pc \in {"file", "ask", "open"} /\ partials' = partials /\ src' = src
      BY <2>3, <3>1, Arrivals, Writers DEF Examine, Overwrite, Rename, Cancel, vars, fsVars, checkpointVars
    <3>3. key' = key
      BY <3>1 DEF key, Key
    <3> QED BY <3>1, <3>2, <3>3 DEF Clean
  <2> QED BY <2>1, <2>2, <2>3
<1> QED BY <1>3, <1>4, <1>5, <1>6 DEF Clean, Exists

-----------------------------------------------------------------------------
(* The first theorems *)

IInv ==
  /\ TypeOK
  /\ Locals
  /\ Named
  /\ Growing
  /\ Clean
  /\ NoOrphanTemp

\* What stands at the destination at first.
LEMMA InitFiles ==
  ASSUME Init
  PROVE  \E F, N :
           /\ \A i \in Listed : IsDir(i) /\ i \notin dirs => \A f \in Kids[i] : NameOf[f] \notin F \cup N
           /\ dst = Standing(F, N)
BY Zenon DEF Init

LEMMA InitInv ==
  ASSUME Init
  PROVE  IInv
<1>1. setting \in Settings /\ Listed \subseteq Items /\ Blocks \in Nat
  BY SettingFacts DEF Init
<1>2. src \in [Files -> Versions]
  BY Constants DEF Init, Versions
<1>3. NoFile \in Entry /\ Folder \in Entry /\ Old \in Entry /\ NoPartial \in [slot : Slots \cup {NoSlot}, replacing : Entry]
      /\ NoOutput \in [slot : Slots \cup {NoSlot}, mt : Times]
  BY <1>1, <1>2, Entries
<1>4. dst \in [Slots -> Entry] /\ \A s \in Slots : dst[s] \in {NoFile, Folder, Old}
  <2>1. PICK F, N : dst = Standing(F, N)
    BY InitFiles, Zenon
  <2> QED BY <1>3, <2>1 DEF Standing
<1>5. TypeOK
  <2>1. part \in [Slots -> Entry] /\ temp \in [Keys -> Entry] /\ known \in [Slots -> Entry]
    BY <1>3, <1>4 DEF Init
  <2>2. /\ outputs \in [Keys -> [slot : Slots \cup {NoSlot}, mt : Times]]
        /\ partials \in [Keys -> [slot : Slots \cup {NoSlot}, replacing : Entry]]
    BY <1>3 DEF Init
  <2>3. dirs \subseteq Items /\ todo \in Seq(Items)
    <3>1. <<>> \in Seq(Items)
      OBVIOUS
    <3> QED BY <1>1, <3>1 DEF Init
  <2>4. /\ 0 \in 0..MaxVersion /\ 0 \in 0..MaxBlocks /\ 0 \in 0..MaxFaults
    BY Constants
  <2> QED BY <1>1, <1>2, <1>4, <2>1, <2>2, <2>3, <2>4 DEF TypeOK, FlagsOK, Init
<1>6. \A s \in Slots : dst[s].of # "mixed" /\ part[s].of # "mixed"
  BY <1>4 DEF Init, NoFile, Folder, Old, Nobody
<1>7. \A k \in Keys : ~Exists(temp[k]) /\ temp[k].len = 0 /\ partials[k] = NoPartial /\ outputs[k] = NoOutput
  BY DEF Init, Exists, NoFile
<1>8. pc = "idle"
  BY DEF Init
<1> QED BY <1>1, <1>5, <1>6, <1>7, <1>8 DEF IInv, Locals, Named, Growing, Clean, NoOrphanTemp, InFile, InItem, Slotted

LEMMA StepInv ==
  ASSUME IInv, [Next]_vars
  PROVE  IInv'
  BY TypeStep, LocalsStep, NamedStep, GrowingStep, CleanStep, OrphanStep DEF IInv

\* Transfers, their checkpoints and their locals keep their types, every location the
\* code reads is one it has set, and the files being written grow as the loop counts
\* (CopyEngine.transfer, copyEntry, TransferCheckpoint).
THEOREM Invariant == Spec => []IInv
<1> QED BY InitInv, StepInv, PTL DEF Spec

\* No destination file holds blocks of two versions of its source, whatever is edited,
\* fails, is cancelled or retried, and whoever else writes there (TransferCheckpoint.key,
\* copyEntry 258-287).
THEOREM VersionsNeverMix == Spec => []NoMixedFile
<1>1. IInv => NoMixedFile
  BY DEF IInv, Clean, NoMixedFile
<1> QED BY <1>1, Invariant, PTL

\* Every temp file is one the checkpoint lists until the transfer is over, and then
\* there is none (copyEntry 258-287, Transfers.discardPartials).
THEOREM TempFilesAreKnown == Spec => []NoOrphanTemp
<1>1. IInv => NoOrphanTemp
  BY DEF IInv
<1> QED BY <1>1, Invariant, PTL

-----------------------------------------------------------------------------
(* What the transfer knows of the destination                              *)

\* No two files of the batch go to the same name.
Apart == \A f, g \in Sources : NameOf[f] = NameOf[g] => f = g

Running == InItem \cup {"pick"}
Writing == {"pump", "verify", "delete", "rename", "stamp"}
Aside == {"temp", "part", "atomic"}

\* The batch is walked through once in an attempt, and a directory's files once.
Ahead == {todo[n] : n \in DOMAIN todo}
Walk ==
  /\ pc \in Running =>
       /\ todo \in Seq(Listed)
       /\ \A m, n \in DOMAIN todo : m # n => todo[m] # todo[n]
  /\ pc \in InItem => item \in Listed /\ item \notin Ahead /\ item \notin skipped
  /\ pc = "item" => kids = {}
  /\ pc = "kid" => IsDir(item)
  /\ pc \in InFile => file \notin kids
  /\ pc \in InFile \cup {"kid"} /\ IsDir(item) => item \in dirs
  /\ pc \in Writing => file \notin gone

\* A file of the batch is at the destination only under its own name.
At(e, s) == e.of \in Files => e.of \in Sources /\ NameOf[e.of] = s[1]
Homes ==
  /\ \A s \in Slots : At(dst[s], s) /\ (~Exists(dst[s]) => dst[s] = NoFile)
  /\ \A k \in Keys : partials[k] # NoPartial => At(partials[k].replacing, partials[k].slot)
  /\ \A i \in Listed : IsDir(i) /\ i \notin dirs =>
       \A f \in Kids[i] : \A s \in Slots : s[1] = NameOf[f] => ~Exists(dst[s])

\* What the write in progress has staged.
Staged ==
  /\ pc = "verify" => Versioned(temp[key], file)
  /\ pc \in {"delete", "rename"} =>
       /\ mode = "temp" => WholeCopy(file, temp[key])
       /\ mode = "part" => Versioned(part[slot], file) /\ (move \/ ~Given("shortReads") => part[slot].len = Blocks)
  /\ pc = "stamp" => Versioned(dst[slot], file) /\ (move \/ ~Given("shortReads") => dst[slot].len = Blocks)

\* The cached listing is right about every name the attempt is still to look at.
Pending ==
  (UNION {Kids[i] : i \in Ahead}) \cup
  (IF pc = "item" THEN Kids[item] ELSE {}) \cup
  (IF pc \in InFile \cup {"kid"} THEN kids ELSE {}) \cup
  (IF pc \in {"file", "ask", "open"} THEN {file} ELSE {})
Listing ==
  /\ pc \in Running =>
       \A f \in Pending : \A s \in Slots : s[1] = NameOf[f] => known[s] = dst[s]
  /\ pc \in {"pump", "verify", "delete"} /\ mode \in Aside =>
       known[slot] = dst[slot] /\ known[slot] # Folder

\* What was shown to the user and may be replaced.
Shown(s, e) == Exists(e) /\ e # Folder => <<s, e.of, e.ver>> \in released
Approved ==
  /\ pc = "open" \/ (pc \in {"pump", "verify", "delete"} /\ mode \in Aside) => Shown(slot, known[slot])
  /\ \A k \in Keys : partials[k] # NoPartial =>
       partials[k].replacing # Folder /\ Shown(partials[k].slot, partials[k].replacing)

\* The modification time tells one content of a name from another.
Stock == {dst[s] : s \in Slots} \cup {partials[k].replacing : k \in Keys}
Dated(e) ==
  /\ e.mt = OldTime => e \in {Old, Folder}
  /\ e.mt = OtherTime => e = Other
  /\ e.mt \in Versions =>
       /\ e.of \in Stamped /\ e.mt <= e.ver /\ e.ver <= src[e.of]
       /\ outputs[<<e.of, e.mt>>] # NoOutput \/ e.of \in gone
Stocked ==
  /\ \A e \in Stock : Dated(e)
  /\ \A e, g \in Stock : e.of = g.of /\ e.mt = g.mt /\ e.mt \in Versions => e.ver = g.ver
  /\ \A k \in Keys : temp[k].mt = 0
  /\ \A s \in Slots : part[s].mt = 0

\* What the checkpoint recorded of the versions of a file.
Recorded ==
  /\ \A k \in Keys : outputs[k] # NoOutput =>
       /\ k[1] \in Sources /\ k[2] <= src[k[1]] /\ outputs[k].mt \in {0, k[2]}
       /\ k[1] \in Stamped => 1 <= k[2] /\ (outputs[k].mt = 0 => Given("stampFails"))
  /\ \A k \in completed : outputs[k] # NoOutput
  /\ pc \in Slotted => key \notin completed
  /\ pc \in InFile /\ ver # src[file] => \A v \in 0..MaxVersion : outputs[<<file, v>>] = NoOutput
  /\ pc \in InFile /\ ver # 1 /\ ~IsDir(item) =>
       partials[Key(item, 1)] # NoPartial \/ outputs[Key(item, 1)] # NoOutput
  /\ pc # "over" => \A f \in Items \ skipped : \A v \in 0..MaxVersion :
       ~IsDir(f) /\ outputs[<<f, v>>] # NoOutput =>
         partials[Key(f, 1)] # NoPartial \/ outputs[Key(f, 1)] # NoOutput
  /\ pc = "failed" /\ failure.key # NoKey => failure.what = failure.key[1]

\* An output whose time could not be set stands as it was left, or a stranger's file
\* stands there.
Undated ==
  move => \A k \in completed :
    k[1] \in Stamped /\ k[2] = src[k[1]] /\ outputs[k].mt = 0 =>
      WholeCopy(k[1], dst[outputs[k].slot]) \/ dst[outputs[k].slot] = Other

\* Each file of a complete item is at the destination, or is taken to be, so that it
\* may be deleted.
Delivered(f) ==
  \E s \in Slots : WholeCopy(f, dst[s]) \/ <<s, f, src[f]>> \in released \/ Mistaken(f, s)
Complete ==
  move =>
    /\ pc \in InFile \cup {"kid"} /\ IsDir(item) /\ complete =>
         \A f \in Kids[item] \ kids : (pc \in InFile => f # file) => Delivered(f)
    /\ pc = "placed" => \A f \in Kids[item] : Delivered(f)

Knows ==
  /\ Walk
  /\ Homes
  /\ Staged
  /\ Listing
  /\ Approved
  /\ Stocked
  /\ Recorded

-----------------------------------------------------------------------------
(* The batch *)

LEMMA Batches ==
  ASSUME setting \in Settings
  PROVE  /\ \A i, j \in Items : i # j => Kids[i] \cap Kids[j] = {}
         /\ \A i \in Items : i \in Files => Kids[i] = {i}
         /\ \A i \in Listed : Kids[i] \subseteq Sources
         /\ Batch \in Seq(Listed) /\ Listed \subseteq Items /\ Sources \subseteq Files
         /\ \A m, n \in DOMAIN Batch : m # n => Batch[m] # Batch[n]
<1>1. Batch \in Seq(Listed)
  BY SettingFacts DEF Listed
<1>2. /\ \A i, j \in Items : i # j => Kids[i] \cap Kids[j] = {}
      /\ \A i \in Items : i \in Files => Kids[i] = {i}
      /\ \A m, n \in DOMAIN Batch : m # n => Batch[m] # Batch[n]
  BY EngineAssumption DEF EngineAssumption, Batch
<1> QED BY <1>1, <1>2, SettingFacts DEF Sources

LEMMA Fixed ==
  ASSUME [Next]_vars
  PROVE  /\ setting' = setting /\ move' = move /\ Batch' = Batch /\ Listed' = Listed /\ Sources' = Sources
         /\ Targets' = Targets /\ Blocks' = Blocks /\ backend' = backend /\ Old' = Old /\ Other' = Other
         /\ (Apart' <=> Apart)
<1>1. setting' = setting /\ move' = move
  BY Writers DEF fixedVars
<1>2. Batch' = Batch /\ Blocks' = Blocks /\ backend' = backend
  BY <1>1 DEF Batch, Blocks, backend
<1>3. Listed' = Listed /\ Old' = Old /\ Other' = Other
  BY <1>2 DEF Listed, Old, Other
<1>4. Sources' = Sources
  BY <1>3 DEF Sources
<1>5. Targets' = Targets /\ (Apart' <=> Apart)
  BY <1>4 DEF Targets, Apart
<1> QED BY <1>1, <1>2, <1>3, <1>4, <1>5

\* Where copyEntry is: a file of the batch, and a slot of its name.
LEMMA Here ==
  ASSUME IInv, Walk
  PROVE  /\ pc \in InItem => item \in Listed /\ item \in Items /\ Kids[item] \subseteq Sources
         /\ pc \in InFile =>
              /\ file \in Kids[item] /\ file \in Sources /\ file \in Files /\ file \in Files \cup Items
              /\ key \in Keys /\ key[1] = file /\ src[file] \in Nat /\ ver \in Nat /\ 1 <= ver /\ ver <= src[file]
              /\ (~IsDir(item) => file = item) /\ (file \in Stamped => key = <<file, ver>>)
         /\ pc \in Slotted => pc \in InFile /\ slot \in Slots /\ slot[1] = NameOf[file]
<1>1. setting \in Settings
  BY DEF IInv, TypeOK
<1>2. pc \in InItem => item \in Listed /\ item \in Items /\ Kids[item] \subseteq Sources
  BY <1>1, Batches DEF Walk
<1>3. pc \in InFile => /\ file \in Kids[item] /\ file \in Files /\ key \in Keys /\ key[1] = file /\ pc \in InItem
                       /\ src[file] \in Nat /\ ver \in Nat /\ 1 <= ver /\ ver <= src[file]
                       /\ (file \in Stamped => key = <<file, ver>>)
  BY FileFacts, Constants DEF IInv, Locals, InItem
<1>4. pc \in Slotted => pc \in InFile /\ slot \in Slots /\ slot[1] = NameOf[file]
  BY DEF IInv, Named, Own, Slotted
<1> QED BY <1>2, <1>3, <1>4, Constants

\* What a step may do to a destination file.
LEMMA Effects ==
  ASSUME IInv, Walk, [Next]_vars, NEW s \in Slots
  PROVE  \/ dst'[s] = dst[s]
         \/ /\ Replacing /\ pc = "failed" /\ Given("othersWrite") /\ dst'[s] = Other
            /\ Exists(dst[s]) /\ dst[s] # Folder
            /\ (dst[s].of \in gone => <<s, dst[s].of, dst[s].ver>> \in released')
         \/ /\ (MoveWithin /\ Kids[item] \subseteq gone') \/ (MoveWithinFails /\ backend = "atomic")
            /\ pc = "item" /\ MovesFast /\ (IsDir(item) => item \in dirs')
            /\ \E f \in Kids[item] \ gone : s = <<NameOf[f], 0>> /\ dst'[s] = Moved(f)
         \/ /\ s = slot /\ pc \in Slotted
            /\ \/ OpenReplace /\ dst'[s] = Fresh /\ known[slot] # Folder /\ file \notin gone
               \/ OpenFails /\ ~Exists(known[slot]) /\ dst'[s] = NoFile
               \/ Pump /\ mode \in {"direct", "inplace"} /\ dst'[s] = Grown(dst[s])
               \/ (PumpEnds \/ PumpBreaks) /\ mode = "atomic" /\ dst'[s] = part[s]
               \/ PumpBreaks /\ mode = "direct" /\ dst'[s] = NoFile
               \/ (DeleteOld \/ DeleteOldFails) /\ dst'[s] = NoFile
               \/ (RenameTemp \/ RenameFails) /\ ~Exists(dst[s]) /\ mode = "temp" /\ dst'[s] = temp[key]
               \/ (RenameTemp \/ RenameFails) /\ ~Exists(dst[s]) /\ mode = "part" /\ dst'[s] = part[s]
               \/ Stamp /\ file \in Stamped /\ dst'[s] = [dst[s] EXCEPT !.mt = ver]
<1>0. dst \in [Slots -> Entry] /\ (pc \in Slotted => slot \in Slots)
  BY Here DEF IInv, TypeOK
<1>1. CASE Replacing
  <2>1. PICK n \in Targets : Replace(n)
    BY <1>1 DEF Replacing
  <2>2. CASE s = <<n, 0>>
    BY <1>0, <1>1, <2>1, <2>2 DEF Replace
  <2>3. CASE s # <<n, 0>>
    BY <1>0, <2>1, <2>3 DEF Replace
  <2> QED BY <2>2, <2>3
<1>2. CASE MoveWithin \/ MoveWithinFails
  <2>1. pc = "item" /\ MovesFast /\ Kids[item] \subseteq Files
    BY <1>2, Constants DEF MoveWithin, MoveWithinFails, IInv, Locals, InItem
  <2>2. PICK S \in SUBSET (Kids[item] \ gone) :
          /\ dst' = Placing(S)
          /\ (MoveWithin /\ Kids[item] \subseteq gone') \/ (MoveWithinFails /\ backend = "atomic")
          /\ S # {} => (IsDir(item) => item \in dirs')
    BY <1>2 DEF MoveWithin, MoveWithinFails
  <2>3. dst'[s] = dst[s] \/ \E f \in S : s = <<NameOf[f], 0>> /\ dst'[s] = Moved(f)
    BY <2>1, <2>2, Places
  <2> QED BY <2>1, <2>2, <2>3
<1>3. CASE OpenReplace \/ OpenFails
  <2>1. pc \in Slotted
    BY <1>3 DEF OpenReplace, OpenFails, Slotted, InFile
  <2> QED BY <1>0, <1>3, <2>1 DEF OpenReplace, OpenFails, InTheWay
<1>4. CASE Pump \/ PumpEnds \/ PumpBreaks
  <2>1. pc \in Slotted
    BY <1>4 DEF Pump, PumpEnds, PumpBreaks, Slotted, InFile
  <2> QED BY <1>0, <1>4, <2>1 DEF Pump, PumpEnds, PumpBreaks
<1>5. CASE DeleteOld \/ DeleteOldFails
  <2>1. pc \in Slotted
    BY <1>5 DEF DeleteOld, DeleteOldFails, Slotted, InFile
  <2> QED BY <1>0, <1>5, <2>1 DEF DeleteOld, DeleteOldFails
<1>6. CASE RenameTemp \/ RenameFails
  <2>1. pc \in Slotted /\ mode \in {"temp", "part"}
    BY <1>6 DEF RenameTemp, RenameFails, Slotted, InFile, IInv, Locals
  <2>2. s # slot => dst'[s] = dst[s]
    BY <1>0, <1>6, <2>1 DEF RenameTemp, RenameFails, PutInPlace
  <2>3. s = slot => dst'[s] = dst[s] \/ (~Exists(dst[s]) /\ dst'[s] = IF mode = "temp" THEN temp[key] ELSE part[s])
    BY <1>0, <1>6, <2>1 DEF RenameTemp, RenameFails, PutInPlace
  <2> QED BY <1>6, <2>1, <2>2, <2>3
<1>7. CASE Stamp
  <2>1. pc \in Slotted
    BY <1>7 DEF Stamp, Slotted, InFile
  <2> QED BY <1>0, <1>7, <2>1 DEF Stamp
<1> QED BY <1>1, <1>2, <1>3, <1>4, <1>5, <1>6, <1>7, Writers

\* An attempt begins at one of three steps and ends at failed, finished or over.
LEMMA Leaves ==
  ASSUME [Next]_vars
  PROVE  /\ pc' = "pick" => Start \/ Retry \/ RetrySkipping \/ pc \in InItem \/ pc = "pick"
         /\ pc = "over" => pc' = "over"
<1>1. CASE Start \/ Retry \/ RetrySkipping \/ Discard \/ Cancel \/ Touching \/ Replacing
  BY <1>1 DEF InFile, InItem, Start, Begin, Retry, RetrySkipping, Discard, Cancel, Touching, Touch,
    Replacing, Replace
<1>2. CASE PickEnd \/ PickItem \/ MoveWithin \/ MoveWithinFails \/ EnterFileItem \/ EnterDir \/
           ItemBreaks \/ NextKid \/ EndDir \/ Placed \/ DeleteSourceFails
  BY <1>2 DEF InFile, InItem, PickEnd, PickItem, MoveWithin, MoveWithinFails,
    EnterFileItem, EnterDir, ItemBreaks, NextKid, EndDir, Placed, DeleteSourceFails
<1>3. CASE LeaveOut \/ ShortCircuit \/ Examine \/ ListFails \/ Overwrite \/ Skip \/ Rename \/ Abort
  BY <1>3 DEF InFile, InItem, LeaveOut, ShortCircuit, Examine, ListFails, Overwrite, Skip, Rename, Abort
<1>4. CASE OpenPartial \/ OpenReplace \/ OpenFails
  BY <1>4 DEF InFile, InItem, OpenPartial, OpenReplace, OpenFails
<1>5. CASE Pump \/ PumpEnds \/ PumpBreaks
  BY <1>5 DEF InFile, InItem, Pump, PumpEnds, PumpBreaks
<1>6. CASE Verify \/ VerifyFails \/ DeleteOld \/ DeleteOldFails \/ RenameTemp \/ RenameFails \/
           Stamp
  BY <1>6 DEF InFile, InItem, Verify, VerifyFails, DeleteOld, DeleteOldFails, RenameTemp, RenameFails, Stamp
<1>7. CASE UNCHANGED vars
  BY <1>7 DEF vars
<1> QED
  BY <1>1, <1>2, <1>3, <1>4, <1>5, <1>6, <1>7, NextCases, Zenon

AwaitedIs ==
  \A f : f \in Pending <=> \/ \E i \in Ahead : f \in Kids[i]
                           \/ pc = "item" /\ f \in Kids[item]
                           \/ pc \in InFile \cup {"kid"} /\ f \in kids
                           \/ pc \in {"file", "ask", "open"} /\ f = file

LEMMA Awaited == AwaitedIs
<1> SUFFICES ASSUME NEW f
             PROVE  f \in Pending <=> \/ \E i \in Ahead : f \in Kids[i]
                                      \/ pc = "item" /\ f \in Kids[item]
                                      \/ pc \in InFile \cup {"kid"} /\ f \in kids
                                      \/ pc \in {"file", "ask", "open"} /\ f = file
  BY Zenon DEF AwaitedIs
<1> DEFINE items == UNION {Kids[i] : i \in Ahead}
           one == IF pc = "item" THEN Kids[item] ELSE {}
           rest == IF pc \in InFile \cup {"kid"} THEN kids ELSE {}
           this == IF pc \in {"file", "ask", "open"} THEN {file} ELSE {}
<1>1. f \in items <=> \E i \in Ahead : f \in Kids[i]
  BY Zenon
<1>2. f \in one <=> pc = "item" /\ f \in Kids[item]
  BY Zenon
<1>3. f \in rest <=> pc \in InFile \cup {"kid"} /\ f \in kids
  BY Zenon
<1>4. f \in this <=> pc \in {"file", "ask", "open"} /\ f = file
  BY Zenon
<1>5. Pending = items \cup one \cup rest \cup this
  BY Zenon DEF Pending
<1>6. f \in Pending <=> f \in items \/ f \in one \/ f \in rest \/ f \in this
  <2> HIDE DEF items, one, rest, this
  <2> QED BY <1>5
<1> HIDE DEF items, one, rest, this
<1> QED BY <1>1, <1>2, <1>3, <1>4, <1>6

\* A name is somebody's only once.
LEMMA Alone ==
  ASSUME Apart, NEW f \in Sources, NEW g \in Sources, NEW s, s[1] = NameOf[f], s[1] = NameOf[g]
  PROVE  f = g
  BY DEF Apart

\* What a step does to a destination file that is there: nothing, or what the user
\* or a stranger decided, or the write that is in progress goes on.
LEMMA Protected ==
  ASSUME IInv, Knows, Apart, [Next]_vars, NEW s \in Slots
  PROVE  \/ dst'[s] = dst[s]
         \/ dst[s] = NoFile
         \/ /\ Replacing /\ pc = "failed" /\ Given("othersWrite") /\ dst[s] # Folder
            /\ (dst[s].of \in gone => <<s, dst[s].of, dst[s].ver>> \in released')
         \/ Stamp /\ s = slot /\ pc \in Slotted /\ dst'[s] = [dst[s] EXCEPT !.mt = ver] /\ dst[s].of = file
         \/ /\ s = slot /\ pc = "pump" /\ file \notin gone /\ dst[s].of = file
            /\ mode \in {"direct", "inplace"}
         \/ /\ s = slot /\ pc \in Slotted /\ file \notin gone /\ dst[s] # Folder
            /\ <<s, dst[s].of, dst[s].ver>> \in released /\ ~Stamp
<1>0. /\ pc \in InItem => item \in Listed /\ item \in Items /\ Kids[item] \subseteq Sources
      /\ pc \in Slotted => pc \in InFile /\ slot \in Slots /\ slot[1] = NameOf[file] /\ file \in Sources
      /\ ~Exists(dst[s]) => dst[s] = NoFile
  BY Here DEF Knows, Homes
<1>1. CASE MovesFast /\ pc = "item" /\ \E f \in Kids[item] \ gone : s = <<NameOf[f], 0>> /\ dst'[s] = Moved(f)
  <2>1. PICK f \in Kids[item] : s = <<NameOf[f], 0>>
    BY <1>1
  <2>2. f \in Pending /\ known[s] = dst[s]
    <3>1. f \in Pending
      BY <1>1, <2>1, Awaited DEF AwaitedIs
    <3> QED BY <1>1, <2>1, <3>1 DEF Knows, Listing, Running, InItem, InFile
  <2>3. CASE IsDir(item)
    <3>1. item \notin dirs /\ item \in Listed
      BY <1>0, <1>1, <2>3 DEF MovesFast, ListedFree, InItem
    <3> QED BY <1>0, <2>1, <2>3, <3>1 DEF Knows, Homes
  <2>4. CASE ~IsDir(item)
    <3>1. f = item
      BY <1>0, <1>1, <2>1, <2>4, Constants DEF InItem
    <3> QED BY <1>0, <1>1, <2>1, <2>2, <2>4, <3>1 DEF MovesFast, ListedFree
  <2> QED BY <2>3, <2>4
<1>2. CASE s = slot /\ (OpenReplace \/ OpenFails)
  <2>1. pc = "open" /\ pc \in Slotted
    BY <1>2 DEF OpenReplace, OpenFails, Slotted, InFile
  <2>2. known[s] = dst[s]
    <3>1. file \in Pending
      BY <2>1, Awaited DEF AwaitedIs
    <3> QED BY <1>0, <1>2, <2>1, <3>1 DEF Knows, Listing, Running, InItem, InFile
  <2>3. Shown(s, known[s])
    BY <1>2, <2>1 DEF Knows, Approved
  <2>4. ~Stamp
    BY <2>1 DEF Stamp
  <2>5. OpenReplace => known[slot] # Folder /\ file \notin gone
    BY DEF OpenReplace, InTheWay
  <2>6. OpenFails => ~Exists(known[slot]) \/ dst' = dst
    BY DEF OpenFails
  <2> QED BY <1>0, <1>2, <2>1, <2>2, <2>3, <2>4, <2>5, <2>6 DEF Shown
<1>3. CASE s = slot /\ pc \in {"pump", "verify", "delete"} /\ mode \in Aside
  <2>1. known[s] = dst[s] /\ known[s] # Folder /\ Shown(s, known[s]) /\ file \notin gone /\ ~Stamp
    BY <1>3 DEF Knows, Listing, Approved, Walk, Writing, Stamp
  <2> QED BY <1>0, <1>3, <2>1 DEF Shown, Slotted, InFile
<1>4. CASE s = slot /\ pc = "pump" /\ mode \in {"direct", "inplace"}
  <2>1. dst[s].of = file /\ file \notin gone
    BY <1>4 DEF IInv, Growing, WrittenTo, Versioned, Knows, Walk, Writing
  <2> QED BY <1>4, <2>1
<1>5. CASE Stamp /\ s = slot /\ dst'[s] = [dst[s] EXCEPT !.mt = ver]
  <2>1. pc \in Slotted /\ dst[s].of = file
    BY <1>5 DEF Stamp, Knows, Staged, Versioned, Slotted, InFile
  <2> QED BY <1>5, <2>1
<1>6. Pump \/ PumpEnds \/ PumpBreaks => pc = "pump"
  BY DEF Pump, PumpEnds, PumpBreaks
<1>7. DeleteOld \/ DeleteOldFails => pc = "delete" /\ mode \in Aside
  BY DEF DeleteOld, DeleteOldFails, IInv, Locals, Aside
<1> QED BY <1>0, <1>1, <1>2, <1>3, <1>4, <1>5, <1>6, <1>7, Effects DEF Aside, Knows

LEMMA WalkStep ==
  ASSUME IInv, Walk, [Next]_vars
  PROVE  Walk'
<1>0. /\ Listed' = Listed /\ Batch \in Seq(Listed) /\ \A m, n \in DOMAIN Batch : m # n => Batch[m] # Batch[n]
      /\ pc \in InItem => item \in Items
      /\ todo \in Seq(Items)
  BY Fixed, Batches, Here DEF IInv, TypeOK
<1>1. pc' \in Running =>
        /\ todo' \in Seq(Listed)
        /\ \A m, n \in DOMAIN todo' : m # n => todo'[m] # todo'[n]
  <2>1. CASE Start \/ Retry \/ RetrySkipping
    BY <1>0, <2>1 DEF Start, Retry, RetrySkipping, Begin
  <2>2. CASE PickItem
    <3>1. pc \in Running /\ todo # <<>> /\ todo' = Tail(todo)
      BY <2>2 DEF PickItem, Running
    <3>2. todo \in Seq(Listed) /\ \A m, n \in DOMAIN todo : m # n => todo[m] # todo[n]
      BY <3>1 DEF Walk
    <3>3. todo' \in Seq(Listed) /\ DOMAIN todo' = 1..(Len(todo) - 1) /\ \A m \in DOMAIN todo' : todo'[m] = todo[m + 1]
      BY <3>1, <3>2
    <3>4. DOMAIN todo = 1..Len(todo) /\ Len(todo) \in Nat
      BY <3>2
    <3>5. \A m \in DOMAIN todo' : m + 1 \in DOMAIN todo /\ m \in Int
      BY <3>3, <3>4
    <3>6. \A m, n \in DOMAIN todo' : m # n => m + 1 # n + 1
      BY <3>5
    <3> QED BY <3>2, <3>3, <3>5, <3>6
  <2>3. ASSUME pc' \in Running, ~Start, ~Retry, ~RetrySkipping, ~PickItem
        PROVE  pc \in Running /\ todo' = todo
    <3>1. pc' \in InItem => pc \in Running
      BY <2>3, Stays DEF Running
    <3>2. pc' = "pick" => pc \in Running
      BY <2>3, Leaves DEF Running
    <3> QED BY <2>3, <3>1, <3>2, Writers DEF Running
  <2> QED BY <2>1, <2>2, <2>3 DEF Walk
<1>2. pc' \in InItem => item' \in Listed /\ item' \notin Ahead' /\ item' \notin skipped'
  <2>1. CASE PickItem
    <3>1. pc \in Running /\ todo # <<>> /\ todo' = Tail(todo) /\ item' = Head(todo) /\ skipped' = skipped
          /\ pc' = IF PassedOver(Head(todo)) THEN "pick" ELSE "item"
      BY <2>1 DEF PickItem, Running, checkpointVars
    <3>2. todo \in Seq(Listed) /\ \A m, n \in DOMAIN todo : m # n => todo[m] # todo[n]
      BY <3>1 DEF Walk
    <3>3. DOMAIN todo = 1..Len(todo) /\ Len(todo) \in Nat /\ Len(todo) # 0 /\ Head(todo) = todo[1] /\ todo[1] \in Listed
      BY <3>1, <3>2
    <3>4. todo' \in Seq(Listed) /\ DOMAIN todo' = 1..(Len(todo) - 1) /\ \A m \in DOMAIN todo' : todo'[m] = todo[m + 1]
      BY <3>1, <3>2
    <3>5. \A m \in DOMAIN todo' : m + 1 \in DOMAIN todo /\ 1 \in DOMAIN todo /\ m + 1 # 1
      BY <3>3, <3>4
    <3>6. item' \notin Ahead'
      BY <3>1, <3>2, <3>3, <3>4, <3>5 DEF Ahead
    <3> QED BY <3>1, <3>3, <3>6 DEF PassedOver, InItem, InFile
  <2>2. CASE pc' \in InItem /\ ~PickItem
    <3>1. pc \in InItem /\ item' = item
      BY <2>2, Stays
    <3>2. todo' = todo /\ skipped' = skipped
      BY <2>2, <3>1, Writers DEF Start, Retry, RetrySkipping, InItem, InFile
    <3> QED BY <1>0, <3>1, <3>2 DEF Walk, Ahead
  <2> QED BY <2>1, <2>2
<1>3. pc' = "item" => kids' = {}
  <2>1. pc = "item" /\ ~PickItem /\ pc' = "item" => kids' = kids
    BY Writers, Arrivals DEF EnterDir, NextKid, Cancel, vars, loopVars
  <2> QED BY <2>1, Arrivals DEF PickItem, Walk, Cancel, vars
<1>4. pc' \in InFile => file' \notin kids'
  <2>1. CASE EnterFileItem
    BY <2>1 DEF EnterFileItem, Walk, loopVars
  <2>2. CASE NextKid
    BY <2>2 DEF NextKid
  <2>3. ASSUME pc' \in InFile, ~EnterFileItem, ~NextKid
        PROVE  pc \in InFile /\ file' = file /\ kids' = kids
    BY <2>3, Stays, Writers DEF PickItem, EnterDir, InFile
  <2> QED BY <2>1, <2>2, <2>3 DEF Walk
<1>5. pc' \in InFile \cup {"kid"} /\ IsDir(item') => item' \in dirs'
  <2>0. dirs \subseteq dirs'
    BY Writers DEF MoveWithin, MoveWithinFails, EnterDir
  <2>1. CASE EnterFileItem
    BY <2>1 DEF EnterFileItem, loopVars
  <2>2. CASE EnterDir
    BY <2>2 DEF EnterDir
  <2>3. ASSUME pc' \in InFile \cup {"kid"}, ~EnterFileItem, ~EnterDir
        PROVE  pc \in InFile \cup {"kid"} /\ item' = item
    <3>1. pc' = "kid" => pc \in InFile \cup {"kid"}
      BY <2>3, Arrivals DEF LeaveOut, ShortCircuit, Skip, PumpBreaks, Stamp, Cancel, vars, InFile
    <3>2. pc' \in InFile => pc \in InFile \cup {"kid"}
      BY <2>3, Stays DEF NextKid
    <3>3. pc' \in InItem /\ ~PickItem
      BY <2>3 DEF PickItem, InItem, InFile
    <3> QED BY <2>3, <3>1, <3>2, <3>3, Stays
  <2> QED BY <2>0, <2>1, <2>2, <2>3 DEF Walk
<1>6. pc' \in Writing => file' \notin gone'
  <2>1. CASE OpenPartial \/ OpenReplace
    BY <2>1 DEF OpenPartial, OpenReplace
  <2>2. ASSUME pc' \in Writing, ~OpenPartial, ~OpenReplace
        PROVE  pc \in Writing /\ file' = file /\ gone' = gone
    <3>1. pc \in Writing
      BY <2>2, Arrivals DEF Pump, PumpEnds, Verify, DeleteOld, DeleteOldFails, RenameTemp, Cancel, vars, Writing
    <3> QED BY <2>2, <3>1, Stays, Writers DEF Writing, InFile, EnterFileItem, NextKid, MoveWithin, MoveWithinFails,
          Placed, DeleteSourceFails
  <2> QED BY <2>1, <2>2 DEF Walk
<1>7. pc' = "kid" => IsDir(item')
  <2>1. EnterDir => IsDir(item')
    BY DEF EnterDir
  <2>2. LeaveOut \/ ShortCircuit \/ Skip \/ PumpBreaks \/ Stamp => pc' # "kid" \/ pc' = "failed" \/ (IsDir(item) /\ item' = item)
    BY DEF LeaveOut, ShortCircuit, Skip, PumpBreaks, Stamp, FileReturns, Fail, FileFails
  <2> QED BY <2>1, <2>2, Arrivals DEF Cancel, vars, loopVars, Walk
<1> QED BY <1>0, <1>1, <1>2, <1>3, <1>4, <1>5, <1>6, <1>7 DEF Walk

LEMMA StagedStep ==
  ASSUME IInv, Knows, Apart, [Next]_vars
  PROVE  Staged'
<1>0. /\ Blocks' = Blocks /\ move' = move /\ (Given("shortReads")' <=> Given("shortReads"))
      /\ pc' \in Slotted => pc \in InFile /\ file' = file /\ key' = key /\ src' = src
      /\ pc' \in Slotted /\ pc # "file" /\ pc # "ask" => slot' = slot
  BY Fixed, Steady DEF IInv, Given
<1>1. /\ dst \in [Slots -> Entry] /\ part \in [Slots -> Entry] /\ temp \in [Keys -> Entry]
      /\ pc \in InFile => key \in Keys
      /\ pc \in Slotted => slot \in Slots
      /\ copied \in Nat /\ Blocks \in Nat
  BY Here, SettingFacts DEF IInv, TypeOK, Knows
<1>2. pc' = "verify" => Versioned(temp[key], file)'
  <2>1. CASE PumpEnds /\ pc' = "verify"
    <3>1. pc = "pump" /\ mode = "temp" /\ temp' = temp
      BY <2>1 DEF PumpEnds
    <3> QED BY <1>0, <2>1, <3>1 DEF IInv, Growing, Versioned, Slotted, InFile
  <2>2. CASE pc' = pc /\ temp' = temp
    BY <1>0, <2>2 DEF Knows, Staged, Versioned, Slotted, InFile
  <2> QED BY <2>1, <2>2, Arrivals DEF Cancel, vars, fsVars
<1>3. pc' \in {"delete", "rename"} =>
        /\ mode' = "temp" => WholeCopy(file, temp[key])'
        /\ mode' = "part" => Versioned(part[slot], file)' /\ (move' \/ ~Given("shortReads")' => part'[slot'].len = Blocks')
  <2> SUFFICES ASSUME pc' \in {"delete", "rename"}
               PROVE  /\ mode' = "temp" => WholeCopy(file, temp[key])'
                      /\ mode' = "part" =>
                           Versioned(part[slot], file)' /\ (move' \/ ~Given("shortReads")' => part'[slot'].len = Blocks')
    OBVIOUS
  <2>0. file' = file /\ key' = key /\ src' = src
    BY <1>0 DEF Slotted, InFile
  <2>1. CASE PumpEnds
    <3>1. /\ pc = "pump" /\ mode = "part" /\ part' = part /\ mode' = mode /\ slot' = slot
          /\ copied = Blocks \/ (Given("shortReads") /\ ~move)
      BY <2>1 DEF PumpEnds, fileVars
    <3>2. Versioned(part[slot], file) /\ part[slot].len = copied
      BY <3>1 DEF IInv, Growing, WrittenTo
    <3> QED BY <1>0, <2>0, <3>1, <3>2 DEF Versioned
  <2>2. CASE Verify
    <3>1. /\ pc = "verify" /\ mode = "temp" /\ mode' = mode /\ temp' = temp /\ temp[key].len = Blocks
          /\ Versioned(temp[key], file)
      BY <2>2 DEF Verify, fsVars, fileVars, IInv, Locals, Knows, Staged
    <3> QED BY <1>0, <2>0, <3>1 DEF WholeCopy, Versioned
  <2>3. CASE DeleteOld \/ DeleteOldFails
    <3>1. /\ pc = "delete" /\ mode' = mode /\ slot' = slot /\ temp' = temp /\ part' = part
      BY <2>3 DEF DeleteOld, DeleteOldFails, fileVars
    <3> QED BY <1>0, <2>0, <3>1 DEF WholeCopy, Versioned, Knows, Staged
  <2>4. CASE pc' = pc /\ UNCHANGED <<mode, slot, temp, part>>
    BY <1>0, <2>0, <2>4 DEF WholeCopy, Versioned, Knows, Staged
  <2> QED BY <2>1, <2>2, <2>3, <2>4, Arrivals DEF Cancel, vars, fsVars, fileVars
<1>4. pc' = "stamp" => Versioned(dst[slot], file)' /\ (move' \/ ~Given("shortReads")' => dst'[slot'].len = Blocks')
  <2> SUFFICES ASSUME pc' = "stamp"
               PROVE  Versioned(dst[slot], file)' /\ (move' \/ ~Given("shortReads")' => dst'[slot'].len = Blocks')
    OBVIOUS
  <2>0. file' = file /\ key' = key /\ src' = src
    BY <1>0 DEF Slotted, InFile
  <2>1. CASE PumpEnds
    <3>1. /\ pc = "pump" /\ mode \notin {"temp", "part", "none"} /\ slot' = slot /\ slot \in Slots
          /\ copied = Blocks \/ (Given("shortReads") /\ ~move)
          /\ dst' = IF mode = "atomic" THEN [dst EXCEPT ![slot] = part[slot]] ELSE dst
      BY <1>1, <2>1 DEF PumpEnds, fileVars, IInv, Locals, Slotted, InFile
    <3>2. mode \in {"atomic", "direct", "inplace"}
      BY <3>1 DEF IInv, TypeOK
    <3>3. Versioned(dst'[slot], file) /\ dst'[slot].len = copied
      BY <1>1, <3>1, <3>2 DEF IInv, Growing, WrittenTo
    <3> QED BY <1>0, <2>0, <3>1, <3>3 DEF Versioned
  <2>2. CASE RenameTemp
    <3>1. /\ pc = "rename" /\ mode \in {"temp", "part"} /\ slot' = slot /\ slot \in Slots
          /\ dst' = IF mode = "temp" THEN [dst EXCEPT ![slot] = temp[key]] ELSE [dst EXCEPT ![slot] = part[slot]]
      BY <1>1, <2>2 DEF RenameTemp, PutInPlace, fileVars, IInv, Locals, Slotted, InFile
    <3>2. dst'[slot] = IF mode = "temp" THEN temp[key] ELSE part[slot]
      BY <1>1, <3>1
    <3>3. /\ mode = "temp" => WholeCopy(file, temp[key])
          /\ mode = "part" => Versioned(part[slot], file) /\ (move \/ ~Given("shortReads") => part[slot].len = Blocks)
      BY <3>1 DEF Knows, Staged
    <3> QED BY <1>0, <2>0, <3>1, <3>2, <3>3 DEF Versioned, WholeCopy
  <2>3. CASE pc' = pc /\ UNCHANGED <<slot, dst>>
    BY <1>0, <2>0, <2>3 DEF Versioned, Knows, Staged
  <2> QED BY <2>1, <2>2, <2>3, Arrivals DEF Cancel, vars, fsVars, fileVars
<1> QED BY <1>2, <1>3, <1>4 DEF Staged

\* The entries a step puts at a slot.
LEMMA NewEntries ==
  ASSUME IInv, Knows, [Next]_vars, NEW s \in Slots
  PROVE  \/ dst'[s] = dst[s]
         \/ dst'[s] \in {Other, NoFile}
         \/ /\ MoveWithin \/ MoveWithinFails
            /\ \E f \in Kids[item] \ gone :
                 s = <<NameOf[f], 0>> /\ dst'[s] = Moved(f) /\ (f \in gone' \/ backend = "atomic")
         \/ /\ s = slot /\ pc \in Slotted /\ file \notin gone /\ Versioned(dst'[s], file)
            /\ \/ dst'[s].mt = 0 /\ ~Stamp
               \/ Stamp /\ file \in Stamped /\ dst'[s] = [dst[s] EXCEPT !.mt = ver] /\ Versioned(dst[s], file)
<1>0. pc \in Slotted => file \in Files /\ slot \in Slots /\ key \in Keys
  BY Here DEF Knows
<1>1. CASE MoveWithin /\ Kids[item] \subseteq gone' /\ \E f \in Kids[item] \ gone : s = <<NameOf[f], 0>> /\ dst'[s] = Moved(f)
  BY <1>1
<1>2. CASE s = slot /\ pc \in Slotted /\ OpenReplace /\ dst'[s] = Fresh
  BY <1>2 DEF Fresh, Versioned, OpenReplace, Stamp
<1>3. CASE s = slot /\ pc \in Slotted /\ Pump /\ mode \in {"direct", "inplace"} /\ dst'[s] = Grown(dst[s])
  <2>1. Versioned(dst[s], file) /\ pc = "pump" /\ file \notin gone /\ ~Stamp
    BY <1>3 DEF IInv, Growing, WrittenTo, Pump, Knows, Walk, Writing, Stamp
  <2> QED BY <1>3, <2>1 DEF Grown, Versioned
<1>4. CASE s = slot /\ pc \in Slotted /\ (PumpEnds \/ PumpBreaks) /\ mode = "atomic" /\ dst'[s] = part[s]
  <2>1. Versioned(part[s], file) /\ pc = "pump" /\ file \notin gone /\ ~Stamp
    BY <1>4 DEF IInv, Growing, WrittenTo, PumpEnds, PumpBreaks, Knows, Walk, Writing, Stamp
  <2>2. part[s].mt = 0
    BY DEF Knows, Stocked
  <2> QED BY <1>4, <2>1, <2>2
<1>5. CASE /\ s = slot /\ pc \in Slotted /\ (RenameTemp \/ RenameFails)
           /\ (mode = "temp" /\ dst'[s] = temp[key]) \/ (mode = "part" /\ dst'[s] = part[s])
  <2>1. /\ pc = "rename" /\ file \notin gone /\ ~Stamp
        /\ mode = "temp" => WholeCopy(file, temp[key])
        /\ mode = "part" => Versioned(part[slot], file)
    BY <1>5 DEF RenameTemp, RenameFails, Knows, Walk, Writing, Staged, Stamp
  <2>2. part[s].mt = 0 /\ temp[key].mt = 0
    BY <1>0, <1>5 DEF Knows, Stocked
  <2> QED BY <1>5, <2>1, <2>2 DEF WholeCopy, Versioned
<1>6. CASE s = slot /\ pc \in Slotted /\ Stamp /\ file \in Stamped /\ dst'[s] = [dst[s] EXCEPT !.mt = ver]
  <2>1. Versioned(dst[s], file) /\ file \notin gone
    BY <1>6 DEF Stamp, Knows, Staged, Walk, Writing
  <2>2. dst[s] \in Entry
    BY DEF IInv, TypeOK
  <2>3. Versioned(dst'[s], file)
    BY <1>6, <2>1, <2>2 DEF Versioned, Entry
  <2> QED BY <1>6, <2>1, <2>3
<1>7. CASE dst'[s] = dst[s] \/ dst'[s] = Other \/ dst'[s] = NoFile
  BY <1>7
<1>8. CASE MoveWithinFails /\ backend = "atomic" /\ \E f \in Kids[item] \ gone : s = <<NameOf[f], 0>> /\ dst'[s] = Moved(f)
  BY <1>8
<1>9. \/ dst'[s] = dst[s] \/ dst'[s] = Other \/ dst'[s] = NoFile
      \/ /\ (MoveWithin /\ Kids[item] \subseteq gone') \/ (MoveWithinFails /\ backend = "atomic")
         /\ \E f \in Kids[item] \ gone : s = <<NameOf[f], 0>> /\ dst'[s] = Moved(f)
      \/ /\ s = slot /\ pc \in Slotted
         /\ \/ OpenReplace /\ dst'[s] = Fresh
            \/ Pump /\ mode \in {"direct", "inplace"} /\ dst'[s] = Grown(dst[s])
            \/ (PumpEnds \/ PumpBreaks) /\ mode = "atomic" /\ dst'[s] = part[s]
            \/ (RenameTemp \/ RenameFails) /\ mode = "temp" /\ dst'[s] = temp[key]
            \/ (RenameTemp \/ RenameFails) /\ mode = "part" /\ dst'[s] = part[s]
            \/ Stamp /\ file \in Stamped /\ dst'[s] = [dst[s] EXCEPT !.mt = ver]
  <2>1. Walk
    BY DEF Knows
  <2> QED BY <2>1, Effects, ZenonT(60)
<1> QED BY <1>1, <1>2, <1>3, <1>4, <1>5, <1>6, <1>7, <1>8, <1>9, ZenonT(60)

\* What the listing says of the slot that is about to be opened.
LEMMA Known ==
  ASSUME IInv, Walk, Listing, pc \in {"file", "ask", "open"}
  PROVE  /\ \A s \in Slots : s[1] = NameOf[file] => known[s] = dst[s]
         /\ pc # "file" => known[slot] = dst[slot]
<1>1. file \in Pending
  BY Awaited DEF AwaitedIs
<1>2. \A s \in Slots : s[1] = NameOf[file] => known[s] = dst[s]
  BY <1>1 DEF Listing, Running, InItem, InFile
<1> QED BY <1>2, Here DEF Slotted, InFile

LEMMA HomesStep ==
  ASSUME IInv, Knows, Apart, [Next]_vars
  PROVE  Homes'
<1>0. /\ Sources' = Sources /\ Listed' = Listed /\ Listed \subseteq Items
      /\ pc \in InItem => item \in Listed /\ Kids[item] \subseteq Sources
      /\ pc \in InFile => file \in Sources /\ file \in Files /\ file \in Kids[item] /\ item \in Listed /\ key \in Keys
      /\ pc \in Slotted => pc \in InFile /\ slot \in Slots /\ slot[1] = NameOf[file]
      /\ \A i \in Listed : Kids[i] \subseteq Sources
  <2>1. setting \in Settings
    BY DEF IInv, TypeOK
  <2> QED BY <2>1, Fixed, Here, Batches DEF Knows, InItem
<1>1. \A s \in Slots : At(dst[s], s)' /\ (~Exists(dst'[s]) => dst'[s] = NoFile)
  <2> SUFFICES ASSUME NEW s \in Slots
               PROVE  At(dst'[s], s) /\ (~Exists(dst'[s]) => dst'[s] = NoFile)
    BY <1>0 DEF At
  <2>1. CASE dst'[s] = dst[s]
    BY <2>1 DEF Knows, Homes
  <2>2. CASE dst'[s] \in {Other, NoFile}
    BY <2>2, Constants DEF Other, NoFile, At, Exists, Nobody
  <2>3. ASSUME NEW f \in Kids[item], pc = "item", s = <<NameOf[f], 0>>, dst'[s] = Moved(f)
        PROVE  At(dst'[s], s) /\ (~Exists(dst'[s]) => dst'[s] = NoFile)
    <3>1. f \in Sources /\ f \in Files
      BY <1>0, <2>3, Constants DEF InItem, IInv, Locals
    <3> QED BY <2>3, <3>1, Constants DEF Moved, At, Exists, Nobody
  <2>4. CASE pc \in Slotted /\ s = slot /\ dst'[s].of = file
    BY <1>0, <2>4, Constants DEF At, Exists, Nobody
  <2>5. MoveWithin \/ MoveWithinFails => pc = "item"
    BY DEF MoveWithin, MoveWithinFails
  <2> QED BY <2>1, <2>2, <2>3, <2>4, <2>5, NewEntries DEF Versioned
<1>2. \A k \in Keys : partials'[k] # NoPartial => At(partials[k].replacing, partials[k].slot)'
  <2> SUFFICES ASSUME NEW k \in Keys, partials'[k] # NoPartial
               PROVE  At(partials'[k].replacing, partials'[k].slot)
    BY <1>0 DEF At
  <2>1. CASE partials'[k] = partials[k]
    BY <2>1 DEF Knows, Homes
  <2>2. CASE OpenPartial /\ k = key
    <3>1. pc = "open" /\ slot \in Slots /\ At(dst[slot], slot)
      BY <1>0, <2>2 DEF OpenPartial, Slotted, InFile, Knows, Homes
    <3>2. partials'[k] = [slot |-> slot, replacing |-> known[slot]]
      BY <2>2 DEF OpenPartial, IInv, TypeOK
    <3> QED BY <3>1, <3>2, Known DEF Knows
  <2>3. partials'[k] = partials[k] \/ partials'[k] = NoPartial \/ (OpenPartial /\ k = key)
    BY Writers DEF RetrySkipping, Discard, OpenPartial, RenameTemp, IInv, TypeOK
  <2> QED BY <2>1, <2>2, <2>3
<1>3. \A i \in Listed : IsDir(i) /\ i \notin dirs' =>
        \A f \in Kids[i] : \A s \in Slots : s[1] = NameOf[f] => ~Exists(dst'[s])
  <2> SUFFICES ASSUME NEW i \in Listed, IsDir(i), i \notin dirs', NEW f \in Kids[i], NEW s \in Slots, s[1] = NameOf[f]
               PROVE  ~Exists(dst'[s])
    OBVIOUS
  <2>1. i \notin dirs /\ ~Exists(dst[s]) /\ f \in Sources
    <3>1. dirs \subseteq dirs'
      BY Writers DEF MoveWithin, MoveWithinFails, EnterDir
    <3> QED BY <1>0, <3>1 DEF Knows, Homes
  <2>2. ASSUME NEW g \in Kids[item], item \in Listed, item # i, s[1] = NameOf[g]
        PROVE  FALSE
    <3>1. g \in Sources /\ f = g
      BY <1>0, <2>1, <2>2, Alone
    <3>2. setting \in Settings
      BY DEF IInv, TypeOK
    <3> QED BY <1>0, <2>2, <3>1, <3>2, Batches
  <2>3. CASE pc \in Slotted /\ s = slot
    <3>1. item # i
      BY <1>0, <2>1, <2>3 DEF Knows, Walk
    <3> QED BY <1>0, <2>2, <2>3, <3>1
  <2>4. ASSUME NEW g \in Kids[item] \ gone, pc = "item", s = <<NameOf[g], 0>>, IsDir(item) => item \in dirs'
        PROVE  FALSE
    BY <1>0, <2>2, <2>4 DEF InItem
  <2> QED BY <2>1, <2>3, <2>4, Effects DEF Knows, Exists, NoFile
<1> QED BY <1>0, <1>1, <1>2, <1>3 DEF Homes, Exists

\* What is still to be looked at was to be looked at before, and is not what the step writes.
LEMMA StillPending ==
  ASSUME IInv, Walk, [Next]_vars, pc' \in Running, ~Start, ~Retry, ~RetrySkipping, NEW f \in Pending'
  PROVE  /\ pc \in Running /\ f \in Pending /\ f \in Sources
         /\ pc = "item" /\ pc' = "pick" => f \notin Kids[item]
         /\ pc \in Slotted /\ pc' \notin {"ask", "open"} => f # file
<1>0. /\ pc \in InItem => item \in Listed /\ item \in Items /\ Kids[item] \subseteq Sources /\ kids \subseteq Kids[item]
      /\ pc \in InFile => file \in Kids[item] /\ file \notin kids
      /\ \A i \in Listed : Kids[i] \subseteq Sources
      /\ \A i, j \in Listed : i # j => Kids[i] \cap Kids[j] = {}
      /\ pc = "item" => kids = {}
  <2>1. setting \in Settings
    BY DEF IInv, TypeOK
  <2> QED BY <2>1, Here, Batches DEF IInv, Locals, Walk
<1>1. pc \in Running
  <2>1. pc' \in InItem => pc \in Running
    BY Stays DEF Running, PickItem
  <2> QED BY <2>1, Leaves DEF Running
<1>2. todo \in Seq(Listed)
  BY <1>1 DEF Walk
<1>3. Ahead' \subseteq Ahead /\ Ahead \subseteq Listed
  <2>1. CASE PickItem
    <3>1. todo # <<>> /\ todo' = Tail(todo)
      BY <2>1 DEF PickItem
    <3>2. DOMAIN todo' = 1..(Len(todo) - 1) /\ (\A m \in DOMAIN todo' : todo'[m] = todo[m + 1])
          /\ DOMAIN todo = 1..Len(todo) /\ Len(todo) \in Nat
      BY <1>2, <3>1
    <3>3. \A m \in DOMAIN todo' : m + 1 \in DOMAIN todo
      BY <3>2
    <3> QED BY <1>2, <3>2, <3>3 DEF Ahead
  <2>2. CASE todo' = todo
    BY <1>2, <2>2 DEF Ahead
  <2> QED BY <2>1, <2>2, Writers
<1>4. AwaitedIs'
  BY Awaited, PTL
<1>5. \/ \E i \in Ahead' : f \in Kids[i]
      \/ pc' = "item" /\ f \in Kids[item']
      \/ pc' \in InFile \cup {"kid"} /\ f \in kids'
      \/ pc' \in {"file", "ask", "open"} /\ f = file'
  BY <1>4 DEF AwaitedIs
<1>6. ASSUME NEW i \in Ahead, f \in Kids[i]
      PROVE  f \in Pending /\ f \in Sources /\ (pc \in InItem => f \notin Kids[item])
  <2>1. f \in Pending
    BY <1>6, Awaited DEF AwaitedIs
  <2>2. i \in Listed /\ f \in Sources
    BY <1>0, <1>3, <1>6
  <2>3. pc \in InItem => item # i
    BY <1>6 DEF Walk
  <2> QED BY <1>0, <1>6, <2>1, <2>2, <2>3
<1>7. CASE \E i \in Ahead' : f \in Kids[i]
  <2>1. f \in Pending /\ f \in Sources /\ (pc \in InItem => f \notin Kids[item])
    BY <1>3, <1>6, <1>7
  <2> QED BY <1>0, <1>1, <2>1 DEF InItem, InFile, Slotted
<1>8. CASE pc' = "item" /\ f \in Kids[item']
  <2>1. CASE PickItem
    <3>1. todo # <<>> /\ item' = Head(todo) /\ pc = "pick"
      BY <2>1 DEF PickItem
    <3>2. item' \in Ahead
      <4>1. Head(todo) = todo[1] /\ 1 \in DOMAIN todo
        BY <1>2, <3>1
      <4> QED BY <3>1, <4>1 DEF Ahead
    <3> QED BY <1>1, <1>6, <1>8, <3>1, <3>2 DEF Slotted, InFile
  <2>2. CASE pc = "item" /\ item' = item
    <3>1. f \in Pending
      BY <1>8, <2>2, Awaited DEF AwaitedIs
    <3> QED BY <1>0, <1>1, <1>8, <2>2, <3>1 DEF InItem, Slotted, InFile
  <2> QED BY <1>8, <2>1, <2>2, Arrivals DEF Cancel, vars, loopVars
<1>9. CASE pc' \in InFile \cup {"kid"} /\ f \in kids'
  <2>1. CASE EnterDir
    <3>1. pc = "item" /\ f \in Kids[item] /\ pc' = "kid"
      BY <1>9, <2>1 DEF EnterDir
    <3>2. f \in Pending
      BY <3>1, Awaited DEF AwaitedIs
    <3> QED BY <1>0, <1>1, <3>1, <3>2 DEF InItem, Slotted, InFile
  <2>2. CASE EnterFileItem
    BY <1>0, <1>9, <2>2 DEF EnterFileItem, loopVars
  <2>3. CASE pc \in InFile \cup {"kid"} /\ f \in kids
    <3>1. f \in Pending
      BY <2>3, Awaited DEF AwaitedIs
    <3> QED BY <1>0, <1>1, <2>3, <3>1 DEF InItem, Slotted, InFile
  <2>4. ASSUME ~EnterDir, ~EnterFileItem
        PROVE  pc \in InFile \cup {"kid"} /\ kids' \subseteq kids
    <3>1. pc' = "kid" => pc \in InFile \cup {"kid"}
      BY <2>4, Arrivals DEF LeaveOut, ShortCircuit, Skip, PumpBreaks, Stamp, Cancel, vars, InFile
    <3>2. pc' \in InFile => pc \in InFile \cup {"kid"}
      BY <2>4, Stays DEF NextKid
    <3>3. kids' \subseteq kids
      BY <1>9, <2>4, Writers DEF NextKid, PickItem, InFile
    <3> QED BY <1>9, <3>1, <3>2, <3>3
  <2> QED BY <1>9, <2>1, <2>2, <2>3, <2>4
<1>10. CASE pc' \in {"file", "ask", "open"} /\ f = file'
  <2>1. CASE EnterFileItem
    <3>1. pc = "item" /\ f = item /\ ~IsDir(item) /\ pc' = "file"
      BY <1>10, <2>1 DEF EnterFileItem
    <3>2. f \in Kids[item]
      BY <1>0, <3>1, Constants DEF InItem
    <3>3. f \in Pending
      BY <3>1, <3>2, Awaited DEF AwaitedIs
    <3> QED BY <1>0, <1>1, <3>1, <3>2, <3>3 DEF InItem, Slotted, InFile
  <2>2. CASE NextKid
    <3>1. pc = "kid" /\ f \in kids
      BY <1>10, <2>2 DEF NextKid
    <3>2. f \in Pending
      BY <3>1, Awaited DEF AwaitedIs
    <3> QED BY <1>0, <1>1, <3>1, <3>2 DEF InItem, Slotted, InFile
  <2>3. CASE ~EnterFileItem /\ ~NextKid
    <3>1. pc \in {"file", "ask", "open"} /\ file' = file
      BY <1>10, <2>3, Stays, Arrivals DEF Examine, Overwrite, Rename, Cancel, vars, InFile
    <3>2. f \in Pending
      BY <1>10, <3>1, Awaited DEF AwaitedIs
    <3>3. pc' = "file" => pc = "file"
      BY <2>3, Arrivals DEF Cancel, vars
    <3> QED BY <1>0, <1>1, <1>10, <3>1, <3>2, <3>3 DEF InItem, Slotted, InFile
  <2> QED BY <2>1, <2>2, <2>3
<1> QED BY <1>5, <1>7, <1>8, <1>9, <1>10

LEMMA ListingStep ==
  ASSUME IInv, Knows, Apart, [Next]_vars
  PROVE  Listing'
<1>0. /\ pc \in Slotted => slot[1] = NameOf[file] /\ file \in Sources /\ slot \in Slots
      /\ pc \in InItem => Kids[item] \subseteq Sources
  BY Here DEF Knows
<1>1. ASSUME pc' \in Running, NEW f \in Pending', NEW s \in Slots, s[1] = NameOf[f]
      PROVE  known'[s] = dst'[s]
  <2>1. CASE Start \/ Retry \/ RetrySkipping
    BY <2>1 DEF Start, Retry, RetrySkipping, Begin, fsVars
  <2>2. CASE ~Start /\ ~Retry /\ ~RetrySkipping
    <3>1. /\ pc \in Running /\ f \in Pending /\ f \in Sources
          /\ pc = "item" /\ pc' = "pick" => f \notin Kids[item]
          /\ pc \in Slotted /\ pc' \notin {"ask", "open"} => f # file
      BY <1>1, <2>2, StillPending DEF Knows
    <3>2. known[s] = dst[s]
      BY <1>1, <3>1 DEF Knows, Listing
    <3>3. ASSUME pc \in Slotted, s = slot
          PROVE  pc' \in {"ask", "open"}
      BY <1>0, <1>1, <3>1, <3>3, Alone
    <3>4. ASSUME NEW g \in Kids[item] \ gone, pc = "item", pc' = "pick", s = <<NameOf[g], 0>>
          PROVE  FALSE
      BY <1>0, <1>1, <3>1, <3>4, Alone DEF InItem
    <3>5. dst'[s] = dst[s]
      <4>1. pc' \in {"ask", "open"} => dst' = dst
        BY Arrivals DEF Examine, Overwrite, Rename, Cancel, vars, fsVars
      <4>2. pc # "failed"
        BY <3>1 DEF Running, InItem, InFile
      <4>3. MoveWithinFails => pc' = "failed"
        BY DEF MoveWithinFails, Fail, ItemFails
      <4>4. MoveWithin => pc' = "pick"
        BY DEF MoveWithin
      <4>5. pc' # "failed"
        BY <1>1 DEF Running, InItem, InFile
      <4> QED BY <3>3, <3>4, <4>1, <4>2, <4>3, <4>4, <4>5, Effects DEF Knows
    <3>6. known'[s] = known[s]
      <4>1. CASE Stamp
        <5>1. pc \in Slotted /\ pc' \notin {"ask", "open"} /\ known' = [known EXCEPT ![slot] = dst[slot]]
          BY <4>1 DEF Stamp, FileReturns, Slotted, InFile
        <5> QED BY <3>3, <5>1 DEF IInv, TypeOK
      <4> QED BY <2>2, <4>1, Writers
    <3> QED BY <3>2, <3>5, <3>6
  <2> QED BY <2>1, <2>2
<1>2. ASSUME pc' \in {"pump", "verify", "delete"}, mode' \in Aside
      PROVE  known'[slot'] = dst'[slot'] /\ known'[slot'] # Folder
  <2>1. CASE OpenPartial \/ OpenReplace
    <3>1. pc = "open" /\ dst' = dst /\ slot' = slot /\ known' = known /\ known[slot] # Folder
      BY <1>2, <2>1 DEF OpenPartial, OpenReplace, InTheWay, Aside
    <3> QED BY <3>1, Known DEF Knows
  <2>2. CASE ~OpenPartial /\ ~OpenReplace
    <3>1. pc \in {"pump", "verify", "delete"} /\ mode' = mode /\ slot' = slot /\ known' = known
      BY <1>2, <2>2, Arrivals, Writers DEF Pump, PumpEnds, Verify, Cancel, vars, fileVars
    <3>2. dst' = dst
      BY <1>2, <2>2, <3>1, Arrivals DEF Pump, PumpEnds, Verify, Cancel, vars, fsVars, Aside
    <3> QED BY <1>2, <3>1, <3>2 DEF Knows, Listing
  <2> QED BY <2>1, <2>2
<1> QED BY <1>1, <1>2 DEF Listing

LEMMA ApprovedStep ==
  ASSUME IInv, Knows, Apart, [Next]_vars
  PROVE  Approved'
<1>0. /\ released \subseteq released'
      /\ pc \in InFile => key \in Keys /\ file \in Files /\ file \in Sources /\ partials[key].replacing \in Entry
      /\ pc \in Slotted => pc \in InFile /\ slot \in Slots /\ slot[1] = NameOf[file]
  <2>1. released \subseteq released'
    <3>1. CASE Replacing
      <4>1. PICK n \in Targets : Replace(n)
        BY <3>1 DEF Replacing
      <4> QED BY <4>1 DEF Replace
    <3> QED BY <3>1, Writers DEF Overwrite
  <2>2. pc \in InFile => key \in Keys /\ file \in Files /\ file \in Sources
    BY Here DEF Knows
  <2>3. \A k \in Keys : partials[k].replacing \in Entry
    BY DEF IInv, TypeOK
  <2> QED BY <2>1, <2>2, <2>3, Here DEF Knows
<1>1. ASSUME pc' = "open" \/ (pc' \in {"pump", "verify", "delete"} /\ mode' \in Aside)
      PROVE  Shown(slot, known[slot])'
  <2>1. CASE Examine /\ UnchangedConflict(TargetSlot)
    <3>1. pc = "file" /\ slot' = TargetSlot /\ known' = known /\ pc \in InFile
      BY <2>1 DEF Examine, InFile
    <3> DEFINE a == partials[key].replacing
               e == known[TargetSlot]
    <3>2. Exists(a) /\ a.len = e.len /\ a.mt = e.mt /\ (a.mt = 0 => SameBytes(a, e))
      BY <2>1 DEF UnchangedConflict
    <3>3. partials[key] # NoPartial /\ TargetSlot = partials[key].slot
      BY <3>2 DEF NoPartial, NoFile, Exists, TargetSlot
    <3>4. a # Folder /\ <<TargetSlot, a.of, a.ver>> \in released /\ At(a, TargetSlot)
      BY <1>0, <3>1, <3>2, <3>3 DEF Knows, Approved, Shown, Homes
    <3>5. TargetSlot \in Slots /\ TargetSlot[1] = NameOf[file]
      BY <3>1, SlotFacts DEF Own, IInv
    <3>6. e = dst[TargetSlot] /\ At(e, TargetSlot)
      BY <3>1, <3>5, Known DEF Knows, Homes
    <3>7. a \in Stock /\ e \in Stock /\ a \in Entry /\ e \in Entry
      BY <1>0, <3>1, <3>5, <3>6 DEF Stock, IInv, TypeOK
    <3>8. Dated(a) /\ Dated(e) /\ (e.of = a.of /\ e.mt = a.mt /\ e.mt \in Versions => e.ver = a.ver)
      BY <3>7 DEF Knows, Stocked
    <3>9. a.mt = 0 \/ a.mt \in Versions \/ a.mt = OldTime \/ a.mt = OtherTime
      BY <3>7, Constants DEF Entry, Times, OldTime, OtherTime, Versions
    <3>10. CASE a.mt \in Versions
      <4>1. a.of \in Files /\ e.of \in Files
        BY <3>2, <3>8, <3>10, Constants DEF Dated
      <4>2. a.of \in Sources /\ e.of \in Sources /\ NameOf[a.of] = NameOf[e.of]
        BY <3>4, <3>6, <4>1 DEF At
      <4>3. e.of = a.of /\ e.ver = a.ver
        BY <3>2, <3>8, <3>10, <4>2 DEF Apart
      <4> QED BY <1>0, <3>1, <3>4, <4>3 DEF Shown
    <3>11. CASE a.mt = 0
      BY <1>0, <3>1, <3>2, <3>4, <3>11 DEF Shown, SameBytes
    <3>12. CASE a.mt = OldTime \/ a.mt = OtherTime
      <4>1. e = a \/ e = Folder
        BY <3>2, <3>4, <3>8, <3>12 DEF Dated
      <4> QED BY <1>0, <3>1, <3>4, <4>1 DEF Shown
    <3> QED BY <3>9, <3>10, <3>11, <3>12
  <2>2. CASE Examine /\ ~UnchangedConflict(TargetSlot)
    <3>1. slot' = TargetSlot /\ known' = known /\ pc' \in {"ask", "open"} /\ (pc' = "open" => ~Exists(known[TargetSlot]))
      BY <2>2 DEF Examine
    <3> QED BY <1>1, <3>1 DEF Shown, Exists
  <2>3. CASE Overwrite
    BY <2>3 DEF Overwrite, Shown, fileVars
  <2>4. CASE Rename
    <3>1. PICK k \in 1..MaxAlt : FreeSlot(NameOf[file], k) /\ slot' = <<NameOf[file], k>> /\ known' = known
      BY <2>4 DEF Rename
    <3> QED BY <3>1 DEF FreeSlot, Shown, Exists
  <2>5. ASSUME ~Examine, ~Overwrite, ~Rename
        PROVE  /\ pc = "open" \/ (pc \in {"pump", "verify", "delete"} /\ mode \in Aside)
               /\ slot' = slot /\ known' = known
    <3>1. pc' = "open" => pc = "open"
      BY <2>5, Arrivals DEF Cancel, vars
    <3>2. pc' \in {"pump", "verify", "delete"} /\ mode' \in Aside =>
            pc = "open" \/ (pc \in {"pump", "verify", "delete"} /\ mode \in Aside)
      BY Arrivals DEF OpenPartial, OpenReplace, Pump, PumpEnds, Verify, Cancel, vars, fileVars
    <3>3. slot' = slot
      BY <2>5, Writers
    <3>4. ~Start /\ ~Retry /\ ~RetrySkipping /\ ~Stamp
      BY <1>1 DEF Start, Retry, RetrySkipping, Begin, Stamp, FileReturns
    <3> QED BY <1>1, <3>1, <3>2, <3>3, <3>4, Writers
  <2>6. (pc = "open" \/ (pc \in {"pump", "verify", "delete"} /\ mode \in Aside)) => Shown(slot, known[slot])
    BY DEF Knows, Approved
  <2> QED BY <1>0, <2>1, <2>2, <2>3, <2>4, <2>5, <2>6 DEF Shown, Exists
<1>2. ASSUME NEW k \in Keys, partials'[k] # NoPartial
      PROVE  partials'[k].replacing # Folder /\ Shown(partials[k].slot, partials[k].replacing)'
  <2>1. CASE partials'[k] = partials[k]
    BY <1>0, <1>2, <2>1 DEF Knows, Approved, Shown, Exists
  <2>2. CASE OpenPartial /\ k = key
    <3>1. pc = "open" /\ known[slot] # Folder /\ released' = released
      BY <2>2 DEF OpenPartial, InTheWay, historyVars
    <3>2. partials'[k] = [slot |-> slot, replacing |-> known[slot]]
      BY <2>2 DEF OpenPartial, IInv, TypeOK
    <3>3. Shown(slot, known[slot])
      BY <3>1 DEF Knows, Approved
    <3> QED BY <3>1, <3>2, <3>3 DEF Shown, Exists
  <2>3. partials'[k] = partials[k] \/ partials'[k] = NoPartial \/ (OpenPartial /\ k = key)
    BY Writers DEF RetrySkipping, Discard, OpenPartial, RenameTemp, IInv, TypeOK
  <2> QED BY <1>2, <2>1, <2>2, <2>3
<1> QED BY <1>1, <1>2 DEF Approved

\* The new entries of the stock, by their times.
LEMMA NewStock ==
  ASSUME IInv, Knows, Apart, [Next]_vars, NEW e \in Stock'
  PROVE  \/ e \in Stock
         \/ e = Other
         \/ e.mt = 0
         \/ MoveWithin /\ e.of \in Stamped /\ e.of \in gone' /\ e.ver = src[e.of] /\ e.mt = src[e.of]
         \/ /\ Stamp /\ pc \in InFile /\ file \in Stamped /\ file \notin gone
            /\ e.of = file /\ e.ver = src[file] /\ e.mt = ver
<1>0. /\ pc \in InItem => item \in Items /\ Kids[item] \subseteq Files
      /\ pc \in Slotted => pc \in InFile /\ slot \in Slots
      /\ dst \in [Slots -> Entry]
  BY Here, Constants DEF Knows, IInv, TypeOK
<1>1. CASE \E s \in Slots : e = dst'[s]
  <2>1. PICK s \in Slots : e = dst'[s]
    BY <1>1
  <2>2. CASE dst'[s] = dst[s]
    BY <2>1, <2>2 DEF Stock
  <2>3. CASE dst'[s] \in {Other, NoFile}
    BY <2>1, <2>3 DEF NoFile
  <2>4. ASSUME MoveWithin \/ MoveWithinFails, NEW f \in Kids[item] \ gone, dst'[s] = Moved(f),
               f \in gone' \/ backend = "atomic"
        PROVE  e.mt = 0 \/ (MoveWithin /\ e.of \in Stamped /\ e.of \in gone' /\ e.ver = src[e.of] /\ e.mt = src[e.of])
    <3>1. e.of = f /\ e.ver = src[f] /\ e.mt = (IF f \in Stamped /\ backend # "atomic" THEN src[f] ELSE 0)
      BY <2>1, <2>4 DEF Moved
    <3>2. MoveWithinFails => backend = "atomic"
      BY DEF MoveWithinFails
    <3> QED BY <2>4, <3>1, <3>2
  <2>5. CASE pc \in Slotted /\ Stamp /\ file \in Stamped /\ file \notin gone /\ dst'[s] = [dst[s] EXCEPT !.mt = ver]
             /\ Versioned(dst'[s], file)
    <3>1. dst'[s].mt = ver
      BY <1>0, <2>5 DEF Entry
    <3> QED BY <1>0, <2>1, <2>5, <3>1 DEF Versioned
  <2> QED BY <2>1, <2>2, <2>3, <2>4, <2>5, NewEntries
<1>2. CASE \E k \in Keys : e = partials'[k].replacing
  <2>1. PICK k \in Keys : e = partials'[k].replacing
    BY <1>2
  <2>2. CASE partials'[k] = partials[k]
    BY <2>1, <2>2 DEF Stock
  <2>3. CASE partials'[k] = NoPartial
    BY <2>1, <2>3 DEF NoPartial, NoFile
  <2>4. CASE OpenPartial /\ k = key
    <3>1. pc = "open"
      BY <2>4 DEF OpenPartial
    <3>2. partials'[k] = [slot |-> slot, replacing |-> known[slot]]
      BY <2>4 DEF OpenPartial, IInv, TypeOK
    <3>3. known[slot] = dst[slot] /\ slot \in Slots
      BY <1>0, <3>1, Known DEF Knows, Slotted, InFile
    <3> QED BY <2>1, <3>2, <3>3 DEF Stock
  <2>5. partials'[k] = partials[k] \/ partials'[k] = NoPartial \/ (OpenPartial /\ k = key)
    BY Writers DEF RetrySkipping, Discard, OpenPartial, RenameTemp, IInv, TypeOK
  <2> QED BY <2>2, <2>3, <2>4, <2>5
<1> QED BY <1>1, <1>2 DEF Stock

\* Times, versions and outputs only move forward.
LEMMA Forward ==
  ASSUME IInv, Walk, [Next]_vars
  PROVE  /\ \A f \in Files : src[f] \in Nat /\ src'[f] \in Nat /\ src[f] <= src'[f]
         /\ gone \subseteq gone' /\ gone \subseteq Files
         /\ \A k \in Keys : outputs[k] # NoOutput => outputs'[k] # NoOutput
         /\ pc \in InItem => src' = src
         /\ \A f \in Files : f \in gone => src'[f] = src[f]
<1>1. /\ \A f \in Files : src[f] \in Nat /\ src'[f] \in Nat /\ src[f] <= src'[f]
      /\ pc \in InItem => src' = src
      /\ \A f \in Files : f \in gone => src'[f] = src[f]
  <2>1. \A f \in Files : src[f] \in Nat
    BY DEF IInv, TypeOK, Versions
  <2>2. CASE Touching
    <3>1. PICK g \in Sources : Touch(g)
      BY <2>2 DEF Touching
    <3>2. \A f \in Files : src'[f] = src[f] \/ (src'[f] = src[f] + 1 /\ f \notin gone)
      BY <3>1 DEF Touch, IInv, TypeOK
    <3>3. pc \notin InItem
      BY <3>1 DEF Touch, InItem, InFile
    <3> QED BY <2>1, <3>2, <3>3
  <2> QED BY <2>1, <2>2, Writers
<1>2. gone \subseteq gone' /\ gone \subseteq Files
  BY Writers DEF MoveWithin, MoveWithinFails, Placed, DeleteSourceFails, IInv, TypeOK
<1>3. ASSUME NEW k \in Keys, outputs[k] # NoOutput
      PROVE  outputs'[k] # NoOutput
  <2>1. CASE Stamp
    <3>1. PICK t : outputs' = [outputs EXCEPT ![key] = [slot |-> slot, mt |-> t]]
      BY <2>1 DEF Stamp
    <3>2. slot \in Slots
      BY <2>1, Here DEF Stamp, Slotted, InFile
    <3> QED BY <1>3, <3>1, <3>2, Constants DEF IInv, TypeOK, NoOutput
  <2> QED BY <1>3, <2>1, Writers
<1> QED BY <1>1, <1>2, <1>3

LEMMA StockedStep ==
  ASSUME IInv, Knows, Apart, [Next]_vars
  PROVE  Stocked'
<1>0. /\ Stock \subseteq Entry
      /\ \A f \in Files : src[f] \in Nat /\ src'[f] \in Nat /\ src[f] <= src'[f]
      /\ gone \subseteq gone' /\ Stamped \subseteq Files
      /\ \A k \in Keys : outputs[k] # NoOutput => outputs'[k] # NoOutput
      /\ Old' = Old /\ Other' = Other
      /\ MaxVersion \in Nat \ {0}
      /\ \A e \in Entry : e.mt \in Nat /\ e.ver \in Nat
  <2>1. \A e \in Entry : e.mt \in Nat /\ e.ver \in Nat
    BY Constants DEF Entry, Times, OtherTime
  <2> QED BY <2>1, Forward, Fixed, Constants DEF Stock, IInv, TypeOK, Knows
<1>1. ASSUME NEW e \in Stock, e.mt \in Versions
      PROVE  /\ e.of \in Stamped /\ e.of \in Files /\ e.mt \in Nat /\ e.ver \in Nat /\ e.mt <= e.ver /\ e.ver <= src[e.of]
             /\ outputs[<<e.of, e.mt>>] # NoOutput \/ e.of \in gone
  BY <1>0, <1>1 DEF Knows, Stocked, Dated
<1>2. pc \in InFile => /\ file \in Files /\ src[file] \in Nat /\ ver \in Nat /\ 1 <= ver /\ ver <= src[file] /\ ver \in Versions
                       /\ (file \in Stamped => key = <<file, ver>>) /\ key \in Keys
  BY Here, FileFacts DEF Knows, IInv, Locals, Versions
<1>3. Stamp => outputs'[key] # NoOutput
  <2>1. ASSUME Stamp PROVE outputs'[key] # NoOutput
    <3>1. PICK t : outputs' = [outputs EXCEPT ![key] = [slot |-> slot, mt |-> t]]
      BY <2>1 DEF Stamp
    <3>2. slot \in Slots /\ key \in Keys
      BY <2>1, Here DEF Stamp, Slotted, InFile, Knows
    <3> QED BY <3>1, <3>2, Constants DEF IInv, TypeOK, NoOutput
  <2> QED BY <2>1
<1>4. ASSUME NEW e \in Stock'
      PROVE  Dated(e)'
  <2>1. CASE e \in Stock
    <3>1. Dated(e)
      BY <2>1 DEF Knows, Stocked
    <3>2. CASE e.mt \in Versions
      <4>1. <<e.of, e.mt>> \in Keys
        BY <1>0, <1>1, <2>1, <3>2 DEF Keys, Versions
      <4>2. e.ver <= src'[e.of]
        <5>1. e.of \in Files /\ e.ver \in Nat /\ e.ver <= src[e.of]
          BY <1>1, <2>1, <3>2
        <5>2. src[e.of] \in Nat /\ src'[e.of] \in Nat /\ src[e.of] <= src'[e.of]
          BY <1>0, <5>1
        <5> QED BY <5>1, <5>2
      <4>3. /\ e.of \in Stamped /\ e.mt <= e.ver /\ e.ver <= src'[e.of]
            /\ outputs'[<<e.of, e.mt>>] # NoOutput \/ e.of \in gone'
        <5>1. /\ e.of \in Stamped /\ e.mt <= e.ver
              /\ outputs[<<e.of, e.mt>>] # NoOutput \/ e.of \in gone
          BY <1>1, <2>1, <3>2
        <5> QED BY <1>0, <4>1, <4>2, <5>1
      <4>4. (e.mt = OldTime => e \in {Old', Folder}) /\ (e.mt = OtherTime => e = Other')
        BY <1>0, <3>1 DEF Dated
      <4> QED BY <4>3, <4>4 DEF Dated
    <3> QED BY <1>0, <3>1, <3>2 DEF Dated
  <2>2. CASE e = Other \/ e.mt = 0
    BY <1>0, <2>2 DEF Dated, Other, Versions, OldTime, OtherTime
  <2>3. CASE MoveWithin /\ e.of \in Stamped /\ e.of \in gone' /\ e.ver = src[e.of] /\ e.mt = src[e.of]
    <3>1. src' = src /\ src[e.of] \in Versions
      BY <1>0, <2>3 DEF MoveWithin, IInv, TypeOK
    <3> QED BY <1>0, <2>3, <3>1 DEF Dated, Versions, OldTime, OtherTime
  <2>4. CASE /\ Stamp /\ pc \in InFile /\ file \in Stamped /\ file \notin gone
             /\ e.of = file /\ e.ver = src[file] /\ e.mt = ver
    <3>1. src' = src
      BY <2>4 DEF Stamp
    <3> QED BY <1>0, <1>2, <1>3, <2>4, <3>1 DEF Dated, Versions, OldTime, OtherTime
  <2> QED BY <2>1, <2>2, <2>3, <2>4, NewStock
<1>5. ASSUME NEW e \in Stock', NEW g \in Stock', e.of = g.of, e.mt = g.mt, e.mt \in Versions
      PROVE  e.ver = g.ver
  <2>0. ASSUME NEW a \in Stock'
        PROVE  a.mt \in Versions => a # Other /\ a.mt # 0
    BY <1>0 DEF Other, Versions, OtherTime
  <2>1. CASE e \in Stock /\ g \in Stock
    BY <1>5, <2>1 DEF Knows, Stocked
  <2>2. CASE Stamp
    <3>1. pc \in InFile
      BY <2>2 DEF Stamp, InFile
    <3>2. ASSUME NEW a \in Stock, a.of = file, a.mt = ver, file \in Stamped, file \notin gone
          PROVE  a.ver = src[file]
      <4>1. /\ ver <= a.ver /\ a.ver <= src[file] /\ outputs[<<file, ver>>] # NoOutput /\ ver \in 0..MaxVersion
            /\ a.ver \in Nat
        BY <1>0, <1>1, <1>2, <3>1, <3>2 DEF Versions
      <4>2. ver = src[file]
        BY <3>1, <4>1 DEF Knows, Recorded
      <4> QED BY <1>2, <3>1, <4>1, <4>2
    <3>3. ~MoveWithin
      BY <2>2 DEF Stamp, MoveWithin
    <3> QED BY <1>5, <2>0, <2>1, <3>2, <3>3, NewStock
  <2>3. CASE MoveWithin
    <3>1. ASSUME NEW a \in Stock, a.of \in Stamped, a.mt = src[a.of], a.mt \in Versions
          PROVE  a.ver = src[a.of]
      <4>1. a.ver \in Nat /\ a.mt <= a.ver /\ a.ver <= src[a.of] /\ a.of \in Files
        BY <1>1, <3>1
      <4>2. src[a.of] \in Nat
        BY <1>0, <4>1
      <4> QED BY <3>1, <4>1, <4>2
    <3>2. ~Stamp
      BY <2>3 DEF Stamp, MoveWithin
    <3> QED BY <1>5, <2>0, <2>1, <3>1, <3>2, NewStock
  <2>4. CASE ~Stamp /\ ~MoveWithin
    BY <1>5, <2>0, <2>1, <2>4, NewStock
  <2> QED BY <2>2, <2>3, <2>4
<1>6. \A k \in Keys : temp'[k].mt = 0
  <2>1. \A k \in Keys : temp'[k] \in {temp[k], NoFile, Fresh, Grown(temp[k])}
    <3>1. CASE RetrySkipping \/ Discard
      BY <3>1 DEF RetrySkipping, Discard, Discarded
    <3>2. CASE OpenPartial
      BY <3>2 DEF OpenPartial, IInv, TypeOK
    <3>3. CASE Pump
      BY <3>3 DEF Pump, IInv, TypeOK
    <3>4. CASE RenameTemp \/ RenameFails
      BY <3>4 DEF RenameTemp, RenameFails, PutInPlace, IInv, TypeOK
    <3> QED BY <3>1, <3>2, <3>3, <3>4, Writers
  <2> QED BY <2>1 DEF Knows, Stocked, NoFile, Fresh, Grown
<1>7. \A s \in Slots : part'[s].mt = 0
  <2>1. \A s \in Slots : part'[s] \in {part[s], NoFile, Fresh, Grown(part[s])}
    <3>1. CASE OpenReplace \/ Pump
      BY <3>1 DEF OpenReplace, Pump, IInv, TypeOK
    <3>2. CASE PumpEnds \/ PumpBreaks \/ RenameTemp \/ RenameFails
      BY <3>2 DEF PumpEnds, PumpBreaks, RenameTemp, RenameFails, PutInPlace, IInv, TypeOK
    <3> QED BY <3>1, <3>2, Writers
  <2> QED BY <2>1 DEF Knows, Stocked, NoFile, Fresh, Grown
<1> QED BY <1>4, <1>5, <1>6, <1>7 DEF Stocked

\* The record of an output that a step makes.
LEMMA NewOutput ==
  ASSUME IInv, Walk, [Next]_vars, NEW k \in Keys
  PROVE  \/ outputs'[k] = outputs[k]
         \/ /\ Stamp /\ k = key /\ pc \in InFile /\ outputs'[k].slot = slot /\ outputs'[k] # NoOutput
            /\ outputs'[k].mt \in {0, ver} /\ (outputs'[k].mt # 0 => file \in Stamped)
            /\ (file \in Stamped /\ outputs'[k].mt = 0 => Given("stampFails"))
<1>1. CASE Stamp
  <2>1. pc \in InFile /\ slot \in Slots /\ key \in Keys /\ 1 <= ver /\ ver \in Nat
    BY <1>1, Here DEF Stamp, Slotted, InFile
  <2>2. PICK timeSet \in {file \in Stamped} \cup (IF Given("stampFails") THEN {FALSE} ELSE {}) :
          outputs' = [outputs EXCEPT ![key] = [slot |-> slot, mt |-> IF timeSet THEN ver ELSE 0]]
    BY <1>1 DEF Stamp
  <2>3. k # key => outputs'[k] = outputs[k]
    BY <2>2 DEF IInv, TypeOK
  <2>4. k = key => outputs'[k] = [slot |-> slot, mt |-> IF timeSet THEN ver ELSE 0]
    BY <2>1, <2>2 DEF IInv, TypeOK
  <2>5. k = key => outputs'[k].slot = slot /\ outputs'[k].mt = (IF timeSet THEN ver ELSE 0)
    BY <2>4
  <2>6. NoOutput.slot = NoSlot /\ slot # NoSlot
    BY <2>1, Constants DEF NoOutput
  <2>7. (timeSet => file \in Stamped) /\ (~timeSet => file \notin Stamped \/ Given("stampFails"))
    BY <2>2
  <2> QED BY <1>1, <2>1, <2>3, <2>5, <2>6, <2>7
<1> QED BY <1>1, Writers

\* The partial a step drops.
LEMMA DroppedPartial ==
  ASSUME IInv, Walk, [Next]_vars, NEW k \in Keys, partials[k] # NoPartial
  PROVE  \/ partials'[k] # NoPartial
         \/ RetrySkipping /\ pc = "failed" /\ k = failure.key /\ skipped' = skipped \cup {failure.what}
         \/ Discard /\ pc' = "over"
         \/ RenameTemp /\ pc \in InFile /\ mode = "temp" /\ k = key /\ file \in Stamped /\ key = <<file, ver>>
<1>1. CASE RetrySkipping
  BY <1>1 DEF RetrySkipping
<1>2. CASE Discard
  BY <1>2 DEF Discard
<1>3. CASE OpenPartial
  <2>1. slot \in Slots /\ key \in Keys /\ pc \in InFile
    BY <1>3, Here DEF OpenPartial, Slotted, InFile
  <2>2. partials'[k] = partials[k] \/ partials'[k] = [slot |-> slot, replacing |-> known[slot]]
    BY <1>3, <2>1 DEF OpenPartial, IInv, TypeOK
  <2>3. [slot |-> slot, replacing |-> known[slot]] # NoPartial
    BY <2>1, SlotFacts DEF IInv
  <2> QED BY <2>2, <2>3
<1>4. CASE RenameTemp
  <2>1. pc \in InFile /\ (mode = "temp" => Resumable)
    BY <1>4 DEF RenameTemp, InFile, IInv, Locals
  <2>2. (mode # "temp" \/ k # key) => partials'[k] = partials[k]
    BY <1>4 DEF RenameTemp, IInv, TypeOK
  <2> QED BY <1>4, <2>1, <2>2, Here DEF Resumable
<1> QED BY <1>1, <1>2, <1>3, <1>4, Writers

LEMMA RecordedStep ==
  ASSUME IInv, Knows, Apart, [Next]_vars
  PROVE  Recorded'
<1>0. /\ Walk /\ (Given("stampFails")' <=> Given("stampFails"))
      /\ \A f \in Files : src[f] \in Nat /\ src'[f] \in Nat /\ src[f] <= src'[f]
      /\ \A k \in Keys : outputs[k] # NoOutput => outputs'[k] # NoOutput
      /\ pc \in InItem => src' = src
      /\ Stamped \subseteq Files
      /\ \A k \in Keys : k[1] \in Files /\ k[2] \in Nat /\ k[2] \in 0..MaxVersion /\ k = <<k[1], k[2]>>
      /\ \A f \in Files : \A v \in 0..MaxVersion : <<f, v>> \in Keys
      /\ MaxVersion \in Nat \ {0}
  BY Forward, Fixed, Constants DEF Given, Keys, Knows
<1>1. pc \in InFile => /\ file \in Files /\ file \in Kids[item] /\ src[file] \in Nat /\ ver \in Nat
                       /\ 1 <= ver /\ ver <= src[file] /\ ver \in 0..MaxVersion
                       /\ key[1] = file /\ key \in Keys /\ (file \in Stamped => key = <<file, ver>>)
                       /\ (file \notin Stamped => key = <<file, 0>>) /\ pc \in InItem /\ item \in Items
                       /\ (~IsDir(item) => file = item)
  BY Here, FileFacts DEF Knows, IInv, Locals, key, Key, InItem
<1>2. ASSUME NEW f \in Items, ~IsDir(f)
      PROVE  /\ f \in Files /\ Kids[f] = {f} /\ Key(f, 1) \in Keys /\ Key(f, 1)[1] = f
             /\ (f \in Stamped => Key(f, 1) = <<f, 1>>) /\ (f \notin Stamped => Key(f, 1) = <<f, 0>>)
             /\ (pc \in InFile /\ file = f => item = f)
  <2>1. f \in Files /\ Kids[f] = {f}
    BY <1>2, Constants
  <2>2. 1 \in 0..MaxVersion
    BY <1>0
  <2>3. pc \in InFile /\ file = f => item = f
    <3>1. setting \in Settings
      BY DEF IInv, TypeOK
    <3> QED BY <1>1, <1>2, <2>1, <3>1, Batches
  <2> QED BY <2>1, <2>2, <2>3, KeyFacts DEF Key
<1>3. ASSUME NEW k \in Keys, outputs'[k] # NoOutput
      PROVE  /\ k[1] \in Sources' /\ k[2] <= src'[k[1]] /\ outputs'[k].mt \in {0, k[2]}
             /\ k[1] \in Stamped => 1 <= k[2] /\ (outputs'[k].mt = 0 => Given("stampFails"))
  <2>1. CASE outputs'[k] = outputs[k]
    <3>1. /\ k[1] \in Sources /\ k[2] <= src[k[1]] /\ outputs[k].mt \in {0, k[2]}
          /\ k[1] \in Stamped => 1 <= k[2] /\ (outputs[k].mt = 0 => Given("stampFails"))
      BY <1>3, <2>1 DEF Knows, Recorded
    <3>2. k[2] \in Nat /\ src[k[1]] \in Nat /\ src'[k[1]] \in Nat /\ src[k[1]] <= src'[k[1]]
      BY <1>0
    <3>3. k[2] <= src'[k[1]]
      BY <3>1, <3>2
    <3> QED BY <2>1, <3>1, <3>3, Fixed
  <2>2. CASE /\ Stamp /\ k = key /\ pc \in InFile /\ outputs'[k].mt \in {0, ver} /\ (outputs'[k].mt # 0 => file \in Stamped)
             /\ (file \in Stamped /\ outputs'[k].mt = 0 => Given("stampFails"))
    <3>1. src' = src /\ k[1] = file /\ (file \in Stamped => k[2] = ver) /\ (file \notin Stamped => k[2] = 0)
      BY <1>0, <1>1, <2>2
    <3>2. file \in Sources
      BY <2>2, Here DEF Knows
    <3> QED BY <1>1, <2>2, <3>1, <3>2, Fixed
  <2> QED BY <1>0, <2>1, <2>2, NewOutput
<1>4. \A k \in completed' : outputs'[k] # NoOutput
  <2>1. \A k \in completed : k \in Keys /\ outputs[k] # NoOutput
    BY DEF Knows, Recorded, IInv, TypeOK
  <2>2. CASE Examine
    BY <1>0, <2>1, <2>2 DEF Examine
  <2>3. CASE Stamp
    <3>1. pc \in InFile /\ completed' = completed \cup {key}
      BY <2>3 DEF Stamp, InFile
    <3>2. outputs'[key] # NoOutput
      <4>1. PICK t : outputs' = [outputs EXCEPT ![key] = [slot |-> slot, mt |-> t]]
        BY <2>3 DEF Stamp
      <4>2. slot \in Slots
        BY <2>3, Here DEF Stamp, Slotted, InFile, Knows
      <4> QED BY <1>1, <3>1, <4>1, <4>2, Constants DEF IInv, TypeOK, NoOutput
    <3> QED BY <1>0, <2>1, <3>1, <3>2
  <2> QED BY <1>0, <2>1, <2>2, <2>3, Writers
<1>5. pc' \in Slotted => key' \notin completed'
  <2> SUFFICES ASSUME pc' \in Slotted PROVE key' \notin completed'
    OBVIOUS
  <2>1. key' = key
    BY Steady DEF IInv
  <2>2. CASE Examine
    BY <2>1, <2>2 DEF Examine
  <2>3. CASE ~Examine
    <3>1. pc \in Slotted
      BY <2>3, Stays DEF Rename, Slotted, InFile
    <3>2. ~Stamp
      BY DEF Stamp, FileReturns, Slotted, InFile
    <3> QED BY <2>1, <2>3, <3>1, <3>2, Writers DEF Knows, Recorded
  <2> QED BY <2>2, <2>3
<1>6. ASSUME pc' \in InFile, ver' # src'[file']
      PROVE  \A v \in 0..MaxVersion : outputs'[<<file', v>>] = NoOutput
  <2>0. outputs' = outputs
    <3>1. ~Stamp
      BY <1>6 DEF Stamp, FileReturns, InFile
    <3> QED BY <3>1, Writers
  <2>1. CASE EnterFileItem
    <3>1. /\ pc = "item" /\ ~IsDir(item) /\ file' = item /\ src' = src
          /\ ver' = (IF NeedsRefresh THEN src[item] ELSE 1)
      BY <2>1 DEF EnterFileItem, fsVars
    <3>2. ~NeedsRefresh
      BY <1>6, <3>1
    <3>3. item \in Items /\ item \notin skipped
      BY <1>0, <3>1 DEF Walk, InItem, IInv, Locals
    <3>4. ASSUME NEW v \in 0..MaxVersion, outputs[<<item, v>>] # NoOutput
          PROVE  partials[Key(item, 1)] # NoPartial \/ outputs[Key(item, 1)] # NoOutput
      BY <3>1, <3>3, <3>4 DEF Knows, Recorded
    <3> QED BY <2>0, <3>1, <3>2, <3>4 DEF NeedsRefresh
  <2>2. CASE NextKid
    BY <1>6, <2>2 DEF NextKid, fsVars
  <2>3. CASE pc \in InFile /\ file' = file /\ ver' = ver
    <3>1. src' = src
      BY <1>0, <1>1, <2>3
    <3> QED BY <1>6, <2>0, <2>3, <3>1 DEF Knows, Recorded
  <2> QED BY <1>6, <2>1, <2>2, <2>3, Stays
<1>7. ASSUME pc' \in InFile, ver' # 1, ~IsDir(item')
      PROVE  partials'[Key(item', 1)] # NoPartial \/ outputs'[Key(item', 1)] # NoOutput
  <2>1. CASE EnterFileItem
    <3>1. item' = item /\ partials' = partials /\ outputs' = outputs /\ ver' = (IF NeedsRefresh THEN src[item] ELSE 1)
      BY <2>1 DEF EnterFileItem, loopVars, checkpointVars
    <3> QED BY <1>7, <3>1 DEF NeedsRefresh
  <2>2. CASE NextKid
    BY <1>0, <1>7, <2>2 DEF NextKid, Walk
  <2>3. CASE pc \in InFile /\ file' = file /\ ver' = ver
    <3>1. item' = item
      BY <1>1, <1>7, <2>3, Stays DEF PickItem, InItem, InFile
    <3>2. partials[Key(item, 1)] # NoPartial \/ outputs[Key(item, 1)] # NoOutput
      BY <1>7, <2>3, <3>1 DEF Knows, Recorded
    <3>3. /\ item \in Items /\ ~IsDir(item) /\ file = item /\ Key(item, 1) \in Keys
          /\ (item \in Stamped => Key(item, 1) = <<item, 1>>)
      BY <1>1, <1>2, <1>7, <2>3, <3>1
    <3>4. ASSUME partials[Key(item, 1)] # NoPartial
          PROVE  partials'[Key(item, 1)] # NoPartial
      <4>1. ~RetrySkipping /\ ~Discard
        BY <2>3 DEF RetrySkipping, Discard, InFile
      <4>2. ~(file \in Stamped /\ Key(item, 1) = key /\ key = <<file, ver>>)
        BY <1>7, <2>3, <3>3
      <4> QED BY <1>0, <3>3, <3>4, <4>1, <4>2, DroppedPartial
    <3> QED BY <1>0, <3>1, <3>2, <3>3, <3>4
  <2> QED BY <1>7, <2>1, <2>2, <2>3, Stays
<1>8. ASSUME pc' # "over", NEW f \in Items \ skipped', NEW v \in 0..MaxVersion, ~IsDir(f), outputs'[<<f, v>>] # NoOutput
      PROVE  partials'[Key(f, 1)] # NoPartial \/ outputs'[Key(f, 1)] # NoOutput
  <2>0. /\ f \in Files /\ Key(f, 1) \in Keys /\ Key(f, 1)[1] = f /\ <<f, v>> \in Keys
        /\ (f \in Stamped => Key(f, 1) = <<f, 1>>) /\ (f \notin Stamped => Key(f, 1) = <<f, 0>>)
        /\ (pc \in InFile /\ file = f => item = f)
    BY <1>0, <1>2, <1>8
  <2>1. pc # "over" /\ f \notin skipped
    <3>1. skipped \subseteq skipped'
      BY Writers DEF RetrySkipping
    <3> QED BY <1>8, <3>1, Leaves
  <2>2. ASSUME partials[Key(f, 1)] # NoPartial
        PROVE  partials'[Key(f, 1)] # NoPartial \/ outputs[<<f, v>>] = NoOutput \/ outputs[Key(f, 1)] # NoOutput
    <3>1. CASE RetrySkipping /\ pc = "failed" /\ Key(f, 1) = failure.key /\ skipped' = skipped \cup {failure.what}
      <4>1. failure.key # NoKey
        BY <2>0, <3>1, Constants
      <4>2. failure.what = f
        BY <2>0, <3>1, <4>1 DEF Knows, Recorded
      <4> QED BY <1>8, <3>1, <4>2
    <3>2. CASE RenameTemp /\ pc \in InFile /\ Key(f, 1) = key /\ file \in Stamped /\ key = <<file, ver>>
      <4>1. file = f /\ ver = 1 /\ key = <<f, 1>> /\ f \in Stamped
        BY <2>0, <3>2
      <4>2. ASSUME outputs[<<f, v>>] # NoOutput
            PROVE  v = 1
        <5>1. v <= src[f] /\ 1 <= v
          <6>1. <<f, v>>[1] = f /\ <<f, v>>[2] = v
            OBVIOUS
          <6> QED BY <2>0, <4>1, <4>2, <6>1 DEF Knows, Recorded
        <5>2. src[f] = 1
          BY <3>2, <4>1, <4>2 DEF Knows, Recorded
        <5> QED BY <5>1, <5>2
      <4> QED BY <2>0, <4>1, <4>2
    <3> QED BY <1>0, <1>8, <2>0, <2>2, <3>1, <3>2, DroppedPartial
  <2>3. CASE outputs[<<f, v>>] # NoOutput
    <3>1. partials[Key(f, 1)] # NoPartial \/ outputs[Key(f, 1)] # NoOutput
      BY <1>8, <2>1, <2>3 DEF Knows, Recorded
    <3> QED BY <1>0, <2>0, <2>2, <2>3, <3>1
  <2>4. CASE Stamp /\ <<f, v>> = key /\ pc \in InFile
    <3>1. f = file /\ item = f /\ outputs'[key] # NoOutput
      BY <1>1, <1>8, <2>0, <2>4
    <3>2. CASE ver = 1
      <4>1. key = Key(f, 1)
        BY <1>1, <2>0, <2>4, <3>1, <3>2
      <4> QED BY <3>1, <4>1
    <3>3. CASE ver # 1
      <4>1. partials[Key(f, 1)] # NoPartial \/ outputs[Key(f, 1)] # NoOutput
        BY <1>8, <2>4, <3>1, <3>3 DEF Knows, Recorded
      <4>2. partials' = partials
        BY <2>4 DEF Stamp
      <4> QED BY <1>0, <2>0, <4>1, <4>2
    <3> QED BY <3>2, <3>3
  <2> QED BY <1>0, <1>8, <2>0, <2>3, <2>4, NewOutput
<1>9. pc' = "failed" /\ failure'.key # NoKey => failure'.what = failure'.key[1]
  <2>1. pc \in InItem /\ ~IsDir(item) => Key(item, 1)[1] = item
    BY <1>2 DEF IInv, Locals
  <2>2. pc \in InFile => key[1] = file
    BY <1>1
  <2>3. pc = "failed" /\ failure.key # NoKey => failure.what = failure.key[1]
    BY DEF Knows, Recorded
  <2> QED BY <2>1, <2>2, <2>3, Others DEF IInv, TypeOK, FlagsOK
<1> QED BY <1>0, <1>3, <1>4, <1>5, <1>6, <1>7, <1>8, <1>9 DEF Recorded

-----------------------------------------------------------------------------
(* The knowledge is invariant, and protects what is at the destination     *)

LEMMA InitKnows ==
  ASSUME Init, Apart
  PROVE  Knows
<1>1. pc = "idle" /\ setting \in Settings /\ completed = {} /\ skipped = {}
  BY DEF Init
<1>2. PICK F, N :
        /\ \A i \in Listed : IsDir(i) /\ i \notin dirs => \A f \in Kids[i] : NameOf[f] \notin F \cup N
        /\ dst = Standing(F, N)
  BY InitFiles, Zenon
<1>3. \A s \in Slots : dst[s] \in {NoFile, Old, Folder} /\ (dst[s] # NoFile => s[1] \in F \cup N)
  BY <1>2 DEF Standing
<1>4. /\ \A e \in {NoFile, Old, Folder} : e.of \in {"nobody", "old", "folder"}
      /\ \A e \in {NoFile, Old, Folder} : e.of \notin Files /\ (~Exists(e) => e = NoFile)
  BY Constants DEF NoFile, Old, Folder, Exists, Nobody
<1>5. \A k \in Keys : temp[k] = NoFile /\ partials[k] = NoPartial /\ outputs[k] = NoOutput
  BY DEF Init
<1>6. \A s \in Slots : part[s] = NoFile
  BY DEF Init
<1>7. Homes
  <2>1. \A i \in Listed : IsDir(i) /\ i \notin dirs =>
          \A f \in Kids[i] : \A s \in Slots : s[1] = NameOf[f] => ~Exists(dst[s])
    <3>1. ~Exists(NoFile)
      BY DEF Exists, NoFile
    <3> QED BY <1>2, <1>3, <3>1
  <2> QED BY <1>3, <1>4, <1>5, <2>1 DEF Homes, At
<1>8. Stocked
  <2>1. \A e \in Stock : e \in {NoFile, Old, Folder}
    BY <1>3, <1>5 DEF Stock, NoPartial
  <2>2. \A e \in {NoFile, Old, Folder} : e.mt = 0 \/ (e \in {Old, Folder} /\ e.mt = MaxVersion + 1)
    BY DEF NoFile, Old, Folder, OldTime
  <2>3. \A e \in {NoFile, Old, Folder} : e.mt \notin Versions /\ Dated(e)
    BY <2>2, Constants DEF Dated, Versions, OldTime, OtherTime
  <2> QED BY <1>5, <1>6, <2>1, <2>3 DEF Stocked, NoFile
<1>9. Recorded
  <2>1. \A f \in Items : \A v \in 0..MaxVersion : ~IsDir(f) => <<f, v>> \in Keys
    BY Constants DEF Keys
  <2> QED BY <1>1, <1>5, <2>1 DEF Recorded, InFile, Slotted
<1> QED BY <1>1, <1>5, <1>7, <1>8, <1>9
  DEF Knows, Walk, Staged, Listing, Approved, Running, InItem, InFile, Writing

LEMMA KnowsStep ==
  ASSUME IInv, Knows, Apart, [Next]_vars
  PROVE  Knows'
<1>1. Walk
  BY DEF Knows
<1> QED BY <1>1, WalkStep, HomesStep, StagedStep, ListingStep, ApprovedStep, StockedStep, RecordedStep DEF Knows

Engine == IInv /\ Knows /\ Apart

LEMMA Engines == Spec /\ Apart => []Engine
<1>1. Init /\ Apart => Engine
  BY InitInv, InitKnows DEF Engine
<1>2. Engine /\ [Next]_vars => Engine'
  BY StepInv, KnowsStep, Fixed DEF Engine
<1> QED BY <1>1, <1>2, PTL DEF Spec

\* No step changes or removes a finished destination file that the user was not shown
\* and did not answer OVERWRITE for, and no file replaces a folder, when no two files of
\* the batch go to one name (copyEntry 234-256, FileSystem.rename's contract).
THEOREM FinishedFilesAreKept == Spec /\ Apart => NothingReplacedUnasked
<1>1. ASSUME Engine, [Next]_vars
      PROVE  [pc # "failed" => \A s \in Slots :
                /\ Settled(s) /\ ~SameBytes(dst'[s], dst[s]) => <<s, dst[s].of, dst[s].ver>> \in released'
                /\ dst[s] = Folder => dst'[s] = Folder]_vars
  <2> SUFFICES ASSUME pc # "failed", NEW s \in Slots
               PROVE  /\ Settled(s) /\ ~SameBytes(dst'[s], dst[s]) => <<s, dst[s].of, dst[s].ver>> \in released'
                      /\ dst[s] = Folder => dst'[s] = Folder
    OBVIOUS
  <2>1. released \subseteq released'
    <3>1. ~Replacing
      BY DEF Replacing, Replace
    <3> QED BY <1>1, <3>1, Writers DEF Overwrite
  <2>2. Blocks \in Nat /\ Blocks # 0 /\ dst[s] \in Entry
    BY <1>1, SettingFacts DEF Engine, IInv, TypeOK
  <2>3. /\ Settled(s) => dst[s] # NoFile /\ ~(s = slot /\ mode \in {"direct", "inplace"} /\ pc = "pump")
        /\ dst[s] = Folder => dst[s] # NoFile
    BY <2>2 DEF Settled, NoFile, Folder, Nobody
  <2>4. pc \in Slotted => file \in Files /\ file # "folder"
    BY <1>1, Here, Constants DEF Engine, Knows
  <2>5. ~Replacing
    BY DEF Replacing, Replace
  <2>6. CASE Stamp /\ s = slot /\ pc \in Slotted /\ dst'[s] = [dst[s] EXCEPT !.mt = ver] /\ dst[s].of = file
    BY <2>2, <2>4, <2>6 DEF SameBytes, Entry, Folder
  <2>7. CASE s = slot /\ pc = "pump" /\ dst[s].of = file /\ mode \in {"direct", "inplace"}
    <3>1. pc \in Slotted
      BY <2>7 DEF Slotted, InFile
    <3> QED BY <2>3, <2>4, <2>7, <3>1 DEF Folder
  <2>8. dst'[s] = dst[s] => SameBytes(dst'[s], dst[s])
    BY DEF SameBytes
  <2> QED BY <1>1, <2>1, <2>3, <2>5, <2>6, <2>7, <2>8, Protected DEF Engine
<1> QED BY <1>1, Engines, PTL DEF Spec, NothingReplacedUnasked

-----------------------------------------------------------------------------
(* A move loses no source file                                              *)

\* An overwrite the user approved stays approved.
LEMMA Approvals ==
  ASSUME [Next]_vars
  PROVE  released \subseteq released'
<1>1. CASE Replacing
  <2>1. PICK n \in Targets : Replace(n)
    BY <1>1 DEF Replacing
  <2> QED BY <2>1 DEF Replace
<1> QED BY <1>1, Writers DEF Overwrite

\* A whole copy stands until the user approves overwriting it, a stranger replaces it
\* or the same file is written there again.
LEMMA Stands ==
  ASSUME Engine, [Next]_vars, NEW g \in Files, NEW s \in Slots, WholeCopy(g, dst[s]), src'[g] = src[g]
  PROVE  \/ WholeCopy(g, dst[s])'
         \/ Replacing /\ pc = "failed" /\ Given("othersWrite") /\ (g \in gone => <<s, g, src[g]>> \in released')
         \/ s = slot /\ pc = "pump" /\ file \notin gone /\ g = file
         \/ s = slot /\ pc \in Slotted /\ file \notin gone /\ <<s, g, src[g]>> \in released
<1>1. Blocks' = Blocks /\ Blocks \in Nat /\ Blocks # 0 /\ dst[s] \in Entry
  BY SettingFacts, Fixed, Constants DEF Engine, IInv, TypeOK
<1>2. dst[s] # NoFile
  BY <1>1 DEF WholeCopy, NoFile
<1>3. dst[s].of = g /\ dst[s].ver = src[g] /\ dst[s].len = Blocks
  BY DEF WholeCopy
<1>4. dst'[s] = dst[s] => WholeCopy(g, dst[s])'
  BY <1>1, <1>3 DEF WholeCopy
<1>5. dst'[s] = [dst[s] EXCEPT !.mt = ver] => WholeCopy(g, dst[s])'
  BY <1>1, <1>3 DEF WholeCopy, Entry
<1> QED BY <1>2, <1>3, <1>4, <1>5, Protected DEF Engine

\* A stranger's file stands until the write in progress comes to its name.
LEMMA StrangerStands ==
  ASSUME Engine, [Next]_vars, NEW s \in Slots, dst[s] = Other
  PROVE  dst'[s] = Other \/ (s = slot /\ pc \in Slotted /\ file \notin gone)
<1>1. Other.of = "other" /\ Other # NoFile /\ "other" \notin Files
  BY Constants DEF Other, NoFile, Nobody
<1>2. pc \in Slotted => file \in Files
  BY Here DEF Engine, Knows, Slotted, InFile
<1>3. CASE Replacing
  <2>1. PICK n \in Targets : Replace(n)
    BY <1>3 DEF Replacing
  <2>2. dst' = [dst EXCEPT ![<<n, 0>>] = Other] /\ dst \in [Slots -> Entry]
    BY <2>1 DEF Replace, Engine, IInv, TypeOK
  <2> QED BY <2>2
<1>4. CASE ~Replacing
  <2>1. pc = "pump" => pc \in Slotted
    BY DEF Slotted, InFile
  <2> QED BY <1>1, <1>2, <1>4, <2>1, Protected DEF Engine
<1> QED BY <1>3, <1>4

\* A file that is at its place, or is taken to be, stays so.
LEMMA DeliveredStep ==
  ASSUME Engine, [Next]_vars, NEW g \in Files, Delivered(g),
         g \in gone \/ (src' = src /\ pc # "failed" /\ (pc \in InFile => g # file))
  PROVE  Delivered(g)'
<1>1. src'[g] = src[g] /\ Other' = Other
  BY Forward, Fixed DEF Engine, Knows
<1>2. PICK s \in Slots : WholeCopy(g, dst[s]) \/ <<s, g, src[g]>> \in released \/ Mistaken(g, s)
  BY DEF Delivered
<1>3. CASE <<s, g, src[g]>> \in released
  BY <1>1, <1>3, Approvals DEF Delivered
<1>4. CASE WholeCopy(g, dst[s])
  <2>1. pc = "pump" => pc \in InFile
    BY DEF Slotted, InFile
  <2>2. WholeCopy(g, dst[s])' \/ <<s, g, src[g]>> \in released'
    BY <1>1, <1>4, <2>1, Stands, Approvals
  <2> QED BY <1>1, <2>2 DEF Delivered
<1>5. CASE Mistaken(g, s)
  <2> DEFINE k == <<g, src[g]>>
  <2>1. /\ g \in Stamped /\ k = Key(g, src[g]) /\ outputs[k] = [slot |-> s, mt |-> 0] /\ dst[s] = Other
        /\ k \in Keys /\ outputs[k] # NoOutput /\ s[1] = NameOf[g] /\ g \in Sources
    <3>1. g \in Stamped /\ k = Key(g, src[g]) /\ outputs[k] = [slot |-> s, mt |-> 0] /\ dst[s] = Other
      BY <1>5 DEF Mistaken, Key
    <3>2. k \in Keys
      BY Constants DEF Engine, IInv, TypeOK, Keys, Versions
    <3>3. s # NoSlot
      BY Constants DEF Slots, NoSlot
    <3>4. outputs[k] # NoOutput
      BY <3>1, <3>3 DEF NoOutput
    <3>5. s[1] = NameOf[g]
      BY <3>1, <3>2, <3>4 DEF Engine, IInv, Named, Own
    <3>6. g \in Sources
      BY <3>2, <3>4 DEF Engine, Knows, Recorded
    <3> QED BY <3>1, <3>2, <3>4, <3>5, <3>6
  <2>2. pc \in Slotted /\ file \notin gone => g # file
    BY DEF InFile, Slotted
  <2>3. g # file \/ pc \notin Writing
    BY DEF Engine, Knows, Walk, Writing, InFile, Slotted
  <2>4. outputs'[k] = outputs[k]
    <3>1. Stamp => pc = "stamp" /\ pc \in InFile
      BY DEF Stamp, InFile, Slotted
    <3>2. pc \in InFile => key[1] = file
      BY Here DEF Engine, Knows
    <3>3. Stamp => k # key
      BY <2>3, <3>1, <3>2 DEF Writing
    <3> QED BY <2>1, <3>3, NewOutput DEF Engine, Knows
  <2>5. dst'[s] = Other
    <3>1. CASE s = slot /\ pc \in Slotted /\ file \notin gone
      <4>1. slot[1] = NameOf[file] /\ file \in Sources
        BY <3>1, Here DEF Engine, Knows
      <4>2. g # file
        BY <2>2, <3>1
      <4> QED BY <2>1, <3>1, <4>1, <4>2, Alone DEF Engine
    <3> QED BY <2>1, <3>1, StrangerStands
  <2>6. Mistaken(g, s)'
    BY <1>1, <2>1, <2>4, <2>5 DEF Mistaken, Key
  <2> QED BY <2>6 DEF Delivered
<1> QED BY <1>2, <1>3, <1>4, <1>5

\* The output the checkpoint trusts is a whole copy of this very version.
LEMMA TrustedOutput ==
  ASSUME Engine, Undated, move, pc = "file", AlreadyDone
  PROVE  Delivered(file)
<1>1. /\ file \in Stamped /\ file \in Sources /\ file \in Files /\ key \in Keys /\ key = <<file, ver>> /\ pc \in InFile
      /\ src[file] \in Nat /\ ver \in Nat /\ 1 <= ver /\ ver \in 0..MaxVersion /\ ver \in Versions
  BY Here, FileFacts, Constants DEF Engine, Knows, AlreadyDone, InFile, Versions, IInv, Locals
<1>2. outputs[key] # NoOutput /\ key \in completed
  BY DEF AlreadyDone
<1>3. ver = src[file]
  BY <1>1, <1>2 DEF Engine, Knows, Recorded
<1> DEFINE s == outputs[key].slot
<1>4. s \in Slots /\ s[1] = NameOf[file]
  BY <1>1, <1>2 DEF Engine, IInv, Named, Own
<1>5. known[s] = dst[s]
  BY <1>4, Known DEF Engine, Knows
<1>6. /\ dst[s].len = Blocks /\ (outputs[key].mt = 0 \/ dst[s].mt = outputs[key].mt)
      /\ outputs[key].mt \in {0, ver}
  BY <1>1, <1>2, <1>5 DEF AlreadyDone, Engine, Knows, Recorded
<1>7. CASE outputs[key].mt = 0
  <2>1. WholeCopy(file, dst[s]) \/ dst[s] = Other
    BY <1>1, <1>2, <1>3, <1>7 DEF Undated
  <2>2. outputs[key] = [slot |-> s, mt |-> 0]
    BY <1>1, <1>7 DEF Engine, IInv, TypeOK
  <2>3. dst[s] = Other => Mistaken(file, s)
    BY <1>1, <1>3, <2>2 DEF Mistaken, Key
  <2> QED BY <1>4, <2>1, <2>3 DEF Delivered
<1>8. CASE dst[s].mt = ver
  <2>1. Dated(dst[s])
    BY <1>4 DEF Engine, Knows, Stocked, Stock
  <2>2. dst[s].of \in Stamped /\ ver <= dst[s].ver /\ dst[s].ver <= src[dst[s].of]
    BY <1>1, <1>8, <2>1 DEF Dated
  <2>3. dst[s].of = file
    <3>1. dst[s].of \in Sources /\ NameOf[dst[s].of] = s[1]
      BY <1>4, <2>2, Constants DEF Engine, Knows, Homes, At
    <3> QED BY <1>1, <1>4, <3>1, Alone DEF Engine
  <2>4. dst[s].ver \in Nat
    BY <1>4, Constants DEF Engine, IInv, TypeOK, Entry
  <2>5. dst[s].ver = src[file]
    BY <1>1, <1>3, <2>2, <2>3, <2>4
  <2> QED BY <1>4, <1>6, <2>3, <2>5 DEF Delivered, WholeCopy
<1> QED BY <1>6, <1>7, <1>8

LEMMA UndatedStep ==
  ASSUME Engine, Undated, [Next]_vars
  PROVE  Undated'
<1> SUFFICES ASSUME move', NEW k \in completed', k[1] \in Stamped, k[2] = src'[k[1]], outputs'[k].mt = 0
             PROVE  (WholeCopy(k[1], dst[outputs[k].slot]) \/ dst[outputs[k].slot] = Other)'
  BY DEF Undated
<1>0. /\ move /\ Blocks' = Blocks /\ Other' = Other
      /\ IInv /\ Knows /\ Apart /\ Walk
  BY Fixed DEF Engine, Knows
<1>1. CASE Stamp /\ k = key
  <2>1. pc = "stamp" /\ pc \in Slotted /\ pc \in InFile /\ file \in Files /\ slot \in Slots /\ key \in Keys /\ key[1] = file
    BY <1>0, <1>1, Here DEF Stamp, Slotted, InFile
  <2>2. outputs'[k].slot = slot
    <3>1. PICK t : outputs' = [outputs EXCEPT ![key] = [slot |-> slot, mt |-> t]]
      BY <1>1 DEF Stamp
    <3> QED BY <1>0, <1>1, <2>1, <3>1 DEF IInv, TypeOK
  <2>3. WholeCopy(file, dst[slot])
    BY <1>0, <2>1 DEF Knows, Staged, Versioned, WholeCopy
  <2>4. src' = src
    BY <1>1 DEF Stamp
  <2>5. dst'[slot].of = file /\ dst'[slot].ver = src'[file] /\ dst'[slot].len = Blocks'
    <3>1. dst[slot] \in Entry
      BY <1>0, <2>1 DEF IInv, TypeOK
    <3>2. dst'[slot] = dst[slot] \/ dst'[slot] = [dst[slot] EXCEPT !.mt = ver]
      BY <1>0, <1>1, <2>1 DEF Stamp, IInv, TypeOK
    <3> QED BY <1>0, <2>3, <2>4, <3>1, <3>2 DEF WholeCopy, Entry
  <2> QED BY <1>1, <2>1, <2>2, <2>5 DEF WholeCopy
<1>2. CASE ~(Stamp /\ k = key)
  <2>1. k \in completed /\ k \in Keys /\ outputs[k] # NoOutput /\ outputs'[k] = outputs[k]
    <3>1. k \in completed
      BY <1>2, Writers DEF Examine, Stamp
    <3>2. k \in Keys /\ outputs[k] # NoOutput
      BY <1>0, <3>1 DEF IInv, TypeOK, Knows, Recorded
    <3> QED BY <1>0, <1>2, <3>1, <3>2, NewOutput
  <2> DEFINE g == k[1]
  <2>2. PICK s \in Slots : s = outputs[k].slot /\ s[1] = NameOf[g]
    BY <1>0, <2>1 DEF IInv, Named, Own
  <2>3. /\ g \in Files /\ s \in Slots /\ s[1] = NameOf[g] /\ k[2] \in Nat /\ k[2] \in 0..MaxVersion
        /\ k = <<g, k[2]>> /\ outputs[k].mt = 0 /\ g \in Stamped
    BY <1>0, <1>2, <2>1, <2>2, Constants DEF Keys
  <2>4. src'[g] = src[g]
    <3>1. k[2] <= src[g]
      BY <1>0, <2>1 DEF Knows, Recorded
    <3> QED BY <1>0, <2>3, <3>1, Forward
  <2>5. WholeCopy(g, dst[s]) \/ dst[s] = Other
    BY <1>0, <2>1, <2>3, <2>2, <2>4 DEF Undated
  <2>6. g \in Sources
    BY <1>0, <2>1 DEF Knows, Recorded
  <2>8. ASSUME s = slot, pc \in Slotted
        PROVE  FALSE
    <3>1. pc \in InFile /\ file \in Sources /\ slot[1] = NameOf[file]
      BY <1>0, <2>8, Here
    <3>2. file = g
      BY <1>0, <2>3, <2>6, <2>8, <3>1, Alone
    <3>3. ver = src[file]
      BY <1>0, <2>1, <2>3, <3>1, <3>2 DEF Knows, Recorded
    <3>4. key = k
      BY <1>0, <2>3, <2>4, <3>1, <3>2, <3>3, Here
    <3> QED BY <1>0, <2>1, <2>8, <3>4 DEF Knows, Recorded
  <2>9. pc = "pump" => pc \in Slotted
    BY DEF Slotted, InFile
  <2>10. WholeCopy(g, dst[s])' \/ dst'[s] = Other
    <3> HIDE DEF g
    <3>1. CASE Replacing
      <4>1. PICK n \in Targets : Replace(n)
        BY <3>1 DEF Replacing
      <4>2. dst' = [dst EXCEPT ![<<n, 0>>] = Other] /\ dst \in [Slots -> Entry] /\ src' = src
        BY <1>0, <4>1 DEF Replace, IInv, TypeOK
      <4>3. dst'[s] = Other \/ dst'[s] = dst[s]
        BY <4>2
      <4> QED BY <1>0, <2>5, <4>2, <4>3 DEF WholeCopy
    <3>2. CASE ~Replacing /\ WholeCopy(g, dst[s])
      BY <2>3, <2>4, <2>8, <2>9, <3>2, Stands
    <3>3. CASE dst[s] = Other
      BY <2>3, <2>8, <3>3, StrangerStands
    <3> QED BY <2>5, <3>1, <3>2, <3>3
  <2> QED BY <1>0, <2>1, <2>2, <2>10
<1> QED BY <1>1, <1>2

\* The file the engine has just been through is at the destination when it says so.
LEMMA Returned ==
  ASSUME Engine, Undated, [Next]_vars, move, pc \in InFile,
         pc' = "placed" \/ (pc' = "kid" /\ complete'), NEW f, f = file
  PROVE  /\ Delivered(f)' /\ item' = item /\ kids' = kids /\ src' = src /\ pc # "pump"
         /\ pc' = "placed" => ~IsDir(item)
<1>0. IInv /\ Walk /\ Knows /\ Apart
  BY DEF Engine, Knows
<1>1. ShortCircuit \/ Stamp
  <2>1. LeaveOut \/ Skip \/ PumpBreaks => pc' # "placed" /\ (complete' = FALSE \/ pc' = "failed")
    BY DEF LeaveOut, Skip, PumpBreaks, FileReturns, FileFails, Fail
  <2>2. ~EnterDir /\ ~EndDir
    BY DEF EnterDir, EndDir, InFile
  <2>3. ~Cancel /\ ~UNCHANGED vars
    BY DEF Cancel, vars, InFile
  <2> QED BY <2>1, <2>2, <2>3, Arrivals
<1>2. /\ item' = item /\ kids' = kids /\ src' = src
      /\ pc' = "placed" => ~IsDir(item)
      /\ pc # "pump"
  BY <1>1 DEF ShortCircuit, Stamp, FileReturns, fsVars, fileVars, IInv, TypeOK, FlagsOK
<1>3. CASE ShortCircuit
  <2>1. Delivered(f)
    BY <1>3, TrustedOutput DEF ShortCircuit
  <2>2. dst' = dst /\ released' = released /\ Blocks' = Blocks /\ outputs' = outputs /\ Other' = Other
    BY <1>3, Fixed DEF ShortCircuit, fsVars, checkpointVars, historyVars
  <2> QED BY <1>2, <2>1, <2>2 DEF Delivered, WholeCopy, Mistaken
<1>4. CASE Stamp
  <2>1. pc = "stamp" /\ slot \in Slots /\ file \in Files
    BY <1>0, <1>4, Here DEF Stamp, Slotted, InFile
  <2>2. WholeCopy(file, dst[slot])
    BY <1>0, <2>1 DEF Knows, Staged, Versioned, WholeCopy
  <2>3. f \in Files /\ pc # "failed" /\ pc # "pump" /\ src'[f] = src[f]
    BY <1>2, <2>1
  <2>4. PICK s \in Slots : s = slot
    BY <2>1
  <2>5. WholeCopy(f, dst[s])
    BY <2>2, <2>4
  <2>6. WholeCopy(f, dst[s])' \/ <<s, f, src[f]>> \in released'
    BY <2>3, <2>4, <2>5, Stands, Approvals
  <2> QED BY <1>2, <2>3, <2>4, <2>6 DEF Delivered
<1> QED BY <1>1, <1>2, <1>3, <1>4

\* A directory that is incomplete stays so.
LEMMA Incomplete ==
  ASSUME [Next]_vars, complete \in BOOLEAN, complete', ~PickItem
  PROVE  complete
<1>1. CASE Start \/ Retry \/ RetrySkipping \/ Discard \/ Cancel \/ Touching \/ Replacing
  BY <1>1 DEF Start, Begin, Retry, RetrySkipping, Discard, Cancel, Touching, Touch, Replacing,
    Replace, loopVars
<1>2. CASE PickEnd \/ MoveWithin \/ MoveWithinFails \/ EnterFileItem \/ EnterDir \/
           ItemBreaks \/ NextKid \/ EndDir \/ Placed \/ DeleteSourceFails
  BY <1>2 DEF PickEnd, MoveWithin, MoveWithinFails, EnterFileItem, EnterDir, ItemBreaks, NextKid,
    EndDir, Placed, DeleteSourceFails, loopVars
<1>3. CASE LeaveOut \/ ShortCircuit \/ Examine \/ ListFails \/ Overwrite \/ Skip \/ Rename \/ Abort
  BY <1>3 DEF LeaveOut, FileReturns, ShortCircuit, Examine, ListFails, Overwrite, Skip, Rename, Abort, loopVars
<1>4. CASE OpenPartial \/ OpenReplace \/ OpenFails \/ Pump \/ PumpEnds \/ PumpBreaks
  BY <1>4 DEF OpenPartial, OpenReplace, OpenFails, Pump, PumpEnds, PumpBreaks, FileReturns, loopVars
<1>5. CASE Verify \/ VerifyFails \/ DeleteOld \/ DeleteOldFails \/ RenameTemp \/ RenameFails \/ Stamp
  BY <1>5 DEF Verify, VerifyFails, DeleteOld, DeleteOldFails, RenameTemp, RenameFails, Stamp, FileReturns, loopVars
<1>6. CASE UNCHANGED vars
  BY <1>6 DEF vars, loopVars
<1> QED
  BY <1>1, <1>2, <1>3, <1>4, <1>5, <1>6, NextCases, Zenon

\* How a step leads into a file or a directory, or to an entry that is done.
LEMMA Courses ==
  ASSUME [Next]_vars
  PROVE  /\ pc' \in InFile \cup {"kid"} =>
              \/ EnterDir \/ EnterFileItem \/ NextKid
              \/ pc \in InFile /\ pc' = "kid"
              \/ pc \in InFile /\ pc' \in InFile /\ UNCHANGED <<item, kids, file, src>>
              \/ pc = "kid" /\ pc' = "kid" /\ UNCHANGED <<item, kids, src, complete>>
         /\ pc' = "placed" => pc \in InFile \/ EndDir \/ (pc = "placed" /\ UNCHANGED <<item, src>>)
<1>1. ASSUME pc' \in InFile, ~EnterFileItem, ~NextKid
      PROVE  pc \in InFile /\ UNCHANGED <<item, kids, file, src>>
  <2>1. pc \in InFile /\ file' = file /\ item' = item
    BY <1>1, Stays DEF PickItem, InItem, InFile
  <2>2. ~PickItem /\ ~EnterDir /\ ~Touching
    BY <2>1 DEF PickItem, EnterDir, Touching, Touch, InFile
  <2> QED BY <1>1, <2>1, <2>2, Writers
<1>2. ASSUME pc' = "kid", ~EnterDir
      PROVE  pc \in InFile \/ (pc = "kid" /\ UNCHANGED <<item, kids, src, complete>>)
  <2>1. LeaveOut \/ ShortCircuit \/ Skip \/ PumpBreaks \/ Stamp => pc \in InFile
    BY DEF LeaveOut, ShortCircuit, Skip, PumpBreaks, Stamp, InFile
  <2> QED BY <1>2, <2>1, Arrivals DEF Cancel, vars, fsVars, loopVars
<1>3. ASSUME pc' = "placed"
      PROVE  pc \in InFile \/ EndDir \/ (pc = "placed" /\ UNCHANGED <<item, src>>)
  <2>1. LeaveOut \/ ShortCircuit \/ Skip \/ PumpBreaks \/ Stamp => pc \in InFile
    BY DEF LeaveOut, ShortCircuit, Skip, PumpBreaks, Stamp, InFile
  <2> QED BY <1>3, <2>1, Arrivals DEF Cancel, vars, fsVars, loopVars
<1> QED BY <1>1, <1>2, <1>3

LEMMA CompleteStep ==
  ASSUME Engine, Undated, Complete, SourceNeverLost, [Next]_vars
  PROVE  Complete'
<1> SUFFICES ASSUME move
             PROVE  /\ pc' \in InFile \cup {"kid"} /\ IsDir(item') /\ complete' =>
                         \A f \in Kids[item'] \ kids' : (pc' \in InFile => f # file') => Delivered(f)'
                    /\ pc' = "placed" => \A f \in Kids[item'] : Delivered(f)'
  BY Fixed DEF Complete
<1>0. /\ IInv /\ Walk /\ Knows /\ Apart
      /\ pc \in InItem => item \in Items /\ Kids[item] \subseteq Files
      /\ pc \in InFile => file \in Kids[item] /\ (~IsDir(item) => Kids[item] = {file})
  <2>1. pc \in InItem => item \in Items
    BY Here DEF Engine, Knows
  <2>2. pc \in InFile => pc \in InItem /\ file \in Kids[item] /\ (~IsDir(item) => file = item)
    BY Here DEF Engine, Knows, InItem
  <2> QED BY <2>1, <2>2, Constants DEF Engine, Knows
<1>1. ASSUME pc' \in InFile \cup {"kid"}, IsDir(item'), complete', NEW f \in Kids[item'] \ kids', pc' \in InFile => f # file'
      PROVE  Delivered(f)'
  <2>1. CASE EnterDir
    <3>1. item' = item /\ pc = "item" /\ kids' = Kids[item] \ gone /\ f \in gone /\ f \in Files
      BY <1>0, <1>1, <2>1 DEF EnterDir, InItem
    <3>2. Delivered(f)
      BY <3>1 DEF SourceNeverLost, Delivered
    <3> QED BY <3>1, <3>2, DeliveredStep
  <2>2. CASE EnterFileItem
    BY <1>1, <2>2 DEF EnterFileItem, loopVars
  <2>3. CASE NextKid
    <3>1. item' = item /\ pc = "kid" /\ f \notin kids /\ complete /\ f \in Files /\ src' = src
      BY <1>0, <1>1, <2>3 DEF NextKid, InItem, InFile, fsVars
    <3>2. Delivered(f)
      BY <1>1, <3>1 DEF Complete, InFile
    <3> QED BY <3>1, <3>2, DeliveredStep DEF InFile
  <2>4. CASE pc \in InFile /\ pc' = "kid"
    <3>1. complete /\ item' = item /\ kids' = kids /\ src' = src /\ pc # "pump"
      BY <1>0, <1>1, <2>4, Returned, Incomplete DEF PickItem, InFile, IInv, TypeOK, FlagsOK
    <3>2. f = file => Delivered(f)'
      BY <1>1, <2>4, Returned
    <3>3. ASSUME f # file PROVE Delivered(f)'
      <4>1. Delivered(f) /\ f \in Files /\ pc # "failed"
        BY <1>0, <1>1, <2>4, <3>1, <3>3 DEF Complete, InItem, InFile
      <4> QED BY <3>1, <3>3, <4>1, DeliveredStep DEF InFile
    <3> QED BY <3>2, <3>3
  <2>5. CASE pc \in InFile /\ pc' \in InFile /\ UNCHANGED <<item, kids, file, src>>
    <3>1. complete
      <4>1. ~PickItem
        BY <2>5 DEF PickItem, InFile
      <4> QED BY <1>0, <1>1, <4>1, Incomplete DEF IInv, TypeOK, FlagsOK
    <3>2. Delivered(f) /\ f \in Files /\ f # file /\ pc # "failed"
      BY <1>0, <1>1, <2>5, <3>1 DEF Complete, InItem, InFile
    <3> QED BY <2>5, <3>2, DeliveredStep
  <2>6. CASE pc = "kid" /\ pc' = "kid" /\ UNCHANGED <<item, kids, src, complete>>
    <3>1. Delivered(f) /\ f \in Files
      BY <1>0, <1>1, <2>6 DEF Complete, InItem, InFile
    <3> QED BY <2>6, <3>1, DeliveredStep DEF InFile
  <2> QED BY <1>1, <2>1, <2>2, <2>3, <2>4, <2>5, <2>6, Courses
<1>2. ASSUME pc' = "placed", NEW f \in Kids[item']
      PROVE  Delivered(f)'
  <2>1. CASE pc \in InFile
    <3>1. item' = item /\ ~IsDir(item)
      BY <1>2, <2>1, Returned
    <3> QED BY <1>0, <1>2, <2>1, <3>1, Returned
  <2>2. CASE EndDir
    <3>1. pc = "kid" /\ kids = {} /\ complete /\ item' = item /\ src' = src
      BY <1>2, <2>2 DEF EndDir, loopVars, fsVars
    <3>2. Delivered(f) /\ f \in Files
      BY <1>0, <1>2, <3>1 DEF Complete, InItem, InFile, Walk
    <3> QED BY <3>1, <3>2, DeliveredStep DEF InFile
  <2>3. CASE pc = "placed" /\ UNCHANGED <<item, src>>
    <3>1. Delivered(f) /\ f \in Files
      BY <1>0, <1>2, <2>3 DEF Complete, InItem
    <3> QED BY <2>3, <3>1, DeliveredStep DEF InFile
  <2> QED BY <1>2, <2>1, <2>2, <2>3, Courses
<1> QED BY <1>1, <1>2

LEMMA LossStep ==
  ASSUME Engine, Complete, SourceNeverLost, [Next]_vars
  PROVE  SourceNeverLost'
<1> SUFFICES ASSUME NEW f \in gone'
             PROVE  Delivered(f)'
  BY DEF SourceNeverLost, Delivered
<1>0. /\ IInv /\ Walk /\ Knows /\ Apart /\ Blocks' = Blocks /\ gone' \subseteq Files
      /\ pc \in InItem => item \in Items /\ Kids[item] \subseteq Files /\ Kids[item] \subseteq Sources
  BY Here, StepInv, Fixed, Constants DEF Engine, Knows, IInv, TypeOK
<1>1. CASE f \in gone
  <2>1. Delivered(f) /\ f \in Files
    BY <1>0, <1>1 DEF SourceNeverLost, Delivered, IInv, TypeOK
  <2> QED BY <1>1, <2>1, DeliveredStep
<1>2. ASSUME NEW S, S \subseteq Kids[item], pc = "item", dst' = Placing(S), f \in S, src' = src
      PROVE  Delivered(f)'
  <2>1. /\ S \subseteq Files /\ f \in Sources /\ f \in Files
        /\ pc \in InItem /\ S \subseteq Sources
    BY <1>0, <1>2 DEF InItem
  <2>2. <<NameOf[f], 0>> \in Slots
    BY <2>1, Constants DEF Slots
  <2>3. dst'[<<NameOf[f], 0>>] = Moved(f)
    <3>1. PICK g \in S : <<NameOf[f], 0>> = <<NameOf[g], 0>> /\ dst'[<<NameOf[f], 0>>] = Moved(g)
      BY <1>2, <2>1, <2>2, Places
    <3>2. f = g
      BY <1>0, <2>1, <3>1 DEF Apart
    <3> QED BY <3>1, <3>2
  <2>4. WholeCopy(f, dst[<<NameOf[f], 0>>])'
    BY <1>0, <1>2, <2>3 DEF WholeCopy, Moved
  <2> QED BY <2>2, <2>4 DEF Delivered
<1>3. CASE f \notin gone /\ (MoveWithin \/ MoveWithinFails)
  <2>1. pc = "item" /\ src' = src
    BY <1>3 DEF MoveWithin, MoveWithinFails
  <2>2. \E S \in SUBSET Kids[item] : dst' = Placing(S) /\ f \in S
    BY <1>3 DEF MoveWithin, MoveWithinFails
  <2> QED BY <1>2, <2>1, <2>2
<1>4. CASE f \notin gone /\ (Placed \/ DeleteSourceFails)
  <2>1. pc = "placed" /\ src' = src /\ f \in Kids[item] /\ move
    BY <1>4 DEF Placed, DeleteSourceFails
  <2>2. Delivered(f) /\ f \in Files
    BY <1>0, <2>1 DEF Complete, InItem
  <2> QED BY <2>1, <2>2, DeliveredStep DEF InFile
<1> QED BY <1>1, <1>3, <1>4, Writers

\* A move deletes a source file only when its current version stands whole at the
\* destination, unless the user later approved overwriting that copy, or the time of
\* the copy could not be recorded and a stranger's file of its size took its place:
\* whatever fails, is edited, cancelled or retried, and whoever writes to the
\* destination, when no two files of the batch go to one name
\* (CopyEngine.transfer 133-150, 217-220 and 311-319).
THEOREM MovesLoseNothing == Spec /\ Apart => []SourceNeverLost
<1> DEFINE Kept == Engine /\ Undated /\ Complete /\ SourceNeverLost
<1>1. Init /\ Apart => Kept
  <2>1. Init /\ Apart => Engine
    BY InitInv, InitKnows DEF Engine
  <2>2. Init => Undated /\ Complete /\ SourceNeverLost
    BY DEF Init, Undated, Complete, SourceNeverLost, InFile
  <2> QED BY <2>1, <2>2
<1>2. Kept /\ [Next]_vars => Kept'
  <2>1. Engine /\ [Next]_vars => Engine'
    BY StepInv, KnowsStep, Fixed DEF Engine
  <2> QED BY <2>1, UndatedStep, CompleteStep, LossStep, Fixed
<1>3. Kept => SourceNeverLost
  OBVIOUS
<1> HIDE DEF Kept
<1> QED BY <1>1, <1>2, <1>3, PTL DEF Spec

-----------------------------------------------------------------------------
(* One of old and new survives an overwrite                                 *)

Whole(e) == e.len = Blocks /\ e.of # "mixed"
Approves(s) == <<s, "old", 0>> \in released

\* Another name than the first choice is only written to when that one was taken.
Choice ==
  /\ pc = "ask" => slot = TargetSlot /\ Exists(known[slot])
  /\ pc = "open" => slot = TargetSlot \/ Exists(known[TargetSlot])

\* How a file is written.
Manner ==
  /\ pc \in Writing /\ Resumable => mode = "temp"
  /\ pc \in {"pump", "verify", "delete", "rename"} /\ mode = "temp" => partials[key].slot = slot
  /\ pc = "pump" /\ mode = "inplace" => Given("tempRefused")
  /\ pc = "pump" /\ mode = "atomic" => backend = "atomic"

\* Files the transfer did not write are whole, and the user approved replacing files only.
Foreign ==
  /\ \A s \in Slots : dst[s].of \in {"old", "other"} => dst[s].len = Blocks
  /\ \A s \in Slots : Approves(s) => dst[s] # Folder /\ pc # "idle"
  /\ \A k \in Keys : ~Exists(temp[k]) => temp[k] = NoFile

\* Names written to by way of a temp file the checkpoint knows.
ResumedKept ==
  \A s \in Slots : Resumed(s) =>
    /\ dst[s] \in {NoFile, Folder} \/ Whole(dst[s])
    /\ Approves(s) /\ pc # "over" /\ skipped = {} =>
         Whole(dst[s]) \/ \E k \in Keys : partials[k].slot = s /\ Whole(temp[k])

\* Names written to by way of "name.twigpart": the temp file is whole while the name
\* has nothing whole, which takes a failure, and a file that is not whole stays there
\* only when the transfer is cancelled and does not come back to it.
Direct(s) == pc = "pump" /\ slot = s /\ mode = "direct"
Stood(s) == Whole(dst[s]) /\ ~Direct(s)
Passed(s) == cancelled /\ (pc \in Running => \A f \in Pending : NameOf[f] # s[1])
Plain(s) ==
  /\ ~Resumed(s) /\ backend # "atomic" /\ ~Given("shortReads") /\ ~Given("tempRefused")
  /\ Approves(s) /\ faults < 3
Kept(s) ==
  /\ Stood(s) \/ Whole(part[s])
  /\ Stood(s) \/ faults >= 1 \/ (pc = "rename" /\ slot = s /\ ~Exists(dst[s]))
  /\ Stood(s) \/ Direct(s) \/ ~Exists(dst[s]) \/ Passed(s)
  /\ pc = "pump" /\ slot = s /\ mode = "part" => Stood(s)
PlainKept == \A s \in Slots : Plain(s) => Kept(s)

\* Where a write that is under way can go next.
LEMMA Departures ==
  ASSUME [Next]_vars
  PROVE  /\ pc = "open" => OpenPartial \/ OpenReplace \/ OpenFails \/ Cancel \/ UNCHANGED vars
         /\ pc = "pump" => Pump \/ PumpEnds \/ PumpBreaks \/ Cancel \/ UNCHANGED vars
         /\ pc = "delete" => DeleteOld \/ DeleteOldFails \/ Cancel \/ UNCHANGED vars
         /\ pc = "rename" => RenameTemp \/ RenameFails \/ Cancel \/ UNCHANGED vars
         /\ pc = "stamp" => Stamp \/ Cancel \/ UNCHANGED vars
<1>1. CASE Start \/ Retry \/ RetrySkipping \/ Discard \/ Cancel \/ Touching \/ Replacing
  BY <1>1 DEF Start, Retry, RetrySkipping, Discard, Touching, Touch, Replacing, Replace
<1>2. CASE PickEnd \/ PickItem \/ MoveWithin \/ MoveWithinFails \/ EnterFileItem \/ EnterDir \/
           ItemBreaks \/ NextKid \/ EndDir \/ Placed \/ DeleteSourceFails
  BY <1>2 DEF PickEnd, PickItem, MoveWithin, MoveWithinFails, EnterFileItem, EnterDir, ItemBreaks,
    NextKid, EndDir, Placed, DeleteSourceFails
<1>3. CASE LeaveOut \/ ShortCircuit \/ Examine \/ ListFails \/ Overwrite \/ Skip \/ Rename \/ Abort
  BY <1>3 DEF LeaveOut, ShortCircuit, Examine, ListFails, Overwrite, Skip, Rename, Abort
<1>4. CASE OpenPartial \/ OpenReplace \/ OpenFails \/ Pump \/ PumpEnds \/ PumpBreaks
  BY <1>4 DEF OpenPartial, OpenReplace, OpenFails, Pump, PumpEnds, PumpBreaks
<1>5. CASE Verify \/ VerifyFails \/ DeleteOld \/ DeleteOldFails \/ RenameTemp \/ RenameFails \/ Stamp
  BY <1>5 DEF Verify, VerifyFails, DeleteOld, DeleteOldFails, RenameTemp, RenameFails, Stamp
<1> QED
  BY <1>1, <1>2, <1>3, <1>4, <1>5, NextCases, Zenon

LEMMA ChoiceStep ==
  ASSUME IInv, Knows, Choice, [Next]_vars
  PROVE  Choice'
<1>1. ASSUME key' = key, file' = file, partials' = partials, outputs' = outputs
      PROVE  TargetSlot' = TargetSlot
  BY <1>1 DEF TargetSlot
<1>2. ASSUME pc' = "ask"
      PROVE  slot' = TargetSlot' /\ Exists(known'[slot'])
  <2>1. key' = key /\ file' = file
    BY <1>2, Steady DEF IInv, Slotted, InFile
  <2>2. CASE Examine
    BY <1>1, <1>2, <2>1, <2>2 DEF Examine, Exists
  <2>3. CASE pc = "ask" /\ UNCHANGED <<slot, known, partials, outputs>>
    BY <1>1, <2>1, <2>3 DEF Choice
  <2> QED BY <1>2, <2>2, <2>3, Arrivals DEF Cancel, vars, checkpointVars, fileVars
<1>3. ASSUME pc' = "open"
      PROVE  slot' = TargetSlot' \/ Exists(known'[TargetSlot'])
  <2>1. key' = key /\ file' = file
    BY <1>3, Steady DEF IInv, Slotted, InFile
  <2>2. CASE Examine
    BY <1>1, <2>1, <2>2 DEF Examine
  <2>3. CASE Overwrite
    BY <1>1, <2>1, <2>3 DEF Overwrite, Choice, checkpointVars, fileVars
  <2>4. CASE Rename
    BY <1>1, <2>1, <2>4 DEF Rename, Choice, checkpointVars
  <2>5. CASE pc = "open" /\ UNCHANGED <<slot, known, partials, outputs>>
    BY <1>1, <2>1, <2>5 DEF Choice
  <2> QED BY <1>3, <2>2, <2>3, <2>4, <2>5, Arrivals DEF Cancel, vars, checkpointVars, fileVars
<1> QED BY <1>2, <1>3 DEF Choice, Exists

\* A step into a write opens it, or goes on with it.
LEMMA Opened ==
  ASSUME IInv, [Next]_vars, pc' \in Writing
  PROVE  \/ OpenPartial \/ OpenReplace
         \/ /\ pc \in Writing /\ mode' = mode
            /\ pc' # "stamp" => partials' = partials
            /\ pc' = "pump" => pc = "pump"
            /\ pc' # "stamp" => pc # "stamp"
<1>1. pc \in Writing \/ OpenPartial \/ OpenReplace
  BY Arrivals DEF Writing, Pump, PumpEnds, Verify, DeleteOld, DeleteOldFails, RenameTemp, Cancel, vars
<1>2. pc' = "pump" => OpenPartial \/ OpenReplace \/ pc = "pump"
  BY Arrivals DEF Pump, Cancel, vars
<1>3. ~RetrySkipping /\ ~Discard
  BY DEF RetrySkipping, Begin, Discard, Writing
<1>4. pc' # "stamp" => pc # "stamp" \/ OpenPartial \/ OpenReplace
  BY Arrivals DEF PumpEnds, Verify, DeleteOld, DeleteOldFails, Pump, Cancel, vars, Writing
<1>5. RenameTemp => pc' = "stamp"
  BY DEF RenameTemp
<1> QED BY <1>1, <1>2, <1>3, <1>4, <1>5, Writers

LEMMA MannerStep ==
  ASSUME IInv, Knows, Manner, [Next]_vars
  PROVE  Manner'
<1> SUFFICES ASSUME pc' \in Writing PROVE Manner'
  BY DEF Manner, Writing
<1>0. /\ backend' = backend /\ (Given("tempRefused")' <=> Given("tempRefused"))
      /\ key' = key /\ file' = file /\ (Resumable' <=> Resumable) /\ pc \in InFile
      /\ pc # "file" /\ pc # "ask" => slot' = slot
  BY Steady, Fixed DEF IInv, Given, Resumable, Writing, Slotted, InFile
<1>1. CASE OpenPartial
  <2>1. mode' = "temp" /\ pc' = "pump" /\ partials' = [partials EXCEPT ![key] = [slot |-> slot, replacing |-> known[slot]]]
    BY <1>1 DEF OpenPartial, FileFails, Fail, Writing
  <2>2. slot' = slot /\ key \in Keys
    BY <1>0, <1>1, Here DEF OpenPartial, Knows
  <2>3. partials'[key].slot = slot
    BY <2>1, <2>2 DEF IInv, TypeOK
  <2> QED BY <1>0, <2>1, <2>2, <2>3 DEF Manner
<1>2. CASE OpenReplace
  <2>1. ~Resumable /\ pc' = "pump" /\ mode' \in {"direct", "atomic", "part", "inplace"}
    BY <1>2 DEF OpenReplace
  <2>2. (mode' = "atomic" => backend = "atomic") /\ (mode' = "inplace" => Given("tempRefused"))
    BY <1>2 DEF OpenReplace
  <2> QED BY <1>0, <2>1, <2>2 DEF Manner
<1>3. CASE pc \in Writing /\ mode' = mode /\ (pc' # "stamp" => partials' = partials /\ pc # "stamp") /\ (pc' = "pump" => pc = "pump")
  <2>1. slot' = slot
    BY <1>0, <1>3 DEF Writing
  <2>2. pc' # "stamp" => partials'[key'] = partials[key]
    BY <1>0, <1>3
  <2> QED BY <1>0, <1>3, <2>1, <2>2 DEF Manner, Writing
<1> QED BY <1>1, <1>2, <1>3, Opened

\* The approvals a step adds for files that were there before.
LEMMA NewApproval ==
  ASSUME IInv, [Next]_vars, NEW s \in Slots, Approves(s)'
  PROVE  Approves(s) \/ (Overwrite /\ s = slot /\ known[s].of = "old")
<1>1. CASE Replacing
  <2>1. PICK n \in Targets : Replace(n)
    BY <1>1 DEF Replacing
  <2>2. "old" \notin gone
    BY Constants DEF IInv, TypeOK
  <2>3. released' = released \/ (dst[<<n, 0>>].of \in gone /\ released' = released \cup {<<<<n, 0>>, dst[<<n, 0>>].of, dst[<<n, 0>>].ver>>})
    BY <2>1 DEF Replace
  <2> QED BY <2>2, <2>3 DEF Approves
<1>2. CASE Overwrite
  BY <1>2 DEF Overwrite, Approves
<1>3. CASE released' = released
  BY <1>3 DEF Approves
<1> QED BY <1>1, <1>2, <1>3, Writers

LEMMA ForeignStep ==
  ASSUME IInv, Knows, Foreign, [Next]_vars
  PROVE  Foreign'
<1>0. /\ Blocks' = Blocks /\ "old" \notin Files /\ "other" \notin Files /\ "folder" \notin Files
      /\ pc \in InItem => Kids[item] \subseteq Files
      /\ pc \in Slotted => file \in Files
  BY Here, Fixed, Constants DEF Knows
<1>1. MoveWithin \/ MoveWithinFails => pc \in InItem
  BY DEF MoveWithin, MoveWithinFails, InItem
<1>2. ASSUME NEW s \in Slots
      PROVE  dst'[s] = dst[s] \/ dst'[s] \in {Other, NoFile} \/ dst'[s].of \in Files
  <2>1. ASSUME MoveWithin \/ MoveWithinFails, NEW f \in Kids[item], dst'[s] = Moved(f)
        PROVE  dst'[s].of \in Files
    BY <1>0, <1>1, <2>1 DEF Moved
  <2> QED BY <1>0, <2>1, NewEntries DEF Versioned
<1>3. ASSUME NEW s \in Slots, dst'[s].of \in {"old", "other"}
      PROVE  dst'[s].len = Blocks
  BY <1>0, <1>2, <1>3 DEF Foreign, Other, NoFile, Nobody
<1>4. ASSUME NEW s \in Slots, Approves(s)'
      PROVE  dst'[s] # Folder /\ pc' # "idle"
  <2>1. CASE Approves(s)
    <3>1. dst'[s] # Folder
      BY <1>0, <1>2, <2>1 DEF Foreign, Other, NoFile, Folder, Nobody
    <3>2. pc' # "idle"
      <4>1. Touching => pc' = pc
        BY DEF Touching, Touch
      <4> QED BY <2>1, <4>1, Arrivals DEF Foreign, vars
    <3> QED BY <3>1, <3>2
  <2>2. CASE Overwrite /\ s = slot /\ known[s].of = "old"
    <3>1. pc = "ask" /\ pc' = "open" /\ dst' = dst
      BY <2>2 DEF Overwrite, fsVars
    <3>2. known[s] = dst[s]
      BY <2>2, <3>1, Known DEF Knows
    <3> QED BY <2>2, <3>1, <3>2 DEF Folder
  <2> QED BY <1>4, <2>1, <2>2, NewApproval
<1>5. ASSUME NEW k \in Keys, ~Exists(temp'[k])
      PROVE  temp'[k] = NoFile
  <2>1. temp'[k] \in {temp[k], NoFile} \/ temp'[k].of \in Files \cup {"mixed"}
    <3>1. CASE RetrySkipping \/ Discard
      BY <1>5, <3>1 DEF RetrySkipping, Discard, Discarded
    <3>2. CASE OpenPartial
      <4>1. Fresh.of \in Files
        BY <1>0, <3>2 DEF OpenPartial, Fresh, Slotted, InFile
      <4> QED BY <1>5, <3>2, <4>1 DEF OpenPartial, IInv, TypeOK
    <3>3. CASE Pump
      <4>1. Grown(temp[k]).of \in Files \cup {"mixed"}
        BY <1>0, <3>3 DEF Pump, Grown, Slotted, InFile
      <4> QED BY <1>5, <3>3, <4>1 DEF Pump, IInv, TypeOK
    <3>4. CASE RenameTemp \/ RenameFails
      BY <1>5, <3>4 DEF RenameTemp, RenameFails, PutInPlace, IInv, TypeOK
    <3> QED BY <1>5, <3>1, <3>2, <3>3, <3>4, Writers
  <2>2. temp'[k].of = "nobody"
    BY <1>5 DEF Exists, Nobody
  <2> QED BY <1>5, <2>1, <2>2, Constants DEF Foreign, Exists, Nobody
<1> QED BY <1>0, <1>3, <1>4, <1>5 DEF Foreign, Exists

\* What resumed means for the file that is written.
LEMMA WrittenNames ==
  ASSUME IInv, Knows, Apart, NEW s \in Slots, s = slot, pc \in Slotted
  PROVE  /\ Resumed(s) <=> Resumable
         /\ file \in Files /\ key \in Keys /\ key[1] = file /\ file \in Sources /\ s[1] = NameOf[file]
<1>1. /\ file \in Files /\ key \in Keys /\ key[1] = file /\ file \in Sources /\ s[1] = NameOf[file]
  BY Here DEF Knows
<1>2. \A f \in Sources : NameOf[f] = s[1] <=> f = file
  BY <1>1 DEF Apart
<1> QED BY <1>1, <1>2 DEF Resumed, Resumable

LEMMA Fixtures ==
  ASSUME IInv, [Next]_vars
  PROVE  /\ \A s \in Slots : Resumed(s)' <=> Resumed(s)
         /\ Blocks' = Blocks /\ Blocks \in Nat /\ Blocks # 0
         /\ \A e : Whole(e)' <=> Whole(e)
         /\ "mixed" \notin Files
<1>1. Blocks' = Blocks /\ Blocks \in Nat /\ Blocks # 0
  BY SettingFacts, Fixed, Constants DEF IInv, TypeOK
<1>2. \A s \in Slots : Resumed(s)' <=> Resumed(s)
  BY Fixed DEF Resumed
<1>3. \A e : Whole(e)' <=> Whole(e)
  BY <1>1 DEF Whole
<1> QED BY <1>1, <1>2, <1>3, Constants

\* A name that is written to by way of a temp file never holds a piece of a file.
LEMMA ResumedName ==
  ASSUME Engine, Manner, ResumedKept, [Next]_vars, NEW s \in Slots, Resumed(s)
  PROVE  dst'[s] \in {NoFile, Folder} \/ Whole(dst'[s])
<1>0. /\ IInv /\ Knows /\ Apart /\ Walk /\ Blocks \in Nat /\ dst[s] \in Entry
      /\ pc \in InItem => Kids[item] \subseteq Files
      /\ "mixed" \notin Files
      /\ dst[s] \in {NoFile, Folder} \/ Whole(dst[s])
  BY Here, SettingFacts, Constants DEF Engine, Knows, IInv, TypeOK, ResumedKept
<1>1. CASE dst'[s] = dst[s]
  BY <1>0, <1>1
<1>2. CASE dst'[s] = Other
  BY <1>2 DEF Whole, Other
<1>3. ASSUME NEW f \in Kids[item], pc = "item", dst'[s] = Moved(f)
      PROVE  Whole(dst'[s])
  BY <1>0, <1>3 DEF Whole, Moved, InItem
<1>4. CASE s = slot /\ pc \in Slotted
  <2>1. Resumable /\ file \in Files /\ key \in Keys
    BY <1>0, <1>4, WrittenNames
  <2>2. pc \in Writing => mode = "temp"
    BY <2>1 DEF Manner
  <2>3. OpenReplace => ~Resumable
    BY DEF OpenReplace
  <2>4. Pump \/ PumpEnds \/ PumpBreaks => pc = "pump"
    BY DEF Pump, PumpEnds, PumpBreaks
  <2>5. RenameTemp \/ RenameFails => pc = "rename"
    BY DEF RenameTemp, RenameFails
  <2>6. pc = "rename" /\ mode = "temp" => Whole(temp[key])
    BY <1>0, <2>1 DEF Knows, Staged, WholeCopy, Whole
  <2>7. Stamp /\ dst'[s] = [dst[s] EXCEPT !.mt = ver] => Whole(dst'[s]) \/ dst[s] \in {NoFile, Folder}
    BY <1>0 DEF Whole, Entry
  <2>8. Stamp => dst[s] \notin {NoFile, Folder}
    <3>1. Stamp => pc = "stamp" /\ dst[s].of = file
      BY <1>0, <1>4 DEF Stamp, Knows, Staged, Versioned
    <3> QED BY <2>1, <3>1, Constants DEF NoFile, Folder, Nobody
  <2> QED BY <1>0, <1>1, <1>2, <1>3, <1>4, <2>1, <2>2, <2>3, <2>4, <2>5, <2>6, <2>7, <2>8, Effects DEF Writing
<1> QED BY <1>0, <1>1, <1>2, <1>3, <1>4, Effects

\* What was replaced on approval at such a name is there, or a whole file for it is staged.
LEMMA ResumedContent ==
  ASSUME Engine, Choice, Manner, Foreign, ResumedKept, [Next]_vars,
         NEW s \in Slots, Resumed(s), Approves(s)', pc' # "over", skipped' = {}
  PROVE  Whole(dst'[s]) \/ \E k \in Keys : partials'[k].slot = s /\ Whole(temp'[k])
<1>0. /\ IInv /\ Knows /\ Apart /\ Walk /\ Blocks \in Nat /\ Blocks # 0 /\ dst[s] \in Entry
      /\ skipped = {} /\ pc # "over"
  <2>1. skipped \subseteq skipped'
    BY Writers DEF RetrySkipping
  <2> QED BY <2>1, Leaves, SettingFacts, Constants DEF Engine, Knows, IInv, TypeOK
<1>1. CASE Overwrite /\ s = slot /\ known[s].of = "old"
  <2>1. pc = "ask" /\ dst' = dst
    BY <1>1 DEF Overwrite, fsVars
  <2>2. known[s] = dst[s]
    BY <1>0, <1>1, <2>1, Known DEF Knows
  <2> QED BY <1>1, <2>1, <2>2 DEF Foreign, Whole
<1>2. CASE Approves(s) /\ Whole(dst[s])
  <2> SUFFICES ASSUME ~Whole(dst'[s])
               PROVE  \E k \in Keys : partials'[k].slot = s /\ Whole(temp'[k])
    OBVIOUS
  <2>1. dst'[s] = NoFile
    <3>1. dst'[s] # Folder
      BY <1>0, <1>2, ForeignStep DEF Foreign
    <3> QED BY <3>1, ResumedName
  <2>2. dst[s] # NoFile /\ dst'[s] # dst[s] /\ Exists(dst[s])
    BY <1>0, <1>2, <2>1 DEF Whole, NoFile, Knows, Homes
  <2>3. s = slot /\ pc = "delete" /\ (DeleteOld \/ DeleteOldFails)
    <3>1. Other # NoFile /\ (pc = "item" => \A f \in Kids[item] : Moved(f) # NoFile)
      BY <1>0, Here, Constants DEF Other, NoFile, Moved, Nobody, InItem
    <3>2. s = slot /\ pc \in Slotted
      BY <2>1, <2>2, <3>1, Effects, <1>0
    <3>3. /\ Resumable /\ file \in Files /\ Fresh # NoFile
          /\ pc \in Writing => mode = "temp"
      BY <1>0, <3>2, WrittenNames, Constants DEF Manner, Fresh, NoFile, Nobody
    <3>4. OpenFails => Exists(known[slot])
      BY <1>0, <2>2, <3>2, Known DEF OpenFails, Knows
    <3>5. dst'[s] # [dst[s] EXCEPT !.mt = ver]
      BY <1>0, <2>1, <2>2 DEF Exists, NoFile, Entry
    <3>6. /\ Pump \/ PumpEnds \/ PumpBreaks => pc = "pump"
          /\ DeleteOld \/ DeleteOldFails => pc = "delete"
      BY DEF Pump, PumpEnds, PumpBreaks, DeleteOld, DeleteOldFails
    <3> QED BY <1>0, <2>1, <2>2, <3>1, <3>2, <3>3, <3>4, <3>5, <3>6, Effects DEF Writing
  <2>4. mode = "temp" /\ key \in Keys /\ WholeCopy(file, temp[key]) /\ file \in Files /\ partials[key].slot = slot
    <3>1. Resumable /\ key \in Keys /\ file \in Files
      BY <1>0, <2>3, WrittenNames DEF Slotted, InFile
    <3>2. mode = "temp"
      BY <2>3, <3>1 DEF Manner, Writing
    <3> QED BY <1>0, <2>3, <3>1, <3>2 DEF Manner, Knows, Staged
  <2>5. partials' = partials /\ temp' = temp
    BY <2>3 DEF DeleteOld, DeleteOldFails, checkpointVars
  <2> QED BY <2>3, <2>4, <2>5, Constants DEF WholeCopy, Whole
<1>3. ASSUME Approves(s), NEW k \in Keys, partials[k].slot = s, Whole(temp[k])
      PROVE  Whole(dst'[s]) \/ \E j \in Keys : partials'[j].slot = s /\ Whole(temp'[j])
  <2>0. /\ partials[k] # NoPartial /\ k[1] \in Files /\ s[1] = NameOf[k[1]] /\ temp[k].len = Blocks
        /\ temp[k] # NoFile /\ Exists(temp[k])
    <3>1. temp[k].len = Blocks /\ temp[k] # NoFile
      BY <1>0, <1>3 DEF Whole, NoFile
    <3>2. partials[k] # NoPartial
      BY <1>3, Constants DEF NoPartial
    <3>3. Exists(temp[k])
      BY <1>3, <3>1 DEF Foreign
    <3> QED BY <1>0, <1>3, <3>1, <3>2, <3>3 DEF IInv, Named, Own, Keys
  <2>1. CASE partials'[k] = partials[k] /\ temp'[k] = temp[k]
    BY <1>3, <2>1
  <2>2. CASE RetrySkipping \/ Discard
    <3>1. ~RetrySkipping
      BY DEF RetrySkipping
    <3> QED BY <2>2, <3>1 DEF Discard
  <2>3. CASE OpenPartial
    <3>1. pc = "open" /\ dst' = dst /\ key \in Keys /\ slot \in Slots /\ key[1] = file /\ pc \in InFile
      BY <1>0, <2>3, Here DEF OpenPartial, Slotted, InFile
    <3>2. CASE k # key
      BY <1>0, <1>3, <2>1, <2>3, <3>1, <3>2 DEF OpenPartial, IInv, TypeOK
    <3>3. CASE k = key
      <4>1. temp'[k] = temp[k] /\ partials'[k].slot = slot
        BY <1>0, <1>3, <2>0, <2>3, <3>1, <3>3 DEF OpenPartial, IInv, TypeOK
      <4>2. CASE slot = s
        BY <1>3, <4>1, <4>2
      <4>3. CASE slot # s
        <5>1. TargetSlot = s
          BY <1>3, <2>0, <3>3 DEF TargetSlot
        <5>2. Exists(known[s])
          BY <3>1, <4>3, <5>1 DEF Choice
        <5>3. known[s] = dst[s]
          BY <1>0, <2>0, <3>1, <3>3, Known DEF Knows
        <5>4. dst[s] # NoFile /\ dst[s] # Folder
          BY <1>3, <5>2, <5>3 DEF Foreign, Exists, NoFile
        <5> QED BY <3>1, <5>4 DEF ResumedKept
      <4> QED BY <4>2, <4>3
    <3> QED BY <3>2, <3>3
  <2>4. CASE Pump
    <3>1. ~(mode = "temp" /\ k = key)
      <4>1. copied \in Nat /\ copied < Blocks /\ pc = "pump" /\ temp[k].len \in Nat
        BY <1>0, <1>3, <2>4, Constants DEF Pump, IInv, TypeOK, Entry
      <4> QED BY <1>0, <2>0, <4>1 DEF IInv, Growing
    <3>2. temp'[k] = temp[k] /\ partials' = partials
      BY <1>0, <1>3, <2>4, <3>1 DEF Pump, checkpointVars, IInv, TypeOK
    <3> QED BY <2>1, <3>2
  <2>5. CASE RenameTemp \/ RenameFails
    <3>1. pc = "rename" /\ pc \in Slotted /\ key \in Keys /\ slot \in Slots
      BY <1>0, <2>5, Here DEF RenameTemp, RenameFails, Slotted, InFile
    <3>2. CASE mode = "temp" /\ k = key /\ temp' # temp
      <4>1. slot = s
        BY <1>3, <3>1, <3>2 DEF Manner
      <4>2. dst'[s] = temp[k]
        BY <1>0, <1>3, <2>5, <3>1, <3>2, <4>1 DEF RenameTemp, RenameFails, PutInPlace, IInv, TypeOK
      <4> QED BY <1>3, <4>2
    <3>3. CASE (mode = "temp" /\ k = key /\ temp' = temp) \/ ~(mode = "temp" /\ k = key)
      <4>1. temp'[k] = temp[k]
        BY <1>0, <1>3, <2>5, <3>3 DEF RenameTemp, RenameFails, PutInPlace, IInv, TypeOK
      <4>2. partials'[k] = partials[k] \/ (RenameTemp /\ mode = "temp" /\ k = key)
        BY <1>0, <1>3, <2>5, <3>1 DEF RenameTemp, RenameFails, IInv, TypeOK
      <4>3. RenameTemp /\ mode = "temp" /\ k = key => temp'[k] = NoFile
        BY <1>0, <1>3, <3>1 DEF RenameTemp, PutInPlace, IInv, TypeOK
      <4> QED BY <2>0, <2>1, <4>1, <4>2, <4>3
    <3> QED BY <3>2, <3>3
  <2> QED BY <2>1, <2>2, <2>3, <2>4, <2>5, Writers
<1>4. Approves(s) => Whole(dst[s]) \/ \E k \in Keys : partials[k].slot = s /\ Whole(temp[k])
  BY <1>0 DEF ResumedKept
<1> QED BY <1>0, <1>1, <1>2, <1>3, <1>4, NewApproval

LEMMA ResumedStep ==
  ASSUME Engine, Choice, Manner, Foreign, ResumedKept, [Next]_vars
  PROVE  ResumedKept'
<1>1. \A s \in Slots : Resumed(s)' <=> Resumed(s)
  BY Fixtures DEF Engine
<1>2. ASSUME NEW s \in Slots, Resumed(s)
      PROVE  (dst[s] \in {NoFile, Folder} \/ Whole(dst[s]))'
  <2>1. dst'[s] \in {NoFile, Folder} \/ Whole(dst'[s])
    BY <1>2, ResumedName
  <2> QED BY <2>1, Fixtures DEF Engine, Whole
<1>3. ASSUME NEW s \in Slots, Resumed(s), Approves(s)', pc' # "over", skipped' = {}
      PROVE  (Whole(dst[s]) \/ \E k \in Keys : partials[k].slot = s /\ Whole(temp[k]))'
  <2>1. Whole(dst'[s]) \/ \E k \in Keys : partials'[k].slot = s /\ Whole(temp'[k])
    BY <1>3, ResumedContent
  <2> QED BY <2>1, Fixtures DEF Engine, Whole
<1> QED BY <1>1, <1>2, <1>3 DEF ResumedKept

\* The steps that write to a name by way of "name.twigpart", or straight to it when it is free.
LEMMA PlainFacts ==
  ASSUME Engine, Manner, Foreign, PlainKept, [Next]_vars, NEW s \in Slots, Plain(s)
  PROVE  /\ IInv /\ Knows /\ Apart /\ Walk /\ Kept(s) /\ Approves(s) /\ faults < 3
         /\ Blocks \in Nat /\ Blocks # 0 /\ dst[s] \in Entry /\ part[s] \in Entry /\ faults \in Nat
         /\ "mixed" \notin Files
         /\ dst[s] # Folder /\ pc # "idle"
         /\ s = slot /\ pc \in Slotted =>
              /\ ~Resumable /\ file \in Files /\ file \in Sources /\ pc \in InFile /\ s[1] = NameOf[file]
              /\ pc \in {"pump", "delete", "rename"} => mode \in {"direct", "part"}
              /\ pc \in {"ask", "open"} => known[s] = dst[s]
              /\ pc \in {"delete", "rename"} => mode = "part" /\ Whole(part[s])
              /\ pc = "stamp" => Whole(dst[s])
<1>1. /\ IInv /\ Knows /\ Apart /\ Walk /\ Kept(s) /\ Approves(s) /\ faults < 3
      /\ Blocks \in Nat /\ Blocks # 0 /\ dst[s] \in Entry /\ part[s] \in Entry /\ faults \in Nat
      /\ "mixed" \notin Files
      /\ dst[s] # Folder /\ pc # "idle"
  BY SettingFacts, Constants DEF Engine, Knows, IInv, TypeOK, PlainKept, Plain, Foreign
<1>2. ASSUME s = slot, pc \in Slotted
      PROVE  /\ ~Resumable /\ file \in Files /\ file \in Sources /\ pc \in InFile /\ s[1] = NameOf[file]
             /\ pc \in {"pump", "delete", "rename"} => mode \in {"direct", "part"}
             /\ pc \in {"ask", "open"} => known[s] = dst[s]
             /\ pc \in {"delete", "rename"} => mode = "part" /\ Whole(part[s])
             /\ pc = "stamp" => Whole(dst[s])
  <2>1. ~Resumable /\ file \in Files /\ file \in Sources /\ pc \in InFile /\ s[1] = NameOf[file]
    BY <1>1, <1>2, WrittenNames DEF Plain, Slotted
  <2>2. pc \in {"pump", "delete", "rename"} => mode \in {"direct", "part"}
    BY <1>1, <2>1 DEF IInv, TypeOK, Locals, Manner, Plain
  <2>3. pc \in {"ask", "open"} => known[s] = dst[s]
    BY <1>1, <1>2, Known DEF Knows
  <2>4. pc \in {"delete", "rename"} => mode = "part" /\ Whole(part[s])
    BY <1>1, <1>2, <2>1 DEF IInv, Locals, Knows, Staged, Versioned, Whole, Plain
  <2>5. pc = "stamp" => Whole(dst[s])
    BY <1>1, <1>2, <2>1 DEF Knows, Staged, Versioned, Whole, Plain
  <2> QED BY <2>1, <2>2, <2>3, <2>4, <2>5
<1> QED BY <1>1, <1>2

\* A cancelled transfer does not come back to a name it has been through.
LEMMA PassedStep ==
  ASSUME IInv, Walk, [Next]_vars, pc # "idle", NEW s, Passed(s)
  PROVE  Passed(s)'
<1>1. ~Start /\ ~Retry /\ ~RetrySkipping
  BY DEF Start, Retry, RetrySkipping, Passed
<1>2. cancelled'
  BY Writers DEF Cancel, Abort, Passed
<1>3. ASSUME pc' \in Running, NEW f \in Pending'
      PROVE  NameOf[f] # s[1]
  BY <1>1, <1>3, StillPending DEF Passed
<1> QED BY <1>2, <1>3 DEF Passed

\* A write that is cut short by a cancel is the transfer's last at this name.
LEMMA CutShort ==
  ASSUME Engine, Manner, Foreign, PlainKept, [Next]_vars, NEW s \in Slots, Plain(s),
         PumpBreaks, slot = s, cancelled, pc' # "failed"
  PROVE  Passed(s)'
<1>1. /\ IInv /\ Walk /\ Apart /\ pc = "pump" /\ pc \in Slotted /\ file \in Sources /\ s[1] = NameOf[file]
      /\ cancelled' /\ pc' \notin {"ask", "open"}
  <2>1. pc = "pump" /\ cancelled' = cancelled /\ pc' \in {"kid", "placed", "pick", "failed"}
    BY DEF PumpBreaks, FileFails, Fail, FileReturns
  <2> QED BY <2>1, PlainFacts DEF Slotted, InFile
<1>2. ~Start /\ ~Retry /\ ~RetrySkipping
  BY DEF Start, Retry, RetrySkipping, PumpBreaks
<1>3. ASSUME pc' \in Running, NEW f \in Pending'
      PROVE  NameOf[f] # s[1]
  <2>1. f \in Sources /\ f # file
    BY <1>1, <1>2, <1>3, StillPending
  <2> QED BY <1>1, <2>1 DEF Apart
<1> QED BY <1>1, <1>3 DEF Passed

LEMMA FaultsGrow ==
  ASSUME IInv, [Next]_vars
  PROVE  faults \in Nat /\ faults' \in Nat /\ faults <= faults'
<1>1. faults \in Nat
  BY Constants DEF IInv, TypeOK
<1>2. CASE PumpBreaks
  <2>1. PICK broken \in {0, 1}, cleanup \in {0, 1} : faults' = faults + broken + cleanup
    BY <1>2 DEF PumpBreaks
  <2> QED BY <1>1, <2>1
<1>3. CASE faults' = faults \/ Fault
  BY <1>1, <1>3 DEF Fault
<1> QED BY <1>2, <1>3, Others DEF IInv, TypeOK, FlagsOK

\* The write straight to a free name.
LEMMA DirectStep ==
  ASSUME Engine, Manner, Foreign, PlainKept, [Next]_vars, NEW s \in Slots, Plain(s), faults' < 3, Direct(s)
  PROVE  Kept(s)'
<1>0. /\ IInv /\ Knows /\ Walk /\ Blocks \in Nat /\ Blocks' = Blocks /\ faults \in Nat /\ faults' \in Nat
      /\ faults <= faults' /\ dst \in [Slots -> Entry] /\ "mixed" \notin Files
      /\ s = slot /\ pc = "pump" /\ mode = "direct" /\ pc \in Slotted /\ file \in Files
      /\ Whole(part[s]) /\ faults >= 1
  <2>1. s = slot /\ pc = "pump" /\ mode = "direct" /\ pc \in Slotted
    BY DEF Direct, Slotted, InFile
  <2>2. IInv /\ Knows /\ Walk /\ Kept(s) /\ Blocks \in Nat /\ file \in Files /\ "mixed" \notin Files
    BY <2>1, PlainFacts
  <2>3. faults \in Nat /\ faults' \in Nat /\ faults <= faults' /\ Blocks' = Blocks
    BY <2>2, FaultsGrow, Fixed
  <2> QED BY <2>1, <2>2, <2>3 DEF Kept, Stood, IInv, TypeOK
<1>1. faults' >= 1
  BY <1>0
<1>2. ASSUME part' = part
      PROVE  Whole(part[s])'
  BY <1>0, <1>2 DEF Whole
<1>3. CASE Pump \/ Cancel \/ UNCHANGED vars
  <2>1. part' = part /\ pc' = "pump" /\ slot' = slot /\ mode' = mode
    BY <1>0, <1>3 DEF Pump, Cancel, vars, fsVars, fileVars
  <2> QED BY <1>0, <1>1, <1>2, <2>1 DEF Kept, Direct
<1>4. CASE PumpEnds
  <2>1. copied = Blocks /\ dst' = dst /\ pc' = "stamp"
    BY <1>0, <1>4 DEF PumpEnds, Plain
  <2>2. dst[s].of = file /\ dst[s].len = Blocks
    BY <1>0, <2>1 DEF IInv, Growing, WrittenTo, Versioned
  <2>3. Whole(dst[s])' /\ ~Direct(s)'
    BY <1>0, <2>1, <2>2 DEF Whole, Direct
  <2> QED BY <2>3 DEF Kept, Stood
<1>5. CASE PumpBreaks
  <2>1. PICK broken \in {0, 1}, cleanup \in {0, 1} :
          /\ broken = 0 => cancelled
          /\ faults' = faults + broken + cleanup
          /\ dst' = CASE mode = "direct" /\ cleanup = 0 -> [dst EXCEPT ![slot] = NoFile]
                      [] mode = "atomic" /\ cleanup = 0 -> [dst EXCEPT ![slot] = part[slot]]
                      [] OTHER -> dst
          /\ part' = IF mode = "atomic" \/ (mode = "part" /\ cleanup = 0)
                     THEN [part EXCEPT ![slot] = NoFile] ELSE part
          /\ IF broken = 1 THEN FileFails /\ UNCHANGED complete
                           ELSE FileReturns(FALSE) /\ UNCHANGED failure
    BY <1>5, Zenon DEF PumpBreaks
  <2>2. part' = part /\ pc' # "pump"
    BY <1>0, <2>1 DEF FileFails, Fail, FileReturns
  <2>3. CASE cleanup = 0
    <3>1. dst'[s] = NoFile
      BY <1>0, <2>1, <2>3
    <3>2. ~Exists(dst'[s])
      BY <3>1 DEF NoFile, Exists
    <3> QED BY <1>1, <1>2, <2>2, <3>2 DEF Kept, Exists
  <2>4. CASE cleanup = 1
    <3>1. broken = 0 /\ cancelled
      BY <1>0, <2>1, <2>4
    <3>2. pc' # "failed"
      BY <2>1, <3>1 DEF FileReturns
    <3>3. Passed(s)'
      BY <1>0, <1>5, <3>1, <3>2, CutShort
    <3> QED BY <1>1, <1>2, <2>2, <3>3 DEF Kept
  <2> QED BY <2>3, <2>4
<1> QED BY <1>0, <1>3, <1>4, <1>5, Departures

\* A file at the name is opened.
LEMMA OpenStep ==
  ASSUME Engine, Manner, Foreign, PlainKept, [Next]_vars, NEW s \in Slots, Plain(s), faults' < 3,
         s = slot, pc = "open", OpenReplace \/ OpenFails
  PROVE  Kept(s)'
<1>0. /\ IInv /\ Knows /\ Walk /\ Kept(s) /\ Blocks \in Nat /\ Blocks # 0 /\ Blocks' = Blocks
      /\ faults \in Nat /\ faults' \in Nat /\ faults <= faults'
      /\ dst \in [Slots -> Entry] /\ part \in [Slots -> Entry]
      /\ pc # "idle" /\ pc \in InFile /\ s[1] = NameOf[file] /\ known[s] = dst[s]
      /\ Exists(dst[s]) \/ dst[s] = NoFile
  <2>1. pc \in Slotted
    BY DEF Slotted, InFile
  <2>2. /\ IInv /\ Knows /\ Walk /\ Kept(s) /\ Blocks \in Nat /\ Blocks # 0
        /\ pc # "idle" /\ pc \in InFile /\ s[1] = NameOf[file] /\ known[s] = dst[s]
    BY <2>1, PlainFacts
  <2>3. faults \in Nat /\ faults' \in Nat /\ faults <= faults' /\ Blocks' = Blocks
    BY <2>2, FaultsGrow, Fixed
  <2> QED BY <2>2, <2>3 DEF IInv, TypeOK, Knows, Homes
<1>1. ~Direct(s) /\ (~Stood(s) => Whole(part[s]) /\ faults >= 1 /\ faults' >= 1)
  BY <1>0 DEF Kept, Direct
<1>2. Exists(dst[s]) => Stood(s)
  <2>1. ~Passed(s)
    <3>1. file \in Pending
      BY Awaited DEF AwaitedIs
    <3> QED BY <1>0, <3>1 DEF Passed, Running, InItem
  <2> QED BY <1>0, <1>1, <2>1 DEF Kept
<1>3. ~Exists(dst[s]) => dst[s] = NoFile /\ ~Stood(s)
  BY <1>0 DEF Stood, Whole, NoFile
<1>4. CASE OpenReplace /\ ~Exists(known[slot])
  <2>1. part' = part /\ pc' = "pump" /\ slot' = slot /\ mode' = "direct"
    BY <1>4 DEF OpenReplace
  <2>2. Whole(part[s])'
    BY <1>0, <1>1, <1>3, <1>4, <2>1 DEF Whole
  <2> QED BY <1>0, <1>1, <1>3, <1>4, <2>1, <2>2 DEF Kept, Direct
<1>5. CASE OpenReplace /\ Exists(known[slot])
  <2>1. dst' = dst /\ mode' # "direct"
    BY <1>5 DEF OpenReplace, Plain
  <2>2. Stood(s)'
    BY <1>0, <1>2, <1>5, <2>1 DEF Stood, Whole, Direct
  <2> QED BY <2>2 DEF Kept
<1>6. CASE OpenFails
  <2>1. part' = part /\ pc' = "failed"
    BY <1>6 DEF OpenFails, FileFails, Fail
  <2>2. CASE Exists(dst[s])
    <3>1. dst' = dst
      BY <1>0, <1>6, <2>2 DEF OpenFails
    <3>2. Stood(s)'
      BY <1>0, <1>2, <2>1, <2>2, <3>1 DEF Stood, Whole, Direct
    <3> QED BY <3>2 DEF Kept
  <2>3. CASE ~Exists(dst[s])
    <3>1. dst'[s] = NoFile
      BY <1>0, <1>3, <1>6, <2>3 DEF OpenFails
    <3>2. ~Exists(dst'[s])
      BY <3>1 DEF NoFile, Exists
    <3>3. Whole(part[s])'
      BY <1>0, <1>1, <1>3, <2>1, <2>3 DEF Whole
    <3> QED BY <1>1, <1>3, <2>1, <2>3, <3>2, <3>3 DEF Kept, Exists
  <2> QED BY <2>2, <2>3
<1> QED BY <1>4, <1>5, <1>6

\* The old file gives way to the whole temp file.
LEMMA SwapStep ==
  ASSUME Engine, Manner, Foreign, PlainKept, [Next]_vars, NEW s \in Slots, Plain(s), faults' < 3,
         s = slot, pc \in {"delete", "rename"}, ~Cancel, ~UNCHANGED vars
  PROVE  Kept(s)'
<1>0. /\ IInv /\ Knows /\ Walk /\ Kept(s) /\ Blocks \in Nat /\ Blocks' = Blocks
      /\ faults \in Nat /\ faults' \in Nat /\ faults <= faults'
      /\ dst \in [Slots -> Entry] /\ part \in [Slots -> Entry]
      /\ pc # "idle" /\ mode = "part" /\ Whole(part[s])
  <2>1. pc \in Slotted
    BY DEF Slotted, InFile
  <2>2. /\ IInv /\ Knows /\ Walk /\ Kept(s) /\ Blocks \in Nat
        /\ pc # "idle" /\ mode = "part" /\ Whole(part[s])
    BY <2>1, PlainFacts
  <2>3. faults \in Nat /\ faults' \in Nat /\ faults <= faults' /\ Blocks' = Blocks
    BY <2>2, FaultsGrow, Fixed
  <2> QED BY <2>2, <2>3 DEF IInv, TypeOK
<1>1. ASSUME dst'[s] = part[s], pc' # "pump"
      PROVE  Kept(s)'
  <2>1. Stood(s)'
    BY <1>0, <1>1 DEF Stood, Whole, Direct
  <2> QED BY <2>1 DEF Kept
<1>2. ASSUME ~Exists(dst'[s]), part' = part, pc' # "pump", faults' >= 1 \/ (pc' = "rename" /\ slot' = s)
      PROVE  Kept(s)'
  <2>1. Whole(part[s])'
    BY <1>0, <1>2 DEF Whole
  <2> QED BY <1>2, <2>1 DEF Kept, Exists
<1>3. ASSUME dst' = dst, part' = part, pc' # "pump", faults' >= 1
      PROVE  Kept(s)'
  <2>1. Whole(part[s])'
    BY <1>0, <1>3 DEF Whole
  <2>2. Stood(s) \/ ~Exists(dst[s]) \/ Passed(s)
    BY <1>0 DEF Kept, Direct
  <2>3. CASE Stood(s)
    <3>1. Stood(s)'
      BY <1>0, <1>3, <2>3 DEF Stood, Whole, Direct
    <3> QED BY <3>1 DEF Kept
  <2>4. CASE ~Exists(dst[s])
    BY <1>3, <2>1, <2>4 DEF Kept, Exists
  <2>5. CASE Passed(s)
    <3>1. Passed(s)'
      BY <1>0, <2>5, PassedStep
    <3> QED BY <1>3, <2>1, <3>1 DEF Kept
  <2> QED BY <2>2, <2>3, <2>4, <2>5
<1>4. ~Exists(NoFile)
  BY DEF Exists, NoFile
<1>5. CASE DeleteOld
  <2>1. dst'[s] = NoFile /\ part' = part /\ pc' = "rename" /\ slot' = s
    BY <1>0, <1>5 DEF DeleteOld, fileVars
  <2> QED BY <1>2, <1>4, <2>1
<1>6. CASE DeleteOldFails
  <2>1. faults' >= 1 /\ pc' = "rename" /\ part' = part
    BY <1>0, <1>6 DEF DeleteOldFails, Fault
  <2>2. dst' = dst \/ dst'[s] = NoFile
    BY <1>0, <1>6 DEF DeleteOldFails
  <2> QED BY <1>2, <1>3, <1>4, <2>1, <2>2
<1>7. CASE RenameTemp
  BY <1>0, <1>1, <1>7 DEF RenameTemp, PutInPlace
<1>8. CASE RenameFails
  <2>1. pc = "rename" /\ pc' = "failed"
    BY <1>8 DEF RenameFails, FileFails, Fail
  <2>2. CASE Exists(dst[s]) /\ UNCHANGED <<dst, part>>
    <3>1. Stood(s) \/ faults' >= 1
      BY <1>0, <2>2 DEF Kept
    <3>2. CASE Stood(s)
      <4>1. Stood(s)'
        BY <1>0, <2>1, <2>2, <3>2 DEF Stood, Whole, Direct
      <4> QED BY <4>1 DEF Kept
    <3> QED BY <1>3, <2>1, <2>2, <3>1, <3>2
  <2>3. CASE Fault /\ (PutInPlace \/ UNCHANGED <<dst, part>>)
    <3>1. faults' >= 1
      BY <1>0, <2>3 DEF Fault
    <3>2. PutInPlace => dst'[s] = part[s]
      BY <1>0 DEF PutInPlace
    <3> QED BY <1>1, <1>3, <2>1, <2>3, <3>1, <3>2
  <2> QED BY <1>8, <2>2, <2>3 DEF RenameFails
<1> QED BY <1>5, <1>6, <1>7, <1>8, Departures

\* Everything else leaves the name alone, or puts a whole file there.
LEMMA ElsewhereStep ==
  ASSUME Engine, Manner, Foreign, PlainKept, [Next]_vars, NEW s \in Slots, Plain(s), faults' < 3,
         Cancel \/ UNCHANGED vars \/ ~(s = slot /\ pc \in {"open", "pump", "delete", "rename"})
  PROVE  Kept(s)'
<1>0. /\ IInv /\ Knows /\ Walk /\ Kept(s) /\ Blocks \in Nat /\ Blocks' = Blocks
      /\ faults \in Nat /\ faults' \in Nat /\ faults <= faults'
      /\ dst \in [Slots -> Entry] /\ part \in [Slots -> Entry]
      /\ pc # "idle" /\ "mixed" \notin Files
      /\ pc \in InItem => Kids[item] \subseteq Files
  <2>1. IInv /\ Knows /\ Walk /\ Kept(s) /\ Blocks \in Nat /\ pc # "idle" /\ "mixed" \notin Files
    BY PlainFacts
  <2>2. faults \in Nat /\ faults' \in Nat /\ faults <= faults' /\ Blocks' = Blocks
    BY <2>1, FaultsGrow, Fixed
  <2> QED BY <2>1, <2>2, Here, Constants DEF IInv, TypeOK
<1>1. CASE Cancel \/ UNCHANGED vars
  <2>1. UNCHANGED <<dst, part, pc, slot, mode, faults>>
    BY <1>1 DEF Cancel, vars, fsVars, fileVars
  <2>2. (Whole(dst[s])' <=> Whole(dst[s])) /\ (Whole(part[s])' <=> Whole(part[s])) /\ (Direct(s)' <=> Direct(s))
    BY <1>0, <2>1 DEF Whole, Direct
  <2>3. Passed(s) => Passed(s)'
    BY <1>0, PassedStep
  <2> QED BY <1>0, <2>1, <2>2, <2>3 DEF Kept, Stood, Exists
<1>2. CASE ~(s = slot /\ pc \in {"open", "pump", "delete", "rename"})
  <2>1. part'[s] = part[s]
    <3>1. OpenReplace \/ Pump \/ PumpEnds \/ PumpBreaks \/ RenameTemp \/ RenameFails =>
            pc \in {"open", "pump", "rename"}
      BY DEF OpenReplace, Pump, PumpEnds, PumpBreaks, RenameTemp, RenameFails
    <3>2. part' = part \/ \E e : part' = [part EXCEPT ![slot] = e]
      BY Writers DEF OpenReplace, Pump, PumpEnds, PumpBreaks, RenameTemp, RenameFails, PutInPlace
    <3>3. part'[s] # part[s] => s = slot
      BY <1>0, <3>2
    <3> QED BY <1>2, <3>1, <3>3, Writers
  <2>2. ~(pc' = "pump" /\ slot' = s)
    <3>1. pc' = "pump" => slot' = slot /\ pc \in {"open", "pump"}
      BY Arrivals DEF OpenPartial, OpenReplace, Pump, Cancel, vars, fileVars
    <3> QED BY <1>2, <3>1
  <2>3. ~Direct(s)
    BY <1>2 DEF Direct
  <2>4. dst'[s] = dst[s] \/ (Whole(dst'[s]) /\ (s # slot \/ pc # "pump"))
    <3>1. CASE dst'[s] = Other
      BY <1>2, <3>1 DEF Whole, Other
    <3>2. ASSUME NEW f \in Kids[item], pc = "item", dst'[s] = Moved(f)
          PROVE  Whole(dst'[s]) /\ pc # "pump"
      BY <1>0, <3>2 DEF Whole, Moved, InItem
    <3>3. CASE s = slot /\ pc \in Slotted /\ Stamp /\ dst'[s] = [dst[s] EXCEPT !.mt = ver]
      <4>1. pc = "stamp" /\ Whole(dst[s])
        BY <3>3, PlainFacts DEF Stamp
      <4> QED BY <1>0, <3>3, <4>1 DEF Whole, Entry
    <3>4. /\ OpenReplace \/ OpenFails => pc = "open"
          /\ Pump \/ PumpEnds \/ PumpBreaks => pc = "pump"
          /\ DeleteOld \/ DeleteOldFails => pc = "delete"
          /\ RenameTemp \/ RenameFails => pc = "rename"
      BY DEF OpenReplace, OpenFails, Pump, PumpEnds, PumpBreaks, DeleteOld, DeleteOldFails, RenameTemp, RenameFails
    <3>5. Replacing => pc = "failed"
      BY DEF Replacing, Replace
    <3> QED BY <1>0, <1>2, <3>1, <3>2, <3>3, <3>4, <3>5, Effects
  <2>5. CASE Stood(s) \/ Whole(dst'[s])
    <3>1. Stood(s)'
      BY <1>0, <2>2, <2>4, <2>5 DEF Stood, Whole, Direct
    <3> QED BY <3>1 DEF Kept
  <2>6. CASE ~Stood(s) /\ dst'[s] = dst[s]
    <3>1. Whole(part[s])'
      BY <1>0, <2>1, <2>6 DEF Kept, Whole
    <3>2. faults' >= 1
      BY <1>0, <1>2, <2>6 DEF Kept
    <3>3. ~Exists(dst[s]) \/ Passed(s)
      BY <1>0, <2>3, <2>6 DEF Kept
    <3>4. Passed(s) => Passed(s)'
      BY <1>0, PassedStep
    <3> QED BY <2>2, <2>6, <3>1, <3>2, <3>3, <3>4 DEF Kept, Exists
  <2> QED BY <2>4, <2>5, <2>6
<1> QED BY <1>1, <1>2

LEMMA PlainStep ==
  ASSUME Engine, Choice, Manner, Foreign, PlainKept, [Next]_vars
  PROVE  PlainKept'
<1> SUFFICES ASSUME NEW s \in Slots, Plain(s)' PROVE Kept(s)'
  BY DEF PlainKept
<1>0. IInv /\ Knows /\ faults \in Nat /\ faults' \in Nat /\ faults <= faults' /\ faults' < 3
  BY FaultsGrow DEF Engine, Plain
<1>1. CASE Overwrite /\ s = slot /\ known[s].of = "old"
  <2>1. pc = "ask" /\ dst' = dst /\ pc' = "open" /\ Blocks' = Blocks
    BY <1>1, Fixed DEF Overwrite, fsVars
  <2>2. known[s] = dst[s]
    BY <1>0, <1>1, <2>1, Known DEF Knows
  <2>3. Stood(s)'
    BY <1>1, <2>1, <2>2 DEF Foreign, Stood, Whole, Direct
  <2> QED BY <2>3 DEF Kept
<1>2. CASE Approves(s)
  <2>1. Plain(s)
    <3>1. (Resumed(s)' <=> Resumed(s)) /\ backend' = backend /\ setting' = setting
      BY <1>0, Fixtures, Fixed
    <3> QED BY <1>0, <1>2, <3>1 DEF Plain, Given
  <2>2. CASE s = slot /\ pc = "open" /\ ~Cancel /\ ~UNCHANGED vars
    <3>1. ~OpenPartial
      <4>1. ~Resumable
        BY <2>1, <2>2, PlainFacts DEF Slotted, InFile
      <4> QED BY <4>1 DEF OpenPartial
    <3> QED BY <1>0, <2>1, <2>2, <3>1, Departures, OpenStep
  <2>3. CASE s = slot /\ pc = "pump" /\ mode = "direct"
    BY <1>0, <2>1, <2>3, DirectStep DEF Direct
  <2>4. CASE s = slot /\ pc = "pump" /\ mode # "direct" /\ ~Cancel /\ ~UNCHANGED vars
    <3>1. mode = "part" /\ Kept(s) /\ dst \in [Slots -> Entry]
      BY <2>1, <2>4, PlainFacts DEF Slotted, InFile, Engine, IInv, TypeOK
    <3>2. dst' = dst /\ mode' = mode /\ Blocks' = Blocks
      BY <2>4, <3>1, Departures, Fixed DEF Pump, PumpEnds, PumpBreaks, fileVars
    <3>3. Stood(s)'
      BY <2>4, <3>1, <3>2 DEF Kept, Stood, Whole, Direct
    <3> QED BY <3>3 DEF Kept
  <2>5. CASE s = slot /\ pc \in {"delete", "rename"} /\ ~Cancel /\ ~UNCHANGED vars
    BY <1>0, <2>1, <2>5, SwapStep
  <2>6. CASE Cancel \/ UNCHANGED vars \/ ~(s = slot /\ pc \in {"open", "pump", "delete", "rename"})
    BY <1>0, <2>1, <2>6, ElsewhereStep
  <2> QED BY <2>2, <2>3, <2>4, <2>5, <2>6
<1> QED BY <1>0, <1>1, <1>2, NewApproval DEF Plain

\* Once the user has approved overwriting an old file, it or a whole new one is there:
\* with resumable writes through any number of failures, retries and edits, as long as
\* the transfer can be retried and nothing was skipped; with "name.twigpart" through any
\* two failures; when no two files of the batch go to one name (SafeWrite's header and
\* 80-95, copyEntry 288-303).
THEOREM OneOfTwoSurvives == Spec /\ Apart => []OverwriteKeepsOne
<1> DEFINE Keeps == Engine /\ Choice /\ Manner /\ Foreign /\ ResumedKept /\ PlainKept
<1>1. Init /\ Apart => Keeps
  <2> SUFFICES ASSUME Init, Apart PROVE Keeps
    OBVIOUS
  <2>1. Engine
    BY InitInv, InitKnows DEF Engine
  <2>2. pc = "idle" /\ released = {} /\ \A k \in Keys : temp[k] = NoFile
    BY DEF Init
  <2>3. \A s \in Slots : dst[s] \in {NoFile, Old, Folder}
    <3>1. PICK F, N : dst = Standing(F, N)
      BY InitFiles, Zenon
    <3> QED BY <3>1 DEF Standing
  <2>4. Foreign
    BY <2>2, <2>3 DEF Foreign, Approves, Old, NoFile, Folder, Nobody
  <2>5. ResumedKept
    BY <2>2, <2>3 DEF ResumedKept, Approves, Whole, Old
  <2> QED BY <2>1, <2>2, <2>4, <2>5 DEF Choice, Manner, PlainKept, Plain, Approves, Writing
<1>2. Keeps /\ [Next]_vars => Keeps'
  <2>1. Engine /\ [Next]_vars => Engine'
    BY StepInv, KnowsStep, Fixed DEF Engine
  <2>2. Engine /\ Choice /\ Manner /\ Foreign /\ [Next]_vars => Choice' /\ Manner' /\ Foreign'
    BY ChoiceStep, MannerStep, ForeignStep DEF Engine
  <2> QED BY <2>1, <2>2, ResumedStep, PlainStep
<1>3. Keeps => OverwriteKeepsOne
  <2> SUFFICES ASSUME Keeps, NEW s \in Slots, Approves(s),
                      IF Resumed(s) THEN pc # "over" /\ skipped = {}
                                    ELSE backend # "atomic" /\ ~Given("shortReads") /\ ~Given("tempRefused") /\ faults < 3
               PROVE  SomethingWhole(s)
    BY DEF OverwriteKeepsOne, Approves
  <2>1. CASE Resumed(s)
    BY <2>1 DEF ResumedKept, SomethingWhole, Whole
  <2>2. CASE ~Resumed(s)
    BY <2>2 DEF PlainKept, Plain, Kept, Stood, SomethingWhole, Whole
  <2> QED BY <2>1, <2>2
<1> HIDE DEF Keeps
<1> QED BY <1>1, <1>2, <1>3, PTL DEF Spec

=============================================================================
