---------------------------- MODULE MCCopyEngine ----------------------------
(* Small batches for TLC. *)
EXTENDS CopyEngine

\* A directory "d" with two files, a plain file, and a directory "e" with one file.
SmallKids == [i \in {"d", "e", "f"} |-> CASE i = "d" -> {"a", "b"} [] i = "e" -> {"c"} [] i = "f" -> {"f"}]
SmallNames == [x \in {"a", "b", "c", "f"} |-> IF x = "c" THEN "a" ELSE x]
Mixed == <<"d", "f">>
Single == <<"e">>

\* Two plain files of one name, from two directories.
TwinsKids == [i \in {"f", "g"} |-> {i}]
TwinsNames == [x \in {"f", "g"} |-> "n"]

With(batch, folders, budget, backends, circumstances) ==
  [batch : {batch}, folders : {folders}, faults : {budget}, versions : {budget}, blocks : {budget},
   backend : backends, with : {circumstances}, unsafe : {{}}]
AllBackends == {"resumable", "staged", "atomic"}

\* One fault, version and block.  Times that do not stick and sources that end early, moves by rename
\* and by copy and delete, and a name that is refused.
BatchSettings ==
  With(Mixed, {}, 1, {"resumable"}, {"stampFails", "shortReads"}) \cup
  {[s EXCEPT !.unsafe = {"b"}] : s \in With(Mixed, {}, 1, {"resumable", "atomic"}, {"fastMove"})}

\* Two faults, versions and blocks.  All kinds of destination with everything that may
\* fail, then with nothing but faults, then with strangers who write, whom only
\* modification times give away, and where these do not stick.
RetrySettings ==
  With(Single, {"a"}, 2, AllBackends, {"stampFails", "shortReads", "tempRefused"}) \cup
  With(Single, {"a"}, 2, {"resumable", "staged"}, {"stampFails"}) \cup
  With(Single, {"a"}, 2, AllBackends, {"othersWrite"}) \cup
  With(Single, {"a"}, 2, {"resumable", "staged"}, {"othersWrite", "stampFails"})

\* Three faults, the fewest that cost both copies of an overwritten file.
FaultySettings == {[s EXCEPT !.faults = 3] : s \in With(Single, {}, 2, {"staged"}, {})}

SmallSettings == BatchSettings \cup RetrySettings \cup FaultySettings
TwinsSettings == With(<<"f", "g">>, {}, 1, {"resumable"}, {"fastMove"})

\* Locals that are dead at pc are left out of a state's fingerprint: every step
\* assigns them before it reads them again.
Live(pcs, locals) == IF pc \in pcs THEN locals ELSE <<>>
Written == {"pump", "verify", "delete", "rename", "stamp"}
Slotted == Written \cup {"ask", "open"}
InFile == Slotted \cup {"file"}
InItem == InFile \cup {"item", "kid", "placed"}
View ==
  <<fixedVars, fsVars, checkpointVars, pc, cancelled, historyVars, faults,
    Live(Written, <<mode, copied>>), Live(Slotted, <<slot>>), Live(InFile, <<file, ver>>),
    Live(InItem, <<item, kids, complete>>), Live(InItem \cup {"pick"}, <<todo, known>>)>>
=============================================================================
