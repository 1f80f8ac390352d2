--------------------------- MODULE MC_Destinations ----------------------------
(***************************************************************************)
(* Destinations for TLC, one scenario per behaviour: the lock file of a    *)
(* local destination broken at any time, operations on a local destination *)
(* whose mounts change, its files under swapped directories and power      *)
(* losses, operations on an SFTP destination, and publication there: jobs  *)
(* that publish an image under one name, or one that replaces the catalog. *)
(***************************************************************************)
EXTENDS SetLock, Publish, LocalFiles, Destinations

CONSTANTS a, b, h

VARIABLE on

allVars == <<on, vars, destVars, publishVars, filesVars>>

TwoProcs == {a, b}
OneHost == [p \in Proc |-> h]

Guarded == [scheme |-> "local", path |-> <<"l", "s">>, guard |-> TRUE, policyOk |-> TRUE,
            wellFormed |-> TRUE]
Dotted == [Guarded EXCEPT !.path = <<"l", "s", "..">>]
Plain == [Guarded EXCEPT !.path = <<"m">>, !.guard = FALSE]
Nas == [Plain EXCEPT !.scheme = "sftp", !.path = <<"srv">>]
Misspelt == [Nas EXCEPT !.wellFormed = FALSE]

\* Pairs that meet on one name, the first of them publishing.
Pairs == ({"publish_new"} \X {"publish_new", "delete", "read image"})
           \cup ({"replace"} \X {"replace", "read catalog"})

Given(s, p, ok, ins, set) ==
  [scheme |-> s, path |-> p, wellFormed |-> ok, insecure |-> ins, setOk |-> set]

Uris == {Given("@nas", <<>>, TRUE, i, TRUE) : i \in BOOLEAN}
          \cup {Given("sftp", <<"srv">>, w, TRUE, TRUE) : w \in BOOLEAN}
          \cup {Given("local", <<"x">>, TRUE, FALSE, o) : o \in BOOLEAN}

\* One operation that is repeated, one that is sent once, and one that holds
\* what it opens.
Ops == {"list", "rename", "open_ro"}

Line(m, k, x) == [marker |-> m, key |-> k, host |-> TRUE, excluded |-> x]

\* Trust and revocation of one key in one file, a certificate authority, an
\* exclusion, and a marker nobody knows.
Files == {<<>>,
          <<Line("none", "k1", FALSE), Line("revoked", "k1", FALSE)>>,
          <<Line("cert", "k1", FALSE), Line("none", "k2", FALSE)>>,
          <<Line("none", "k1", TRUE)>>,
          <<Line("none", "k1", FALSE), Line("unknown", "k2", FALSE)>>}

Logins == [agent : {"accepted", "refused", "breaks"}, identity : {"accepted", "none"},
           private : BOOLEAN]

\* Destinations the administrator stores: the guarded one for the mounts, the
\* SFTP one for the sessions.
Entries == {Guarded, Dotted, Plain, Nas, Misspelt}
Keys == {"k1", "k2"}

AllInit ==
  /\ on \in {"lock", "local", "files", "sftp", "publish"}
  /\ PublishInit
  /\ on # "publish" => /\ mode = "image" /\ server = [posix |-> TRUE, fsync |-> TRUE]
                       /\ \A j \in Job : step[j] = "idle"
  /\ FilesInit
  /\ IF on = "files" THEN <<task[a], task[b]>> \in Pairs
                    ELSE exclusive /\ \A w \in Worker : task[w] = "replace"
  /\ Init
  /\ DestInit
  /\ registry \in IF on = "sftp" THEN {NoEntry, Plain, Nas, Misspelt} ELSE {NoEntry}

\* The registry is read by `open` alone and the operation's name means nothing to
\* the mount check: the entries are stored before the mounts begin to change, and
\* one operation stands for all.
ForMounts ==
  /\ registry' # registry => at = "idle" /\ Len(mounts) = 1 /\ link = <<"m">>
  /\ registry' # Nas /\ op' \in {"none", "list"} /\ call'.scheme # "sftp" /\ ~ call'.insecure

AllNext ==
  \/ on = "lock" /\ Next /\ UNCHANGED <<on, destVars, publishVars, filesVars>>
  \/ on = "local" /\ NextLocal /\ ForMounts /\ UNCHANGED <<on, vars, publishVars, filesVars>>
  \/ on = "files" /\ FilesNext /\ UNCHANGED <<on, vars, destVars, publishVars>>
  \/ /\ on = "sftp" /\ NextRemote /\ registry' \in {NoEntry, Plain, Nas, Misspelt}
     /\ UNCHANGED <<on, vars, publishVars, filesVars>>
  \/ on = "publish" /\ PublishNext /\ UNCHANGED <<on, vars, destVars, filesVars>>

\* The threads of the publishing jobs keep running; nothing is assumed of the
\* server.
JobsGoOn ==
  \A j \in Job : WF_allVars(on = "publish" /\ Step(j) /\ UNCHANGED <<on, vars, destVars, filesVars>>)

AllSpec == AllInit /\ [][AllNext]_allVars /\ JobsGoOn

\* Every publication ends, even if the server never answers (Publish).
PublicationEnds == \A j \in Job : <>(on = "publish" => Ended(j))
===============================================================================
