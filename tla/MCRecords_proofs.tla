--------------------------- MODULE MCRecords_proofs ---------------------------
(***************************************************************************)
(* What is proved of the programs of MCPrograms that keep files and        *)
(* records or only work out an answer, part by part: the archives          *)
(* (ExtractionIsSafe) and the trash (TrashIsRight) of the Explorer, the    *)
(* screen time (TimeIsCountedOnce), the networks (NetworkIsTold), the      *)
(* cards of the overlay (CardsAreSound), the icons of programs             *)
(* (RightIconIsFound), the bodies of mails (BodiesAreSound) and what the   *)
(* Explorer's helper answers (QueriesAreRight).  MCPrograms_proofs has the *)
(* other programs.  Archives and trash have their inductive invariant at   *)
(* the end of their module; here it is shown to hold at the start and      *)
(* after each action, in the slots that the part has.  Screen time,        *)
(* networks, cards, bodies and answers take theirs from modules of proofs  *)
(* of their own; icons and bodies have no actions, and what is proved of   *)
(* them is that the answer is right.  RecordsInv, at the end, is the parts *)
(* together.                                                               *)
(***************************************************************************)
EXTENDS MCPrograms, Integers, SequenceTheorems, FiniteSetTheorems, WellFoundedInduction, TLAPS

\* A set of numbers has a least one: < is well founded on the naturals.
LEMMA LeastNumber ==
    ASSUME NEW S, S \subseteq Nat, S # {}
    PROVE  \E d \in S : \A e \in S : d <= e
  <1> DEFINE R == OpToRel(<, Nat)
  <1>1. R = {ss \in Nat \X Nat : ss[1] < ss[2]}
    BY DEF OpToRel
  <1>2. IsWellFoundedOn(R, Nat)
    BY NatLessThanWellFounded
  <1> HIDE DEF R
  <1>3. PICK d \in S : \A e \in S : <<e, d>> \notin R
    BY <1>2, WFMin
  <1>4. ASSUME NEW e \in S PROVE d <= e
    <2>1. d \in Nat /\ e \in Nat /\ <<e, d>> \in Nat \X Nat
      OBVIOUS
    <2>2. ~ (e < d)
      BY <1>1, <1>3, <2>1
    <2> QED  BY <2>1, <2>2
  <1> QED  BY <1>3, <1>4

(***************************************************************************)
(* Extracting archives.                                                    *)
(***************************************************************************)
\* The names of destinations and of backups.
LEMMA PathsApart ==
    /\ \A n \in Archive!Names : Archive!Out(n) \in Archive!Paths /\ Archive!Bak(n) \in Archive!Paths
    /\ \A n, m \in Archive!Names : Archive!Out(n) # Archive!Bak(m)
    /\ \A n, m \in Archive!Names : Archive!Out(n) = Archive!Out(m) => n = m
    /\ \A n, m \in Archive!Names : Archive!Bak(n) = Archive!Bak(m) => n = m
    /\ Archive!Nowhere \notin Archive!Paths
    /\ \A p \in Archive!Paths : \E n \in Archive!Names : p = Archive!Out(n) \/ p = Archive!Bak(n)
  BY DEF Archive!Paths, Archive!Out, Archive!Bak, Archive!Nowhere

\* What is at a path is nothing, or a file or directory.
LEMMA NodesAreThere ==
    ASSUME NEW x \in Archive!Nodes
    PROVE  /\ x.kind # "none" => x \in [kind : {"file", "dir"}, user : SUBSET Archive!Users,
                                       got : SUBSET Archive!Entries]
           /\ x.kind = "none" <=> x = Archive!Absent
           /\ x.user \subseteq Archive!Users /\ x.got \subseteq Archive!Entries
  BY DEF Archive!Nodes, Archive!Absent

\* Files the user has not agreed to give up are where they were, if only the destination
\* and a new name have changed.
LEMMA FilesAreSpared ==
    ASSUME v7' \in Archive!Paths,
           \A p \in Archive!Paths \ {v7', v8'} : v1'[p] = v10'[p],
           v8' # Archive!Nowhere =>
             v10'[v7'].user \subseteq v11' /\ v10'[v8'] = Archive!Absent,
           v8' = Archive!Nowhere => v10'[v7'].user \ v11' \subseteq v1'[v7'].user
    PROVE  Archive!UserFilesSurvive'
  <1>1. ASSUME NEW f \in Archive!Users \ v11', NEW p \in Archive!Paths, f \in v10'[p].user
        PROVE  \E q \in Archive!Paths : f \in v1'[q].user
    <2>1. CASE p = v7'
      <3>1. v8' = Archive!Nowhere
        BY <1>1, <2>1
      <3> QED  BY <1>1, <2>1, <3>1
    <2>2. CASE p # v7'
      <3>1. p # v8'
        BY <1>1, PathsApart DEF Archive!Absent
      <3>2. v1'[p] = v10'[p]
        BY <2>2, <3>1
      <3> QED  BY <1>1, <3>2
    <2> QED  BY <2>1, <2>2
  <1> QED  BY <1>1 DEF Archive!UserFilesSurvive

\* While a run is at work its invariant is in what it has changed: no file is lost,
\* and its steps are no failures yet.
LEMMA StillAtWork ==
    ASSUME Archive!ArTypeOK', Archive!Numbered', Archive!AtWork', Archive!Shown',
           v5' \in {"list", "extract", "finish", "undo", "putBack"},
           v5' = "finish" => Archive!DoneIsWhole'
    PROVE  Archive!ArInv' /\ Archive!FailingStep
  <1>1. v7' \in Archive!Paths
    BY PathsApart DEF Archive!ArTypeOK
  <1>2. /\ \A p \in Archive!Paths \ {v7', v8'} : v1'[p] = v10'[p]
        /\ v8' # Archive!Nowhere =>
             v10'[v7'].user \subseteq v11' /\ v10'[v8'] = Archive!Absent
    BY DEF Archive!AtWork
  <1>3. v8' = Archive!Nowhere => v10'[v7'].user \ v11' \subseteq v1'[v7'].user
    <2>1. v9' => "both" \in v11' /\ v10'[v7'].user \ {"both"} \subseteq v1'[v7'].user
      BY DEF Archive!AtWork
    <2>2. v8' = Archive!Nowhere => v9' \/ v10'[v7'] = Archive!Absent
      BY DEF Archive!AtWork
    <2> QED  BY <2>1, <2>2 DEF Archive!Absent
  <1>4. Archive!UserFilesSurvive'
    BY <1>1, <1>2, <1>3, FilesAreSpared
  <1>5. v5' # "finish" => Archive!DoneIsWhole'
    BY DEF Archive!Shown, Archive!DoneIsWhole
  <1>6. Archive!Begun' /\ Archive!FailingStep
    BY DEF Archive!Begun, Archive!FailingStep
  <1> QED  BY <1>4, <1>5, <1>6 DEF Archive!ArInv

\* A step that makes nothing but its destination takes no new name.
LEMMA NoNewNames ==
    ASSUME Archive!ArTypeOK, Archive!Numbered, v12' = v12, v7' = v7,
           v5' \notin {"probe", "prepare"},
           \A p \in Archive!Paths : v1'[p].kind # "none" => p = v7 \/ v1[p].kind # "none"
    PROVE  Archive!Numbered'
  <1>1. v12 \in Nat /\ Archive!Names \subseteq Nat
    BY ExtractionsAreCounted DEF Archive!ArTypeOK, Archive!Names
  <1>2. ASSUME NEW n \in Archive!Names,
               v7 = Archive!Out(n) \/ v1[Archive!Out(n)].kind # "none"
                 \/ v1[Archive!Bak(n)].kind # "none"
        PROVE  n <= v12 + 1
    BY <1>1, <1>2 DEF Archive!Numbered, Archive!There
  <1>3. ASSUME NEW n \in Archive!Names,
               v7 = Archive!Out(n) \/ v1'[Archive!Out(n)].kind # "none"
                 \/ v1'[Archive!Bak(n)].kind # "none"
        PROVE  v7 = Archive!Out(n) \/ v1[Archive!Out(n)].kind # "none"
                 \/ v1[Archive!Bak(n)].kind # "none"
    BY <1>3, PathsApart DEF Archive!ArTypeOK
  <1> QED  BY <1>2, <1>3 DEF Archive!Numbered, Archive!There

\* A new name is one that is free, and no further than one past the runs.
LEMMA UniqueIsFree ==
    ASSUME Archive!ArTypeOK, Archive!Numbered, v5 = "prepare", NEW place \in {"out", "bak"}
    PROVE  \E n \in Archive!Names :
             /\ Archive!Unique(place) = <<place, n>>
             /\ v1[<<place, n>>].kind = "none" /\ n <= v12 + 1
  <1>1. v12 \in 0..MaxExtractions /\ MaxExtractions \in Nat
        /\ Archive!Names = 1..MaxExtractions + 1
    BY ExtractionsAreCounted DEF Archive!ArTypeOK, Archive!Names
  <1>2. \A n \in Archive!Names : v1[<<place, n>>].kind # "none" => n <= v12
    BY DEF Archive!Numbered, Archive!There, Archive!Out, Archive!Bak
  <1> DEFINE Free == {n \in Archive!Names : v1[<<place, n>>].kind = "none"}
  <1>3. v12 + 1 \in Archive!Names /\ ~ (v12 + 1 <= v12)
    BY <1>1
  <1>4. v12 + 1 \in Free /\ Free \subseteq Nat
    BY <1>1, <1>2, <1>3
  <1>5. PICK d \in Free : \A e \in Free : d <= e
    BY <1>4, LeastNumber
  <1>6. \A n \in Archive!Names : n < d => v1[<<place, n>>].kind # "none"
    BY <1>1, <1>5
  <1> DEFINE Good(p) == ~ Archive!There(p)
                        /\ \A n \in Archive!Names : n < p[2] => Archive!There(<<place, n>>)
             All == {<<place, n>> : n \in Archive!Names}
  <1>7. <<place, d>> \in All /\ Good(<<place, d>>)
    BY <1>5, <1>6 DEF Archive!There
  <1>8. Archive!Unique(place) = CHOOSE p \in All : Good(p)
    BY DEF Archive!Unique
  <1> HIDE DEF Good
  <1>9. Archive!Unique(place) \in All /\ Good(Archive!Unique(place))
    BY <1>7, <1>8
  <1>10. PICK m \in Archive!Names : Archive!Unique(place) = <<place, m>>
    BY <1>9
  <1>11. Good(<<place, m>>)
    BY <1>9, <1>10
  <1>12. m \in Free /\ \A n \in Archive!Names : n < m => n \notin Free
    BY <1>11 DEF Good, Archive!There
  <1>13. m <= v12 + 1
    BY <1>1, <1>3, <1>4, <1>12
  <1> QED  BY <1>10, <1>12, <1>13

\* A run begins with the disk as it is, whatever the one it kills had come to.
LEMMA ExtractionStarts ==
    ASSUME Archive!ArInv, NEW pol \in {"ask", "keep-both", "merge", "overwrite"},
           Archive!StartRun(pol), v11' \subseteq Archive!Users,
           pol = "merge" => v1[Archive!Out(1)].kind = "dir" /\ "both" \in v11',
           pol = "overwrite" => v1[Archive!Out(1)].user \subseteq v11'
    PROVE  Archive!ArInv' /\ Archive!FailingStep
  <1>1. /\ v12 \in 0..MaxExtractions /\ v12 < MaxExtractions /\ v12' = v12 + 1
        /\ v5' = "probe" /\ v6' = pol /\ v3' = "running"
        /\ v7' = Archive!Out(1) /\ v8' = Archive!Nowhere /\ v9' = FALSE /\ v10' = v1 /\ v1' = v1
    BY DEF Archive!StartRun, Archive!ArInv, Archive!ArTypeOK
  <1>2. 1 \in Archive!Names /\ v12' \in 0..MaxExtractions
        /\ v12 \in Nat /\ Archive!Names \subseteq Nat
    BY <1>1, ExtractionsAreCounted DEF Archive!Names
  <1>3. Archive!ArTypeOK'
    BY <1>1, <1>2 DEF Archive!ArInv, Archive!ArTypeOK
  <1>4. Archive!Numbered'
    <2>1. ASSUME NEW n \in Archive!Names,
                 v1[Archive!Out(n)].kind # "none" \/ v1[Archive!Bak(n)].kind # "none"
          PROVE  n <= v12'
      BY <1>1, <1>2, <2>1 DEF Archive!ArInv, Archive!Numbered, Archive!There
    <2>2. ASSUME NEW n \in Archive!Names, Archive!Out(1) = Archive!Out(n)
          PROVE  n <= v12'
      BY <1>1, <1>2, <2>2 DEF Archive!Out
    <2> QED  BY <1>1, <2>1, <2>2 DEF Archive!Numbered, Archive!There
  <1>5. Archive!Begun'
    BY <1>1 DEF Archive!Begun
  <1>6. Archive!AtWork' /\ Archive!Shown' /\ Archive!DoneIsWhole' /\ Archive!FailingStep
    BY <1>1 DEF Archive!AtWork, Archive!Shown, Archive!DoneIsWhole, Archive!FailingStep
  <1>7. Archive!UserFilesSurvive'
    BY <1>1 DEF Archive!UserFilesSurvive
  <1> QED  BY <1>3, <1>4, <1>5, <1>6, <1>7 DEF Archive!ArInv

\* The user opens an archive or answers.
LEMMA ExtractionAnswered ==
    ASSUME Archive!ArInv,
           \/ Archive!Open \/ Archive!SubmitPassword
           \/ \E pol \in {"keep-both", "merge", "overwrite"} : Archive!SubmitConflict(pol)
    PROVE  Archive!ArInv' /\ Archive!FailingStep
  <1>1. v11 \subseteq Archive!Users /\ v1[Archive!Out(1)].user \subseteq Archive!Users
    <2>1. 1 \in Archive!Names
      BY ExtractionsAreCounted DEF Archive!Names
    <2>2. v1[Archive!Out(1)] \in Archive!Nodes
      BY <2>1, PathsApart DEF Archive!ArInv, Archive!ArTypeOK
    <2> QED  BY <2>2, NodesAreThere DEF Archive!ArInv, Archive!ArTypeOK
  <1>2. CASE Archive!Open \/ Archive!SubmitPassword
    BY <1>1, <1>2, ExtractionStarts DEF Archive!Open, Archive!SubmitPassword
  <1>3. ASSUME NEW pol \in {"keep-both", "merge", "overwrite"}, Archive!SubmitConflict(pol)
        PROVE  Archive!ArInv' /\ Archive!FailingStep
    <2>1. /\ Archive!StartRun(pol)
          /\ pol = "merge" => v1[Archive!Out(1)].kind = "dir"
          /\ v11' = v11 \cup CASE pol = "overwrite" -> v1[Archive!Out(1)].user
                                [] pol = "merge" -> {"both"}
                                [] OTHER -> {}
      BY <1>3 DEF Archive!SubmitConflict
    <2>2. v11' \subseteq Archive!Users
      BY <1>1, <2>1 DEF Archive!Users
    <2>3. pol = "merge" => "both" \in v11'
      BY <2>1
    <2>4. pol = "overwrite" => v1[Archive!Out(1)].user \subseteq v11'
      BY <2>1
    <2> QED  BY <2>1, <2>2, <2>3, <2>4, ExtractionStarts
  <1> QED  BY <1>2, <1>3

\* A dialog is closed: nothing runs then.
LEMMA ExtractionCancelled ==
    ASSUME Archive!ArInv, Archive!Cancel PROVE Archive!ArInv' /\ Archive!FailingStep
  <1>1. v3 \in {"password", "conflict"} /\ v3' = "none" /\ v5 = "idle"
        /\ <<v1, v5, v6, v7, v8, v9, v10, v11, v12>>' = <<v1, v5, v6, v7, v8, v9, v10, v11, v12>>
    BY DEF Archive!Cancel, Archive!run, Archive!ArInv, Archive!Shown
  <1>2. Archive!ArTypeOK'
    BY <1>1 DEF Archive!ArInv, Archive!ArTypeOK
  <1>3. Archive!Numbered' /\ Archive!UserFilesSurvive'
    BY <1>1 DEF Archive!ArInv, Archive!Numbered, Archive!There, Archive!UserFilesSurvive
  <1>4. Archive!Begun' /\ Archive!AtWork' /\ Archive!Shown' /\ Archive!DoneIsWhole'
        /\ Archive!FailingStep
    BY <1>1 DEF Archive!Begun, Archive!AtWork, Archive!Shown, Archive!DoneIsWhole,
         Archive!FailingStep
  <1> QED  BY <1>2, <1>3, <1>4 DEF Archive!ArInv

\* A run that asks before it has done anything leaves nothing, ...
LEMMA ExtractionAsks ==
    ASSUME Archive!ArInv, v5 \in {"probe", "prepare"}, v5' = "idle",
           v3' \in {"password", "conflict"},
           <<v1, v6, v7, v8, v9, v10, v11, v12>>' = <<v1, v6, v7, v8, v9, v10, v11, v12>>
    PROVE  Archive!ArInv' /\ Archive!FailingStep
  <1>1. v1 = v10
    BY DEF Archive!ArInv, Archive!Begun
  <1>2. Archive!ArTypeOK'
    BY DEF Archive!ArInv, Archive!ArTypeOK
  <1>3. Archive!Numbered'
    BY NoNewNames DEF Archive!ArInv
  <1>4. Archive!UserFilesSurvive' /\ Archive!FailingStep
    BY <1>1 DEF Archive!UserFilesSurvive, Archive!FailingStep
  <1>5. Archive!Begun' /\ Archive!AtWork' /\ Archive!Shown' /\ Archive!DoneIsWhole'
    BY DEF Archive!Begun, Archive!AtWork, Archive!Shown, Archive!DoneIsWhole
  <1> QED  BY <1>2, <1>3, <1>4, <1>5 DEF Archive!ArInv

\* ... as the one that finds the archive encrypted (_archive_requires_password).
LEMMA ExtractionProbes ==
    ASSUME Archive!ArInv, Archive!Probe PROVE Archive!ArInv' /\ Archive!FailingStep
  <1>1. /\ v5 = "probe" /\ v5' \in {"idle", "prepare"}
        /\ v5' = "idle" => v3' = "password"
        /\ v5' = "prepare" => v3' = v3
        /\ <<v1, v6, v7, v8, v9, v10, v11, v12>>' = <<v1, v6, v7, v8, v9, v10, v11, v12>>
    BY DEF Archive!Probe, Archive!Goto, Archive!Tell
  <1>2. CASE v5' = "idle"
    BY <1>1, <1>2, ExtractionAsks
  <1>3. CASE v5' = "prepare"
    <2>1. Archive!ArTypeOK' /\ Archive!Shown' /\ Archive!DoneIsWhole' /\ Archive!FailingStep
      BY <1>1, <1>3 DEF Archive!ArInv, Archive!ArTypeOK, Archive!Shown, Archive!DoneIsWhole,
           Archive!FailingStep
    <2>2. Archive!Numbered' /\ Archive!UserFilesSurvive'
      BY <1>1, <1>3 DEF Archive!ArInv, Archive!Numbered, Archive!There,
           Archive!UserFilesSurvive
    <2>3. Archive!Begun' /\ Archive!AtWork'
      BY <1>1, <1>3 DEF Archive!ArInv, Archive!Begun, Archive!AtWork
    <2> QED  BY <2>1, <2>2, <2>3 DEF Archive!ArInv
  <1> QED  BY <1>1, <1>2, <1>3

\* The destination and the name of a backup are settled (extract_archive up to the listing).
LEMMA ExtractionPrepares ==
    ASSUME Archive!ArInv, Archive!Prepare PROVE Archive!ArInv' /\ Archive!FailingStep
  <1>1. /\ v5 = "prepare" /\ v1 = v10 /\ v7 = Archive!Out(1) /\ v8 = Archive!Nowhere /\ ~v9
        /\ v6 = "merge" => v1[v7].kind = "dir" /\ "both" \in v11
        /\ v6 = "overwrite" => v1[v7].user \subseteq v11
        /\ v3 = "running"
    BY DEF Archive!Prepare, Archive!ArInv, Archive!Begun, Archive!Shown
  <1>2. /\ v7 \in Archive!Paths /\ v1[v7] \in Archive!Nodes
        /\ v12 \in Nat /\ Archive!Names \subseteq Nat
        /\ \A n \in Archive!Names : v1[Archive!Out(n)].kind # "none"
                                     \/ v1[Archive!Bak(n)].kind # "none" => n <= v12
    BY <1>1, PathsApart, ExtractionsAreCounted
    DEF Archive!ArInv, Archive!ArTypeOK, Archive!Numbered, Archive!There, Archive!Names
  <1>3. <<v10, v11, v12, v6>>' = <<v10, v11, v12, v6>>
    BY DEF Archive!Prepare, Archive!Goto
  <1>4. CASE /\ ~ Archive!There(Archive!Out(1)) /\ v5' = "list"
             /\ <<v1, v7, v8, v9, v3>>' = <<v1, v7, v8, v9, v3>>
    <2>1. v1[v7] = Archive!Absent
      BY <1>1, <1>2, <1>4, NodesAreThere DEF Archive!There
    <2>2. Archive!ArTypeOK' /\ Archive!Shown'
      BY <1>1, <1>3, <1>4 DEF Archive!ArInv, Archive!ArTypeOK, Archive!Shown
    <2>3. Archive!Numbered'
      BY <1>3, <1>4, NoNewNames DEF Archive!ArInv
    <2>4. Archive!AtWork'
      BY <1>1, <1>3, <1>4, <2>1 DEF Archive!AtWork
    <2> QED  BY <1>4, <2>2, <2>3, <2>4, StillAtWork
  <1>5. CASE /\ v5' = "idle" /\ v3' = "conflict" /\ <<v1, v7, v8, v9>>' = <<v1, v7, v8, v9>>
    BY <1>1, <1>3, <1>5, ExtractionAsks
  <1>6. CASE /\ v7' = Archive!Unique("out") /\ v5' = "list"
             /\ <<v1, v8, v9, v3>>' = <<v1, v8, v9, v3>>
    <2>1. PICK n \in Archive!Names :
            v7' = Archive!Out(n) /\ v1[v7'].kind = "none" /\ n <= v12 + 1
      BY <1>1, <1>6, UniqueIsFree DEF Archive!ArInv, Archive!Out
    <2>2. v7' \in Archive!Paths
      BY <2>1, PathsApart
    <2>3. v1[v7'] = Archive!Absent
      BY <2>1, <2>2, NodesAreThere DEF Archive!ArInv, Archive!ArTypeOK
    <2>4. Archive!ArTypeOK' /\ Archive!Shown'
      BY <1>1, <1>3, <1>6, <2>1 DEF Archive!ArInv, Archive!ArTypeOK, Archive!Shown
    <2>5. Archive!Numbered'
      <3>1. ASSUME NEW m \in Archive!Names, v7' = Archive!Out(m) PROVE m <= v12 + 1
        BY <2>1, <3>1, PathsApart
      <3>2. ASSUME NEW m \in Archive!Names,
                   v1[Archive!Out(m)].kind # "none" \/ v1[Archive!Bak(m)].kind # "none"
            PROVE  m <= v12 + 1
        <4>1. m <= v12 /\ m \in Nat
          BY <1>2, <3>2
        <4> QED  BY <1>2, <4>1
      <3> QED  BY <1>3, <1>6, <3>1, <3>2 DEF Archive!Numbered, Archive!There
    <2>6. Archive!AtWork'
      BY <1>1, <1>3, <1>6, <2>3 DEF Archive!AtWork
    <2> QED  BY <1>6, <2>4, <2>5, <2>6, StillAtWork
  <1>7. CASE /\ v6 = "merge" /\ v9' = (v1[Archive!Out(1)].kind = "dir")
             /\ v5' = (IF v1[Archive!Out(1)].kind = "dir" THEN "list" ELSE "undo")
             /\ <<v1, v7, v8, v3>>' = <<v1, v7, v8, v3>>
    <2>1. v9' = TRUE /\ v5' = "list" /\ v1[v7].kind = "dir" /\ "both" \in v11
      BY <1>1, <1>7
    <2>2. Archive!ArTypeOK' /\ Archive!Shown'
      BY <1>1, <1>3, <1>7, <2>1 DEF Archive!ArInv, Archive!ArTypeOK, Archive!Shown
    <2>3. Archive!Numbered'
      BY <1>3, <1>7, <2>1, NoNewNames DEF Archive!ArInv
    <2>4. Archive!AtWork'
      BY <1>1, <1>3, <1>7, <2>1 DEF Archive!AtWork
    <2> QED  BY <2>1, <2>2, <2>3, <2>4, StillAtWork
  <1>8. CASE /\ v6 = "overwrite" /\ v8' = Archive!Unique("bak") /\ v5' = "list"
             /\ v1' = [v1 EXCEPT ![v8'] = v1[Archive!Out(1)], ![Archive!Out(1)] = Archive!Absent]
             /\ <<v7, v9, v3>>' = <<v7, v9, v3>>
    <2>1. PICK n \in Archive!Names :
            v8' = Archive!Bak(n) /\ v1[v8'].kind = "none" /\ n <= v12 + 1
      BY <1>1, <1>8, UniqueIsFree DEF Archive!ArInv, Archive!Bak
    <2>2. /\ v8' \in Archive!Paths /\ v8' # v7 /\ 1 \in Archive!Names /\ v8' # Archive!Nowhere
      BY <1>1, <2>1, PathsApart, ExtractionsAreCounted DEF Archive!Names
    <2>3. v1[v8'] = Archive!Absent
      BY <2>1, <2>2, NodesAreThere DEF Archive!ArInv, Archive!ArTypeOK
    <2>4. /\ v1 \in [Archive!Paths -> Archive!Nodes]
          /\ v1' = [v1 EXCEPT ![v8'] = v1[v7], ![v7] = Archive!Absent]
      BY <1>1, <1>8 DEF Archive!ArInv, Archive!ArTypeOK
    <2>5. /\ v1' \in [Archive!Paths -> Archive!Nodes]
          /\ v1'[v7] = Archive!Absent /\ v1'[v8'] = v1[v7]
          /\ \A p \in Archive!Paths \ {v7, v8'} : v1'[p] = v1[p]
      BY <1>2, <2>2, <2>4 DEF Archive!Nodes
    <2>6. Archive!ArTypeOK' /\ Archive!Shown'
      BY <1>1, <1>3, <1>8, <2>1, <2>5 DEF Archive!ArInv, Archive!ArTypeOK, Archive!Shown
    <2>7. Archive!Numbered'
      <3>1. ASSUME NEW m \in Archive!Names, v7 = Archive!Out(m) PROVE m <= v12 + 1
        <4>1. m <= v12
          BY <1>1, <3>1 DEF Archive!ArInv, Archive!Numbered
        <4> QED  BY <1>2, <4>1
      <3>2. ASSUME NEW m \in Archive!Names,
                   v1'[Archive!Out(m)].kind # "none" \/ v1'[Archive!Bak(m)].kind # "none"
            PROVE  m <= v12 + 1
        <4>1. CASE Archive!Bak(m) = v8'
          BY <2>1, <4>1, PathsApart
        <4>2. CASE Archive!Bak(m) # v8'
          <5>1. Archive!Out(m) # v8' /\ Archive!Bak(m) # v7
            BY <1>1, <2>1, <2>2, PathsApart
          <5>2. v1'[Archive!Bak(m)] = v1[Archive!Bak(m)]
            BY <2>5, <4>2, <5>1, PathsApart
          <5>3. v1'[Archive!Out(m)].kind # "none" => v1[Archive!Out(m)].kind # "none"
            BY <2>5, <5>1, PathsApart DEF Archive!Absent
          <5>4. m <= v12 /\ m \in Nat
            BY <1>2, <3>2, <5>2, <5>3
          <5> QED  BY <1>2, <5>4
        <4> QED  BY <4>1, <4>2
      <3> QED  BY <1>3, <1>8, <3>1, <3>2 DEF Archive!Numbered, Archive!There
    <2>8. Archive!AtWork'
      BY <1>1, <1>3, <1>8, <2>2, <2>3, <2>5 DEF Archive!AtWork
    <2> QED  BY <1>8, <2>6, <2>7, <2>8, StillAtWork
  <1>9. \/ /\ ~ Archive!There(Archive!Out(1)) /\ v5' = "list"
           /\ <<v1, v7, v8, v9, v3>>' = <<v1, v7, v8, v9, v3>>
        \/ v5' = "idle" /\ v3' = "conflict" /\ <<v1, v7, v8, v9>>' = <<v1, v7, v8, v9>>
        \/ /\ v7' = Archive!Unique("out") /\ v5' = "list"
           /\ <<v1, v8, v9, v3>>' = <<v1, v8, v9, v3>>
        \/ /\ v6 = "merge" /\ v9' = (v1[Archive!Out(1)].kind = "dir")
           /\ v5' = (IF v1[Archive!Out(1)].kind = "dir" THEN "list" ELSE "undo")
           /\ <<v1, v7, v8, v3>>' = <<v1, v7, v8, v3>>
        \/ /\ v6 = "overwrite" /\ v8' = Archive!Unique("bak") /\ v5' = "list"
           /\ v1' = [v1 EXCEPT ![v8'] = v1[Archive!Out(1)],
                               ![Archive!Out(1)] = Archive!Absent]
           /\ <<v7, v9, v3>>' = <<v7, v9, v3>>
    BY DEF Archive!Prepare, Archive!Goto, Archive!Tell
  <1> QED  BY <1>4, <1>5, <1>6, <1>7, <1>8, <1>9

\* A step of a run at work that changes no more than its destination keeps the invariant, if
\* the destination is a directory whenever it has begun to write, and loses no file of a
\* directory it merges into but the one that was agreed on.
LEMMA OnlyTheDestination ==
    ASSUME Archive!ArInv, v5 \in {"list", "extract", "finish", "undo", "putBack"},
           v5' \in {"list", "extract", "finish", "undo", "putBack"},
           <<v6, v7, v8, v9, v10, v11, v12>>' = <<v6, v7, v8, v9, v10, v11, v12>>,
           v1' \in [Archive!Paths -> Archive!Nodes],
           \A p \in Archive!Paths : p # v7 => v1'[p] = v1[p],
           v9 => v1'[v7].kind = "dir" /\ v1[v7].user \ {"both"} \subseteq v1'[v7].user,
           v5' \in {"list", "putBack"} /\ ~v9 => v1'[v7] = Archive!Absent,
           v5' \in {"extract", "finish"} => v1'[v7].kind = "dir",
           v3' = IF v5' = "finish" THEN "done" ELSE "running",
           v5' = "finish" => v1'[v7].got = Archive!Entries
    PROVE  Archive!ArInv' /\ Archive!FailingStep
  <1>1. Archive!ArTypeOK' /\ Archive!Shown'
    BY DEF Archive!ArInv, Archive!ArTypeOK, Archive!Shown
  <1>2. Archive!Numbered'
    <2>1. \A p \in Archive!Paths : v1'[p].kind # "none" => p = v7 \/ v1[p].kind # "none"
      OBVIOUS
    <2> QED  BY <2>1, NoNewNames DEF Archive!ArInv
  <1>3. v7 \in Archive!Paths /\ (v8 # Archive!Nowhere => v8 \in Archive!Paths /\ v8 # v7)
    BY PathsApart DEF Archive!ArInv, Archive!ArTypeOK
  <1>4. Archive!AtWork'
    <2>1. /\ \A p \in Archive!Paths \ {v7, v8} : v1[p] = v10[p]
          /\ v8 # Archive!Nowhere \/ v9 \/ v10[v7] = Archive!Absent
          /\ v9 => /\ v8 = Archive!Nowhere /\ "both" \in v11
                   /\ v10[v7].user \ {"both"} \subseteq v1[v7].user
          /\ v8 # Archive!Nowhere => /\ v10[v7].user \subseteq v11
                                     /\ v1[v8] = v10[v7] /\ v10[v8] = Archive!Absent
      BY DEF Archive!ArInv, Archive!AtWork
    <2>2. /\ \A p \in Archive!Paths \ {v7, v8} : v1'[p] = v10[p]
          /\ v8 # Archive!Nowhere => v1'[v8] = v10[v7]
      BY <1>3, <2>1
    <2>3. v9 => v10[v7].user \ {"both"} \subseteq v1'[v7].user
      BY <2>1
    <2> QED  BY <2>1, <2>2, <2>3 DEF Archive!AtWork
  <1>5. v5' = "finish" => Archive!DoneIsWhole'
    BY DEF Archive!DoneIsWhole, Archive!There
  <1> QED  BY <1>1, <1>2, <1>4, <1>5, StillAtWork

\* The facts of a run at work.
LEMMA WorkFacts ==
    ASSUME Archive!ArInv, v5 \in {"list", "extract", "finish", "undo", "putBack"}
    PROVE  /\ v7 \in Archive!Paths /\ v1 \in [Archive!Paths -> Archive!Nodes]
           /\ v1[v7] \in Archive!Nodes
           /\ v8 # Archive!Nowhere => v8 \in Archive!Paths /\ v8 # v7
           /\ v9 \in BOOLEAN
           /\ v9 => v8 = Archive!Nowhere /\ v1[v7].kind = "dir"
           /\ v5 \in {"list", "putBack"} /\ ~v9 => v1[v7] = Archive!Absent
           /\ v5 \in {"extract", "finish"} => v1[v7].kind = "dir"
           /\ v3 = IF v5 = "finish" THEN "done" ELSE "running"
  <1>1. v7 \in Archive!Paths /\ v1 \in [Archive!Paths -> Archive!Nodes] /\ v9 \in BOOLEAN
        /\ (v8 # Archive!Nowhere => v8 \in Archive!Paths /\ v8 # v7)
    BY PathsApart DEF Archive!ArInv, Archive!ArTypeOK
  <1>2. v3 = IF v5 = "finish" THEN "done" ELSE "running"
    BY DEF Archive!ArInv, Archive!Shown
  <1> QED  BY <1>1, <1>2 DEF Archive!ArInv, Archive!AtWork

\* The entries are listed, and the destination is made.
LEMMA ExtractionLists ==
    ASSUME Archive!ArInv, Archive!List PROVE Archive!ArInv' /\ Archive!FailingStep
  <1>1. /\ v5 = "list" /\ v5' \in {"undo", "extract"} /\ v3' = v3
        /\ <<v6, v7, v8, v9, v10, v11, v12>>' = <<v6, v7, v8, v9, v10, v11, v12>>
        /\ v5' = "undo" => v1' = v1
        /\ v5' = "extract" =>
             v1' = [v1 EXCEPT ![v7] = IF Archive!There(v7) THEN v1[v7] ELSE Archive!EmptyDir]
    BY DEF Archive!List, Archive!Goto, Archive!Put
  <1>2. CASE v5' = "undo"
    BY <1>1, <1>2, WorkFacts, OnlyTheDestination
  <1>3. CASE v5' = "extract"
    <2>1. Archive!EmptyDir \in Archive!Nodes /\ Archive!EmptyDir.kind = "dir"
      BY DEF Archive!EmptyDir, Archive!Nodes
    <2>2. v9 => v1'[v7] = v1[v7]
      BY <1>1, <1>3, WorkFacts DEF Archive!There
    <2>3. ~v9 => v1'[v7] = Archive!EmptyDir
      BY <1>1, <1>3, WorkFacts DEF Archive!There, Archive!Absent
    <2>4. v1' \in [Archive!Paths -> Archive!Nodes]
          /\ \A p \in Archive!Paths : p # v7 => v1'[p] = v1[p]
      BY <1>1, <1>3, <2>1, WorkFacts
    <2>5. v1'[v7].kind = "dir" /\ (v9 => v1[v7].user \ {"both"} \subseteq v1'[v7].user)
      BY <1>1, <2>1, <2>2, <2>3, WorkFacts
    <2> QED  BY <1>1, <1>3, <2>4, <2>5, WorkFacts, OnlyTheDestination
  <1> QED  BY <1>1, <1>2, <1>3

\* An entry is written: over the file of that name, if there is one.
LEMMA ExtractionWrites ==
    ASSUME Archive!ArInv, Archive!Extract PROVE Archive!ArInv' /\ Archive!FailingStep
  <1>1. PICK e \in Archive!Entries :
          v1' = [v1 EXCEPT ![v7].got = @ \cup {e}, ![v7].user = @ \ {e}]
    BY DEF Archive!Extract, Archive!Missing
  <1>2. /\ v5 = "extract" /\ v5' = "extract" /\ v3' = v3
        /\ <<v6, v7, v8, v9, v10, v11, v12>>' = <<v6, v7, v8, v9, v10, v11, v12>>
    BY DEF Archive!Extract, Archive!run
  <1>3. /\ v7 \in Archive!Paths /\ v1 \in [Archive!Paths -> Archive!Nodes]
        /\ v1[v7].kind = "dir" /\ v3 = "running"
    BY <1>2, WorkFacts
  <1>4. v1[v7] \in [kind : {"file", "dir"}, user : SUBSET Archive!Users,
                    got : SUBSET Archive!Entries]
    BY <1>3, NodesAreThere
  <1> DEFINE x == [[v1[v7] EXCEPT !.got = @ \cup {e}] EXCEPT !.user = @ \ {e}]
  <1>5. x \in [kind : {"file", "dir"}, user : SUBSET Archive!Users, got : SUBSET Archive!Entries]
        /\ x.kind = "dir" /\ x.user = v1[v7].user \ {e}
    BY <1>3, <1>4
  <1>6. x \in Archive!Nodes
    BY <1>5 DEF Archive!Nodes
  <1>7. v1' = [v1 EXCEPT ![v7] = x]
    BY <1>1, <1>3
  <1> HIDE DEF x
  <1>8. v1' \in [Archive!Paths -> Archive!Nodes] /\ v1'[v7] = x
        /\ \A p \in Archive!Paths : p # v7 => v1'[p] = v1[p]
    BY <1>3, <1>6, <1>7
  <1>9. v1[v7].user \ {"both"} \subseteq v1'[v7].user
    BY <1>4, <1>5, <1>8 DEF Archive!Users, Archive!Entries
  <1> QED  BY <1>2, <1>3, <1>5, <1>8, <1>9, OnlyTheDestination

\* The extractor fails, or has written everything.
LEMMA ExtractionEnds ==
    ASSUME Archive!ArInv, Archive!ExtractFails \/ Archive!Extracted
    PROVE  Archive!ArInv' /\ Archive!FailingStep
  <1>1. /\ v5 = "extract" /\ v1' = v1 /\ v5' \in {"undo", "finish"}
        /\ <<v6, v7, v8, v9, v10, v11, v12>>' = <<v6, v7, v8, v9, v10, v11, v12>>
        /\ v5' = "undo" => v3' = v3
        /\ v5' = "finish" => v3' = "done" /\ Archive!Missing = {}
    BY DEF Archive!ExtractFails, Archive!Extracted, Archive!Goto, Archive!Tell
  <1>2. v5' = "finish" => v1[v7].got = Archive!Entries
    BY <1>1, WorkFacts, NodesAreThere DEF Archive!Missing
  <1> QED  BY <1>1, <1>2, WorkFacts, OnlyTheDestination

\* What was replaced is removed, which the user has agreed to.
LEMMA ExtractionFinishes ==
    ASSUME Archive!ArInv, Archive!Finish PROVE Archive!ArInv' /\ Archive!FailingStep
  <1>1. /\ v5 = "finish" /\ v5' = "idle" /\ v3' = v3
        /\ <<v6, v7, v8, v9, v10, v11, v12>>' = <<v6, v7, v8, v9, v10, v11, v12>>
        /\ v8 = Archive!Nowhere => v1' = v1
        /\ v8 # Archive!Nowhere => v1' = [v1 EXCEPT ![v8] = Archive!Absent]
    BY DEF Archive!Finish, Archive!Goto, Archive!Put
  <1>2. /\ v7 \in Archive!Paths /\ v1 \in [Archive!Paths -> Archive!Nodes]
        /\ (v8 # Archive!Nowhere => v8 \in Archive!Paths /\ v8 # v7)
        /\ v1[v7].kind = "dir" /\ v3 = "done"
    BY <1>1, WorkFacts
  <1>3. /\ v1' \in [Archive!Paths -> Archive!Nodes] /\ v1'[v7] = v1[v7]
        /\ \A p \in Archive!Paths : p # v8 => v1'[p] = v1[p]
        /\ \A p \in Archive!Paths : v1'[p].kind # "none" => v1[p].kind # "none"
    <2>1. Archive!Absent \in Archive!Nodes /\ Archive!Absent.kind = "none"
      BY DEF Archive!Absent, Archive!Nodes
    <2> QED  BY <1>1, <1>2, <2>1
  <1>4. Archive!ArTypeOK' /\ Archive!Shown'
    BY <1>1, <1>2, <1>3 DEF Archive!ArInv, Archive!ArTypeOK, Archive!Shown
  <1>5. Archive!Numbered'
    BY <1>1, <1>3, NoNewNames DEF Archive!ArInv
  <1>6. Archive!UserFilesSurvive'
    <2>1. /\ \A p \in Archive!Paths \ {v7, v8} : v1[p] = v10[p]
          /\ v8 # Archive!Nowhere \/ v9 \/ v10[v7] = Archive!Absent
          /\ v9 => "both" \in v11 /\ v10[v7].user \ {"both"} \subseteq v1[v7].user
          /\ v8 # Archive!Nowhere =>
               v10[v7].user \subseteq v11 /\ v10[v8] = Archive!Absent
      BY <1>1 DEF Archive!ArInv, Archive!AtWork
    <2>2. v8 = Archive!Nowhere => v10[v7].user \ v11 \subseteq v1'[v7].user
      BY <1>3, <2>1 DEF Archive!Absent
    <2>3. \A p \in Archive!Paths \ {v7, v8} : v1'[p] = v10[p]
      BY <1>3, <2>1
    <2> QED  BY <1>1, <1>2, <2>1, <2>2, <2>3, FilesAreSpared
  <1>7. Archive!DoneIsWhole'
    BY <1>1, <1>2, <1>3 DEF Archive!ArInv, Archive!DoneIsWhole, Archive!There
  <1>8. Archive!Begun' /\ Archive!AtWork' /\ Archive!FailingStep
    BY <1>1, <1>2 DEF Archive!Begun, Archive!AtWork, Archive!FailingStep
  <1> QED  BY <1>4, <1>5, <1>6, <1>7, <1>8 DEF Archive!ArInv

\* After a failure what the run made is removed, ...
LEMMA ExtractionUndone ==
    ASSUME Archive!ArInv, Archive!Undo PROVE Archive!ArInv' /\ Archive!FailingStep
  <1>1. /\ v5 = "undo" /\ v5' = "putBack" /\ v3' = v3
        /\ <<v6, v7, v8, v9, v10, v11, v12>>' = <<v6, v7, v8, v9, v10, v11, v12>>
        /\ v8 # Archive!Nowhere \/ ~v9 => v1' = [v1 EXCEPT ![v7] = Archive!Absent]
        /\ ~ (v8 # Archive!Nowhere \/ ~v9) => v1' = v1
    BY DEF Archive!Undo, Archive!Goto, Archive!Put
  <1>2. v9 => v1' = v1
    BY <1>1, WorkFacts
  <1>3. Archive!Absent \in Archive!Nodes
    BY DEF Archive!Nodes
  <1>4. ~v9 => /\ v1' \in [Archive!Paths -> Archive!Nodes] /\ v1'[v7] = Archive!Absent
               /\ \A p \in Archive!Paths : p # v7 => v1'[p] = v1[p]
    BY <1>1, <1>3, WorkFacts
  <1> QED  BY <1>1, <1>2, <1>4, WorkFacts, OnlyTheDestination

\* ... and what it replaced is put back: the disk is as the run found it.
LEMMA ExtractionPutsBack ==
    ASSUME Archive!ArInv, Archive!PutBack PROVE Archive!ArInv' /\ Archive!FailingStep
  <1>1. /\ v5 = "putBack" /\ v5' = "idle" /\ v3' \in {"password", "error"}
        /\ <<v6, v7, v8, v9, v10, v11, v12>>' = <<v6, v7, v8, v9, v10, v11, v12>>
        /\ v8 = Archive!Nowhere => v1' = v1
        /\ v8 # Archive!Nowhere =>
             v1' = [v1 EXCEPT ![v7] = v1[v8], ![v8] = Archive!Absent]
    BY DEF Archive!PutBack, Archive!Goto, Archive!Tell, Archive!ErrorEvent
  <1>2. /\ v7 \in Archive!Paths /\ v1 \in [Archive!Paths -> Archive!Nodes]
        /\ (v8 # Archive!Nowhere => v8 \in Archive!Paths /\ v8 # v7)
        /\ v9 => v8 = Archive!Nowhere
        /\ ~v9 => v1[v7] = Archive!Absent
    BY <1>1, WorkFacts
  <1>3. Archive!Nowhere \notin Archive!Paths /\ v10 \in [Archive!Paths -> Archive!Nodes]
    BY PathsApart DEF Archive!ArInv, Archive!ArTypeOK
  <1>4. /\ \A p \in Archive!Paths \ {v7, v8} : v1[p] = v10[p]
        /\ v8 = Archive!Nowhere /\ ~v9 => v10[v7] = Archive!Absent
        /\ v8 # Archive!Nowhere => v1[v8] = v10[v7] /\ v10[v8] = Archive!Absent
    BY <1>1 DEF Archive!ArInv, Archive!AtWork
  <1>5. /\ v1' \in [Archive!Paths -> Archive!Nodes]
        /\ \A p \in Archive!Paths : v1'[p].kind # "none" => p = v7 \/ v1[p].kind # "none"
    <2>1. Archive!Absent \in Archive!Nodes /\ Archive!Absent.kind = "none"
      BY DEF Archive!Absent, Archive!Nodes
    <2> QED  BY <1>1, <1>2, <2>1
  <1>6. ~v9 => v1' = v10
    <2>1. ASSUME ~v9, NEW p \in Archive!Paths PROVE v1'[p] = v10[p]
      <3>1. CASE v8 = Archive!Nowhere
        BY <1>1, <1>2, <1>3, <1>4, <2>1, <3>1
      <3>2. CASE v8 # Archive!Nowhere
        BY <1>1, <1>2, <1>4, <2>1, <3>2
      <3> QED  BY <3>1, <3>2
    <2> QED  BY <1>3, <1>5, <2>1
  <1>7. Archive!ArTypeOK' /\ Archive!Shown' /\ Archive!DoneIsWhole'
    BY <1>1, <1>5 DEF Archive!ArInv, Archive!ArTypeOK, Archive!Shown, Archive!DoneIsWhole
  <1>8. Archive!Numbered'
    BY <1>1, <1>5, NoNewNames DEF Archive!ArInv
  <1>9. Archive!UserFilesSurvive'
    <2>1. v9 => v1' = v1
      BY <1>1, <1>2
    <2> QED  BY <1>1, <1>6, <2>1 DEF Archive!ArInv, Archive!UserFilesSurvive
  <1>10. Archive!Begun' /\ Archive!AtWork' /\ Archive!FailingStep
    BY <1>1, <1>6 DEF Archive!Begun, Archive!AtWork, Archive!FailingStep
  <1> QED  BY <1>7, <1>8, <1>9, <1>10 DEF Archive!ArInv

\* Every step of the Explorer and of a run keeps it (extract_archive).
LEMMA ArchiveStep ==
    ASSUME Archive!ArInv, Archive!ArNext PROVE Archive!ArInv' /\ Archive!FailingStep
  BY ExtractionAnswered, ExtractionCancelled, ExtractionProbes, ExtractionPrepares,
     ExtractionLists, ExtractionWrites, ExtractionEnds, ExtractionFinishes, ExtractionUndone,
     ExtractionPutsBack
  DEF Archive!ArNext

\* Nothing runs, and one destination may be there, at the start.
LEMMA ArchiveAtStart == ASSUME Archive!ArInit PROVE Archive!ArInv
  <1>1. 1 \in Archive!Names /\ 0 \in 0..MaxExtractions /\ Archive!Names \subseteq Nat
    BY ExtractionsAreCounted DEF Archive!Names
  <1>2. PICK b \in Archive!Befores :
          v1 = [p \in Archive!Paths |-> IF p = Archive!Out(1) THEN b ELSE Archive!Absent]
    BY DEF Archive!ArInit
  <1>3. b \in Archive!Nodes /\ Archive!Absent \in Archive!Nodes
    BY DEF Archive!Befores, Archive!Nodes, Archive!Users
  <1>4. Archive!ArTypeOK
    BY <1>1, <1>2, <1>3 DEF Archive!ArInit, Archive!ArTypeOK
  <1>5. Archive!Numbered
    <2>1. \A n \in Archive!Names \ {1} :
            /\ v1[Archive!Out(n)].kind = "none" /\ v1[Archive!Bak(n)].kind = "none"
            /\ Archive!Out(n) # Archive!Out(1)
      BY <1>1, <1>2, PathsApart DEF Archive!Absent
    <2>2. v5 = "idle" /\ v12 = 0 /\ v7 = Archive!Out(1)
      BY DEF Archive!ArInit
    <2> QED  BY <2>1, <2>2 DEF Archive!Numbered, Archive!There
  <1>6. Archive!Begun /\ Archive!AtWork /\ Archive!Shown /\ Archive!DoneIsWhole
        /\ Archive!UserFilesSurvive
    BY DEF Archive!ArInit, Archive!Begun, Archive!AtWork, Archive!Shown, Archive!DoneIsWhole,
       Archive!UserFilesSurvive
  <1> QED  BY <1>4, <1>5, <1>6 DEF Archive!ArInv

(***************************************************************************)
(* The trash of the Explorer.                                              *)
(***************************************************************************)
\* A number that is free exists: there are more of them than paths.
LEMMA NameIsFree ==
    ASSUME Bin!TrTypeOK, NEW dir, NEW name \in Bin!Names
    PROVE  /\ Bin!Unique(dir, name) \notin DOMAIN v1
           /\ \E n \in Bin!Names : Bin!Unique(dir, name) = <<dir, n>>
  <1> DEFINE c == Cardinality(DOMAIN v1)
             numbered(n) == <<dir, Append(name, n)>>
             free == {n \in 2..(c + 2) : numbered(n) \notin DOMAIN v1}
  <1>1. IsFiniteSet(DOMAIN v1)
    BY DEF Bin!TrTypeOK, Bin!IsFiniteSet, IsFiniteSet
  <1>2. c \in Nat
    BY <1>1, FS_CardinalityType
  <1>3. name \in Seq(Nat)
    BY DEF Bin!Names
  <1> HIDE DEF c
  <1>4. free # {}
    <2> SUFFICES ASSUME \A n \in 2..(c + 2) : numbered(n) \in DOMAIN v1
                 PROVE  FALSE
      OBVIOUS
    <2> DEFINE f == [n \in 2..(c + 2) |-> numbered(n)]
    <2>1. f \in [2..(c + 2) -> DOMAIN v1]
      OBVIOUS
    <2>2. IsFiniteSet(2..(c + 2)) /\ Cardinality(2..(c + 2)) = c + 1
      <3>1. 2 \in Int /\ c + 2 \in Int /\ ~ (2 > c + 2) /\ (c + 2) - 2 + 1 = c + 1
        BY <1>2
      <3> QED  BY <3>1, FS_Interval
    <2>3. c < c + 1
      BY <1>2
    <2>4. \E x, y \in 2..(c + 2) : x # y /\ f[x] = f[y]
      <3> HIDE DEF f
      <3> QED  BY <1>1, <2>1, <2>2, <2>3, FS_PigeonHole DEF c
    <2>5. PICK x \in 2..(c + 2), y \in 2..(c + 2) : x # y /\ numbered(x) = numbered(y)
      BY <2>4
    <2>6. x \in Nat /\ y \in Nat
      BY <1>2
    <2>7. Append(name, x) = Append(name, y)
      BY <2>5
    <2>8. Append(name, x)[Len(name) + 1] = x /\ Append(name, y)[Len(name) + 1] = y
      BY <1>3, <2>6
    <2> QED  BY <2>5, <2>7, <2>8
  <1>5. free \subseteq Nat
    BY <1>2
  <1>6. PICK k \in free : \A m \in free : k <= m
    BY <1>4, <1>5, LeastNumber
  <1> DEFINE first == CHOOSE n \in free : \A m \in free : n <= m
  <1>7. first \in free
    BY <1>6
  <1>8. Bin!Numbered(dir, name) = numbered(first)
    BY DEF Bin!Numbered, Bin!Exists, c, Bin!Cardinality, Cardinality
  <1>9. numbered(first) \notin DOMAIN v1 /\ Append(name, first) \in Bin!Names
    <2>1. first \in Nat /\ numbered(first) \notin DOMAIN v1
      BY <1>5, <1>7
    <2> HIDE DEF first
    <2> QED  BY <1>3, <2>1 DEF Bin!Names
  <1> HIDE DEF first, free
  <1> QED  BY <1>8, <1>9 DEF Bin!Unique, Bin!Exists

\* An item that is moved to a free path is the only one that has moved.
LEMMA ItemIsMoved ==
    ASSUME Bin!TrTypeOK, NEW p \in DOMAIN v1, NEW t \in Bin!Paths, t \notin DOMAIN v1,
           Bin!Move(p, t)
    PROVE  /\ DOMAIN v1' = (DOMAIN v1 \ {p}) \cup {t}
           /\ v1'[t] = v1[p] /\ \A q \in DOMAIN v1 \ {p} : v1'[q] = v1[q]
           /\ IsFiniteSet(DOMAIN v1') /\ DOMAIN v1' \subseteq Bin!Paths
           /\ \A q \in DOMAIN v1' : v1'[q] \in HomeFolders
           /\ Bin!RemovingStep
  <1>1. v1' = [y \in (DOMAIN v1 \ {p}) \cup {t} |-> IF y = t THEN v1[p] ELSE v1[y]]
    BY DEF Bin!Move, Bin!With, Bin!Without, Bin!Restrict
  <1>2. /\ DOMAIN v1' = (DOMAIN v1 \ {p}) \cup {t}
        /\ v1'[t] = v1[p] /\ \A q \in DOMAIN v1 \ {p} : v1'[q] = v1[q]
    BY <1>1
  <1>3. IsFiniteSet((DOMAIN v1 \ {p}) \cup {t})
    <2>1. IsFiniteSet(DOMAIN v1)
      BY DEF Bin!TrTypeOK, Bin!IsFiniteSet, IsFiniteSet
    <2>2. IsFiniteSet(DOMAIN v1 \ {p})
      BY <2>1, FS_RemoveElement
    <2> QED  BY <2>2, FS_AddElement
  <1>4. ASSUME NEW q \in DOMAIN v1 PROVE \E r \in DOMAIN v1' : v1'[r] = v1[q]
    <2>1. CASE q = p
      BY <1>2, <2>1
    <2>2. CASE q # p
      BY <1>2, <2>2
    <2> QED  BY <2>1, <2>2
  <1>5. Bin!RemovingStep
    BY <1>4 DEF Bin!RemovingStep, Bin!Range
  <1>6. DOMAIN v1' \subseteq Bin!Paths /\ \A q \in DOMAIN v1' : v1'[q] \in HomeFolders
    BY <1>2 DEF Bin!TrTypeOK
  <1> QED  BY <1>2, <1>3, <1>5, <1>6

\* What the process of kind k has done.
LEMMA StepIsTaken ==
    ASSUME Bin!TrTypeOK, NEW k \in Bin!Kinds, NEW where, NEW p, NEW g,
           where \in {"done", "next", "write", "move", "unlink", "list", "infos"},
           Bin!Step(k, where, p, g)
    PROVE  /\ v3'[k] = where /\ v5'[k] = p /\ v6'[k] = g
           /\ \A j \in Bin!Kinds \ {k} : v3'[j] = v3[j] /\ v5'[j] = v5[j] /\ v6'[j] = v6[j]
           /\ v3' \in [Bin!Kinds ->
                         {"done", "next", "write", "move", "unlink", "list", "infos"}]
           /\ DOMAIN v5' = Bin!Kinds /\ DOMAIN v6' = Bin!Kinds
           /\ <<v7, v8, v9>>' = <<v7, v8, v9>>
  BY DEF Bin!TrTypeOK, Bin!Step

\* The process that runs is the only one, and stays so.
LEMMA StillAlone ==
    ASSUME Bin!TrTypeOK, Bin!Alone, NEW k \in Bin!Kinds, v3[k] # "done",
           \A j \in Bin!Kinds \ {k} : v3'[j] = v3[j], v4'["trash"] \subseteq v4["trash"]
    PROVE  /\ \A j \in Bin!Kinds \ {k} : v3[j] = "done" /\ v3'[j] = "done"
           /\ Bin!Alone'
  <1>1. \A j \in Bin!Kinds \ {k} : v3[j] = "done" /\ v3'[j] = "done"
    BY DEF Bin!Alone
  <1>2. v3'["trash"] # "done" => v3["trash"] # "done"
    BY <1>1 DEF Bin!Kinds
  <1> QED  BY <1>1, <1>2 DEF Bin!Alone

\* The Explorer starts a process, and may kill the one of its kind.
LEMMA TrashStarts ==
    ASSUME Bin!TrashInv, NEW k \in Bin!Kinds, NEW paths, Bin!Start(k, "next", paths),
           paths \subseteq Bin!Paths, k = "restore" => paths \subseteq {"bin"} \X Bin!Names
    PROVE  Bin!TrashInv' /\ Bin!RemovingStep
  <1>1. /\ v1' = v1 /\ v2' = v2 /\ v3'[k] = "next" /\ v4'[k] = paths
        /\ \A j \in Bin!Kinds \ {k} : v3'[j] = v3[j] /\ v4'[j] = v4[j] /\ v5'[j] = v5[j]
                                      /\ v6'[j] = v6[j]
        /\ v3' \in [Bin!Kinds -> {"done", "next", "write", "move", "unlink", "list", "infos"}]
        /\ DOMAIN v4' = Bin!Kinds /\ DOMAIN v5' = Bin!Kinds /\ DOMAIN v6' = Bin!Kinds
    BY DEF Bin!Start, Bin!TrashInv, Bin!TrTypeOK
  <1>2. /\ v7' \in Nat /\ v8' \in Nat /\ v9' \in BOOLEAN
        /\ (v8' = v8 /\ v3[k] = "done") \/ v8' = v8 + 1
        /\ ~v9' => /\ ~v9
                   /\ \A j \in Bin!Kinds \ {k} : v3[j] = "done"
                   /\ k = "trash" => \A p \in paths : p[1] # "bin"
    <2>1. v7 \in Nat /\ v8 \in Nat /\ v9 \in BOOLEAN
      BY DEF Bin!TrashInv, Bin!TrTypeOK
    <2>2. v7' = v7 + 1 /\ ((v8' = v8 /\ v3[k] = "done") \/ v8' = v8 + 1)
      BY DEF Bin!Start
    <2>3. v7' \in Nat /\ v8' \in Nat
      BY <2>1, <2>2
    <2>4. v9' = (v9 \/ (k = "trash" /\ \E p \in paths : p[1] = "bin")
                     \/ \E j \in Bin!Kinds \ {k} : v3[j] # "done")
      BY DEF Bin!Start
    <2> QED  BY <2>1, <2>2, <2>3, <2>4
  <1>3. Bin!TrTypeOK'
    <2>1. Bin!TrTypeOK
      BY DEF Bin!TrashInv
    <2>2. v4'["trash"] \subseteq Bin!Paths /\ v4'["restore"] \subseteq {"bin"} \X Bin!Names
      BY <1>1, <2>1 DEF Bin!TrTypeOK, Bin!Kinds
    <2>3. /\ v3'["trash"] = "write" =>
               v5'["trash"] \in {"bin"} \X Bin!Names /\ v6'["trash"] \in Bin!Paths
          /\ v3'["restore"] \in {"move", "unlink"} =>
               v5'["restore"] \in {"bin"} \X Bin!Names
          /\ v3'["restore"] = "move" => v6'["restore"] \in Bin!Paths
      BY <1>1, <2>1 DEF Bin!TrTypeOK, Bin!Kinds
    <2> QED  BY <1>1, <1>2, <2>1, <2>2, <2>3 DEF Bin!TrTypeOK
  <1>4. ASSUME ~v9', v8' < 2
        PROVE  Bin!Alone' /\ Bin!AtHome' /\ Bin!Labelled' /\ Bin!NoneLeft'
               /\ Bin!GoalsAreRight'
    <2>1. /\ ~v9 /\ v8 < 2 /\ v8 \in Nat /\ v8' \in Nat
          /\ v8' = 0 => v8 = 0 /\ v3[k] = "done"
          /\ v3[k] # "done" => v8 = 0
      BY <1>2, <1>4 DEF Bin!TrashInv, Bin!TrTypeOK
    <2>2. Bin!Alone /\ Bin!AtHome /\ Bin!Labelled /\ Bin!NoneLeft /\ Bin!GoalsAreRight
      BY <2>1 DEF Bin!TrashInv
    <2>3. \A j \in Bin!Kinds \ {k} : v3[j] = "done" /\ v3'[j] = "done"
      BY <1>1, <1>2, <1>4
    <2>4. Bin!Alone'
      BY <1>1, <1>2, <1>4, <2>3 DEF Bin!Alone, Bin!Kinds
    <2>5. Bin!AtHome' /\ Bin!GoalsAreRight'
      BY <1>1, <2>2, <2>3 DEF Bin!AtHome, Bin!GoalsAreRight, Bin!Kinds
    <2>6. v3["trash"] = "write" => v5["trash"][2] \notin DOMAIN v2
      BY <2>1, <2>2, <2>3 DEF Bin!NoneLeft, Bin!Kinds
    <2>7. Bin!Labelled'
      BY <1>1, <2>2, <2>6 DEF Bin!Labelled, Bin!Right, Bin!In
    <2>8. Bin!NoneLeft'
      BY <1>1, <2>1, <2>2, <2>3 DEF Bin!NoneLeft, Bin!Exists, Bin!Kinds
    <2> QED  BY <2>4, <2>5, <2>7, <2>8
  <1>5. Bin!RemovingStep
    BY <1>1 DEF Bin!RemovingStep
  <1> QED  BY <1>3, <1>4, <1>5 DEF Bin!TrashInv

\* Its commands are given paths that exist (deleteSelected, restoreSelected, emptyTrash).
LEMMA TrashCommands ==
    ASSUME Bin!TrashInv, Bin!Delete \/ Bin!Restore \/ Bin!Empty
    PROVE  Bin!TrashInv' /\ Bin!RemovingStep
  <1>1. /\ DOMAIN v1 \subseteq Bin!Paths
        /\ Bin!In("bin") \subseteq {"bin"} \X Bin!Names
    BY DEF Bin!TrashInv, Bin!TrTypeOK, Bin!In, Bin!Paths
  <1>2. CASE Bin!Delete
    <2> PICK dir \in {p[1] : p \in DOMAIN v1} :
          \E S \in SUBSET Bin!In(dir) : S # {} /\ Bin!Start("trash", "next", S)
      BY <1>2 DEF Bin!Delete
    <2>1. PICK S \in SUBSET Bin!In(dir) : Bin!Start("trash", "next", S)
      OBVIOUS
    <2>2. S \subseteq Bin!Paths
      BY <1>1 DEF Bin!In
    <2> QED  BY <2>1, <2>2, TrashStarts DEF Bin!Kinds
  <1>3. CASE Bin!Restore
    <2>1. PICK S \in SUBSET Bin!In("bin") : Bin!Start("restore", "next", S)
      BY <1>3 DEF Bin!Restore
    <2>2. S \subseteq Bin!Paths /\ S \subseteq {"bin"} \X Bin!Names
      BY <1>1 DEF Bin!In
    <2> QED  BY <2>1, <2>2, TrashStarts DEF Bin!Kinds
  <1>4. CASE Bin!Empty
    <2>1. Bin!Start("empty", "next", Bin!In("bin")) /\ Bin!In("bin") \subseteq Bin!Paths
      BY <1>1, <1>4 DEF Bin!Empty, Bin!In
    <2> QED  BY <2>1, TrashStarts DEF Bin!Kinds
  <1> QED  BY <1>2, <1>3, <1>4

\* The type invariant after a step of a process that is given the paths it is at.
LEMMA TrashTypeStays ==
    ASSUME Bin!TrTypeOK, NEW k \in Bin!Kinds, NEW where, NEW p, NEW g,
           where \in {"done", "next", "write", "move", "unlink", "list", "infos"},
           Bin!Step(k, where, p, g),
           DOMAIN v4' = Bin!Kinds, v4'["trash"] \subseteq v4["trash"],
           v4'["restore"] \subseteq v4["restore"],
           IsFiniteSet(DOMAIN v1'), DOMAIN v1' \subseteq Bin!Paths,
           \A q \in DOMAIN v1' : v1'[q] \in HomeFolders,
           DOMAIN v2' \subseteq Bin!Names, \A n \in DOMAIN v2' : v2'[n] \in Bin!Paths,
           k = "trash" /\ where = "write" => p \in {"bin"} \X Bin!Names /\ g \in Bin!Paths,
           k = "restore" /\ where \in {"move", "unlink"} => p \in {"bin"} \X Bin!Names,
           k = "restore" /\ where = "move" => g \in Bin!Paths
    PROVE  Bin!TrTypeOK'
  <1>1. /\ v3'[k] = where /\ v5'[k] = p /\ v6'[k] = g
        /\ \A j \in Bin!Kinds \ {k} : v3'[j] = v3[j] /\ v5'[j] = v5[j] /\ v6'[j] = v6[j]
        /\ v3' \in [Bin!Kinds -> {"done", "next", "write", "move", "unlink", "list", "infos"}]
        /\ DOMAIN v5' = Bin!Kinds /\ DOMAIN v6' = Bin!Kinds
        /\ v7' = v7 /\ v8' = v8 /\ v9' = v9
    BY StepIsTaken
  <1>2. "trash" \in Bin!Kinds /\ "restore" \in Bin!Kinds
    BY DEF Bin!Kinds
  <1>3. Bin!IsFiniteSet(DOMAIN v1)'
    BY DEF Bin!IsFiniteSet, IsFiniteSet
  <1>4. v3'["trash"] = "write" =>
          v5'["trash"] \in {"bin"} \X Bin!Names /\ v6'["trash"] \in Bin!Paths
    <2>1. CASE k = "trash"
      BY <1>1, <2>1
    <2>2. CASE k # "trash"
      BY <1>1, <1>2, <2>2 DEF Bin!TrTypeOK
    <2> QED  BY <2>1, <2>2
  <1>5. /\ v3'["restore"] \in {"move", "unlink"} => v5'["restore"] \in {"bin"} \X Bin!Names
        /\ v3'["restore"] = "move" => v6'["restore"] \in Bin!Paths
    <2>1. CASE k = "restore"
      BY <1>1, <2>1
    <2>2. CASE k # "restore"
      BY <1>1, <1>2, <2>2 DEF Bin!TrTypeOK
    <2> QED  BY <2>1, <2>2
  <1>6. v7' \in Nat /\ v8' \in Nat /\ v9' \in BOOLEAN
    BY <1>1 DEF Bin!TrTypeOK
  <1>7. v4'["trash"] \subseteq Bin!Paths /\ v4'["restore"] \subseteq {"bin"} \X Bin!Names
    BY DEF Bin!TrTypeOK
  <1> QED  BY <1>1, <1>3, <1>4, <1>5, <1>6, <1>7 DEF Bin!TrTypeOK

\* While one process ran at a time and one at most was killed, the process of kind k,
\* which is running, is the only one.
LEMMA OneProcess ==
    ASSUME Bin!TrashInv, NEW k \in Bin!Kinds, NEW where, NEW p, NEW g,
           where \in {"done", "next", "write", "move", "unlink", "list", "infos"},
           Bin!Step(k, where, p, g), v3[k] # "done", v4'["trash"] \subseteq v4["trash"],
           ~v9', v8' < 2
    PROVE  /\ Bin!Alone /\ Bin!AtHome /\ Bin!Labelled /\ Bin!NoneLeft /\ Bin!GoalsAreRight
           /\ Bin!Alone'
           /\ \A j \in Bin!Kinds \ {k} : v3[j] = "done" /\ v3'[j] = "done"
           /\ v3'[k] = where /\ v5'[k] = p /\ v6'[k] = g /\ v8' = v8
  <1>1. Bin!TrTypeOK
    BY DEF Bin!TrashInv
  <1>2. /\ v3'[k] = where /\ v5'[k] = p /\ v6'[k] = g
        /\ \A j \in Bin!Kinds \ {k} : v3'[j] = v3[j]
        /\ v8' = v8 /\ v9' = v9
    BY <1>1, StepIsTaken
  <1>3. Bin!Alone /\ Bin!AtHome /\ Bin!Labelled /\ Bin!NoneLeft /\ Bin!GoalsAreRight
    BY <1>2 DEF Bin!TrashInv
  <1> QED  BY <1>1, <1>2, <1>3, StillAlone

\* Nothing is removed when nothing moves.
LEMMA NothingIsRemoved ==
    ASSUME v1' = v1 PROVE Bin!RemovingStep
  BY DEF Bin!RemovingStep

\* What is listed to be moved to the trash, one path less.
LEMMA OneLess ==
    ASSUME Bin!TrTypeOK, NEW k \in Bin!Kinds, NEW p, Bin!Take(k, p)
    PROVE  /\ DOMAIN v4' = Bin!Kinds /\ v4'["trash"] \subseteq v4["trash"]
           /\ v4'["restore"] \subseteq v4["restore"]
           /\ v4'[k] = v4[k] \ {p}
  BY DEF Bin!TrTypeOK, Bin!Take, Bin!Kinds

\* trash_items moves an item to a name of the trash that is free and whose .trashinfo,
\* with no process killed, is free too.
LEMMA TrashMoves ==
    ASSUME Bin!TrashInv, Bin!TrashMove
    PROVE  Bin!TrashInv' /\ Bin!RemovingStep
  <1>0. Bin!TrTypeOK /\ "trash" \in Bin!Kinds /\ "restore" \in Bin!Kinds /\ "empty" \in Bin!Kinds
    BY DEF Bin!TrashInv, Bin!Kinds
  <1> PICK p \in v4["trash"] :
        /\ Bin!Take("trash", p)
        /\ IF Bin!Exists(p)
           THEN Bin!Move(p, Bin!Unique("bin", p[2]))
                /\ Bin!Step("trash", "write", Bin!Unique("bin", p[2]), p)
           ELSE v1' = v1
                /\ Bin!Step("trash", IF v4["trash"] = {p} THEN "done" ELSE "next",
                            Bin!Nothing, Bin!Nothing)
    BY DEF Bin!TrashMove
  <1>1. v3["trash"] = "next" /\ v2' = v2
    BY DEF Bin!TrashMove
  <1>2. /\ DOMAIN v4' = Bin!Kinds /\ v4'["trash"] \subseteq v4["trash"]
        /\ v4'["restore"] \subseteq v4["restore"]
    BY <1>0, OneLess
  <1>3. CASE Bin!Exists(p)
    <2> DEFINE d == Bin!Unique("bin", p[2])
    <2>1. p \in DOMAIN v1 /\ p \in Bin!Paths /\ p[2] \in Bin!Names
      BY <1>0, <1>3 DEF Bin!Exists, Bin!TrTypeOK, Bin!Paths
    <2>2. PICK n \in Bin!Names : d = <<"bin", n>> /\ d \notin DOMAIN v1
      BY <1>0, <2>1, NameIsFree
    <2>3. d \in {"bin"} \X Bin!Names /\ d \in Bin!Paths /\ d[1] = "bin" /\ d[2] = n
      BY <2>2 DEF Bin!Paths
    <2>4. Bin!Move(p, d) /\ Bin!Step("trash", "write", d, p)
      BY <1>3
    <2> HIDE DEF d
    <2>5. /\ DOMAIN v1' = (DOMAIN v1 \ {p}) \cup {d}
          /\ v1'[d] = v1[p] /\ \A q \in DOMAIN v1 \ {p} : v1'[q] = v1[q]
          /\ IsFiniteSet(DOMAIN v1') /\ DOMAIN v1' \subseteq Bin!Paths
          /\ \A q \in DOMAIN v1' : v1'[q] \in HomeFolders
          /\ Bin!RemovingStep
      BY <1>0, <2>1, <2>2, <2>3, <2>4, ItemIsMoved
    <2>6. DOMAIN v2' \subseteq Bin!Names /\ \A m \in DOMAIN v2' : v2'[m] \in Bin!Paths
      BY <1>0, <1>1 DEF Bin!TrTypeOK
    <2>7. Bin!TrTypeOK'
      BY <1>0, <1>2, <2>1, <2>3, <2>4, <2>5, <2>6, TrashTypeStays
    <2>8. ASSUME ~v9', v8' < 2
          PROVE  Bin!Alone' /\ Bin!AtHome' /\ Bin!Labelled' /\ Bin!NoneLeft'
                 /\ Bin!GoalsAreRight'
      <3>1. /\ Bin!Alone /\ Bin!AtHome /\ Bin!Labelled /\ Bin!NoneLeft /\ Bin!GoalsAreRight
            /\ Bin!Alone'
            /\ \A j \in Bin!Kinds \ {"trash"} : v3[j] = "done" /\ v3'[j] = "done"
            /\ v3'["trash"] = "write" /\ v5'["trash"] = d /\ v6'["trash"] = p /\ v8' = v8
        BY <1>0, <1>1, <1>2, <2>4, <2>8, OneProcess
      <3>2. p[1] # "bin"
        BY <1>1, <3>1 DEF Bin!Alone
      <3>3. Bin!AtHome'
        BY <2>3, <2>5, <3>1 DEF Bin!AtHome
      <3>4. Bin!Labelled'
        BY <1>1, <2>5, <3>1 DEF Bin!Labelled, Bin!In, Bin!Right
      <3>5. ASSUME v8' = 0
            PROVE  n \notin DOMAIN v2 /\ \A m \in DOMAIN v2 : <<"bin", m>> \in DOMAIN v1'
        <4>1. \A m \in DOMAIN v2 : <<"bin", m>> \in DOMAIN v1
          BY <1>0, <3>1, <3>5 DEF Bin!NoneLeft, Bin!Exists
        <4> QED  BY <2>2, <2>5, <3>2, <4>1
      <3>6. Bin!NoneLeft'
        BY <1>1, <2>3, <3>1, <3>5 DEF Bin!NoneLeft, Bin!Exists
      <3>7. Bin!GoalsAreRight'
        BY <1>0, <2>1, <2>5, <3>1, <3>2 DEF Bin!GoalsAreRight, Bin!AtHome, Bin!Exists
      <3> QED  BY <3>1, <3>3, <3>4, <3>6, <3>7
    <2> QED  BY <2>5, <2>7, <2>8 DEF Bin!TrashInv
  <1>4. CASE ~Bin!Exists(p)
    <2> DEFINE where == IF v4["trash"] = {p} THEN "done" ELSE "next"
    <2>1. v1' = v1 /\ Bin!Step("trash", where, Bin!Nothing, Bin!Nothing)
          /\ where \in {"done", "next"}
      BY <1>4
    <2> HIDE DEF where
    <2>2. /\ IsFiniteSet(DOMAIN v1') /\ DOMAIN v1' \subseteq Bin!Paths
          /\ \A q \in DOMAIN v1' : v1'[q] \in HomeFolders
          /\ DOMAIN v2' \subseteq Bin!Names /\ \A m \in DOMAIN v2' : v2'[m] \in Bin!Paths
      BY <1>0, <1>1, <2>1 DEF Bin!TrTypeOK, Bin!IsFiniteSet, IsFiniteSet
    <2>3. Bin!TrTypeOK'
      <3>1. where \in {"done", "next", "write", "move", "unlink", "list", "infos"}
            /\ where # "write"
        BY <2>1
      <3> QED  BY <1>0, <1>2, <2>1, <2>2, <3>1, TrashTypeStays
    <2>4. ASSUME ~v9', v8' < 2
          PROVE  Bin!Alone' /\ Bin!AtHome' /\ Bin!Labelled' /\ Bin!NoneLeft'
                 /\ Bin!GoalsAreRight'
      <3>1. /\ Bin!Alone /\ Bin!AtHome /\ Bin!Labelled /\ Bin!NoneLeft /\ Bin!GoalsAreRight
            /\ Bin!Alone'
            /\ \A j \in Bin!Kinds \ {"trash"} : v3[j] = "done" /\ v3'[j] = "done"
            /\ v3'["trash"] = where /\ v8' = v8
        BY <1>0, <1>1, <1>2, <2>1, <2>4, OneProcess
      <3>2. Bin!AtHome' /\ Bin!Labelled'
        BY <1>1, <2>1, <3>1 DEF Bin!AtHome, Bin!Labelled, Bin!In, Bin!Right
      <3>3. Bin!NoneLeft' /\ Bin!GoalsAreRight'
        BY <1>0, <1>1, <2>1, <3>1 DEF Bin!NoneLeft, Bin!Exists, Bin!GoalsAreRight
      <3> QED  BY <3>1, <3>2, <3>3
    <2> QED  BY <2>1, <2>3, <2>4, NothingIsRemoved DEF Bin!TrashInv
  <1> QED  BY <1>3, <1>4

\* trash_items writes the .trashinfo of the item it has moved.
LEMMA TrashWrites ==
    ASSUME Bin!TrashInv, Bin!TrashInfo
    PROVE  Bin!TrashInv' /\ Bin!RemovingStep
  <1> DEFINE d == v5["trash"]  g == v6["trash"]
             where == IF v4["trash"] = {} THEN "done" ELSE "next"
  <1>0. Bin!TrTypeOK /\ "trash" \in Bin!Kinds /\ "restore" \in Bin!Kinds /\ "empty" \in Bin!Kinds
    BY DEF Bin!TrashInv, Bin!Kinds
  <1>1. /\ v3["trash"] = "write" /\ v1' = v1 /\ v4' = v4 /\ v2' = Bin!With(v2, d[2], g)
        /\ Bin!Step("trash", where, Bin!Nothing, Bin!Nothing) /\ where \in {"done", "next"}
    BY DEF Bin!TrashInfo, Bin!Proceed
  <1>2. d \in {"bin"} \X Bin!Names /\ g \in Bin!Paths
    BY <1>0, <1>1 DEF Bin!TrTypeOK
  <1> HIDE DEF d, g, where
  <1>3. /\ DOMAIN v2' = DOMAIN v2 \cup {d[2]} /\ v2'[d[2]] = g
        /\ \A m \in DOMAIN v2 \ {d[2]} : v2'[m] = v2[m]
    BY <1>1 DEF Bin!With
  <1>4. /\ IsFiniteSet(DOMAIN v1') /\ DOMAIN v1' \subseteq Bin!Paths
        /\ \A q \in DOMAIN v1' : v1'[q] \in HomeFolders
        /\ DOMAIN v2' \subseteq Bin!Names /\ \A m \in DOMAIN v2' : v2'[m] \in Bin!Paths
        /\ DOMAIN v4' = Bin!Kinds
    BY <1>0, <1>1, <1>2, <1>3 DEF Bin!TrTypeOK, Bin!IsFiniteSet, IsFiniteSet
  <1>5. Bin!TrTypeOK'
    <2>1. where \in {"done", "next", "write", "move", "unlink", "list", "infos"}
          /\ where # "write"
      BY <1>1
    <2> QED  BY <1>0, <1>1, <1>4, <2>1, TrashTypeStays
  <1>6. ASSUME ~v9', v8' < 2
        PROVE  Bin!Alone' /\ Bin!AtHome' /\ Bin!Labelled' /\ Bin!NoneLeft'
               /\ Bin!GoalsAreRight'
    <2>1. /\ Bin!Alone /\ Bin!AtHome /\ Bin!Labelled /\ Bin!NoneLeft /\ Bin!GoalsAreRight
          /\ Bin!Alone'
          /\ \A j \in Bin!Kinds \ {"trash"} : v3[j] = "done" /\ v3'[j] = "done"
          /\ v3'["trash"] = where /\ v8' = v8
      BY <1>0, <1>1, <1>6, OneProcess
    <2>2. Bin!Exists(d) /\ g[1] \in {v1[d], "home"}
      BY <1>1, <2>1 DEF Bin!GoalsAreRight, d, g
    <2>3. ASSUME NEW q \in Bin!In("bin") PROVE Bin!Right(q)'
      <3>1. CASE q = d
        BY <1>1, <1>3, <2>2, <3>1 DEF Bin!Right
      <3>2. CASE q # d
        <4>1. q \in {"bin"} \X Bin!Names
          BY <1>0 DEF Bin!In, Bin!TrTypeOK, Bin!Paths
        <4>2. q[2] # d[2]
          BY <1>2, <3>2, <4>1
        <4>3. Bin!Right(q)
          BY <2>1, <3>2 DEF Bin!Labelled, d
        <4> QED  BY <1>1, <1>3, <4>2, <4>3 DEF Bin!Right
      <3> QED  BY <3>1, <3>2
    <2>4. Bin!AtHome' /\ Bin!Labelled'
      BY <1>1, <2>1, <2>3 DEF Bin!AtHome, Bin!Labelled, Bin!In
    <2>5. <<"bin", d[2]>> = d
      BY <1>2
    <2>6. Bin!NoneLeft'
      BY <1>0, <1>1, <1>3, <2>1, <2>2, <2>5 DEF Bin!NoneLeft, Bin!Exists
    <2>7. Bin!GoalsAreRight'
      BY <1>0, <1>1, <2>1 DEF Bin!GoalsAreRight
    <2> QED  BY <2>1, <2>4, <2>6, <2>7
  <1> QED  BY <1>1, <1>5, <1>6, NothingIsRemoved DEF Bin!TrashInv

\* restore_trash_items reads where an item of the trash came from.
LEMMA TrashReads ==
    ASSUME Bin!TrashInv, Bin!RestoreRead
    PROVE  Bin!TrashInv' /\ Bin!RemovingStep
  <1>0. Bin!TrTypeOK /\ "trash" \in Bin!Kinds /\ "restore" \in Bin!Kinds /\ "empty" \in Bin!Kinds
    BY DEF Bin!TrashInv, Bin!Kinds
  <1> PICK p \in v4["restore"] :
        /\ Bin!Take("restore", p)
        /\ IF Bin!Exists(p) THEN Bin!Step("restore", "move", p, Bin!Origin(p[2]))
           ELSE Bin!Step("restore", IF v4["restore"] = {p} THEN "done" ELSE "next",
                         Bin!Nothing, Bin!Nothing)
    BY DEF Bin!RestoreRead
  <1>1. v3["restore"] = "next" /\ v1' = v1 /\ v2' = v2
    BY DEF Bin!RestoreRead
  <1>2. /\ DOMAIN v4' = Bin!Kinds /\ v4'["trash"] \subseteq v4["trash"]
        /\ v4'["restore"] \subseteq v4["restore"]
    BY <1>0, OneLess
  <1>3. /\ IsFiniteSet(DOMAIN v1') /\ DOMAIN v1' \subseteq Bin!Paths
        /\ \A q \in DOMAIN v1' : v1'[q] \in HomeFolders
        /\ DOMAIN v2' \subseteq Bin!Names /\ \A m \in DOMAIN v2' : v2'[m] \in Bin!Paths
    BY <1>0, <1>1 DEF Bin!TrTypeOK, Bin!IsFiniteSet, IsFiniteSet
  <1>4. p \in {"bin"} \X Bin!Names
    BY <1>0 DEF Bin!TrTypeOK
  <1>5. CASE Bin!Exists(p)
    <2> DEFINE g == Bin!Origin(p[2])
    <2>1. g \in Bin!Paths
      BY <1>0, <1>4 DEF Bin!Origin, Bin!TrTypeOK, Bin!Paths
    <2>2. Bin!Step("restore", "move", p, g)
      BY <1>5
    <2>3. Bin!Right(p) => g[1] \in {v1[p], "home"}
      BY DEF Bin!Origin, Bin!Right
    <2> HIDE DEF g
    <2>4. Bin!TrTypeOK'
      BY <1>0, <1>2, <1>3, <1>4, <2>1, <2>2, TrashTypeStays
    <2>5. ASSUME ~v9', v8' < 2
          PROVE  Bin!Alone' /\ Bin!AtHome' /\ Bin!Labelled' /\ Bin!NoneLeft'
                 /\ Bin!GoalsAreRight'
      <3>1. /\ Bin!Alone /\ Bin!AtHome /\ Bin!Labelled /\ Bin!NoneLeft /\ Bin!GoalsAreRight
          /\ Bin!Alone'
          /\ \A j \in Bin!Kinds \ {"restore"} : v3[j] = "done" /\ v3'[j] = "done"
          /\ v3'["restore"] = "move" /\ v8' = v8
          /\ v5'["restore"] = p /\ v6'["restore"] = g
        BY <1>0, <1>1, <1>2, <2>2, <2>5, OneProcess
      <3>2. Bin!AtHome' /\ Bin!Labelled'
        BY <1>0, <1>1, <3>1 DEF Bin!AtHome, Bin!Labelled, Bin!In, Bin!Right
      <3>3. Bin!NoneLeft'
        BY <1>0, <1>1, <3>1 DEF Bin!NoneLeft, Bin!Exists
      <3>4. Bin!Right(p)
        BY <1>0, <1>1, <1>4, <1>5, <3>1 DEF Bin!Labelled, Bin!In, Bin!Exists
      <3>5. Bin!GoalsAreRight'
        BY <1>0, <1>1, <2>3, <3>1, <3>4 DEF Bin!GoalsAreRight, Bin!Exists
      <3> QED  BY <3>1, <3>2, <3>3, <3>5
    <2> QED  BY <1>1, <2>4, <2>5, NothingIsRemoved DEF Bin!TrashInv
  <1>6. CASE ~Bin!Exists(p)
    <2> DEFINE where == IF v4["restore"] = {p} THEN "done" ELSE "next"
    <2>1. Bin!Step("restore", where, Bin!Nothing, Bin!Nothing)
          /\ where \in {"done", "next"}
      BY <1>6
    <2> HIDE DEF where
    <2>2. Bin!TrTypeOK'
      <3>1. where \in {"done", "next", "write", "move", "unlink", "list", "infos"}
            /\ where \notin {"move", "unlink"}
        BY <2>1
      <3> QED  BY <1>0, <1>2, <1>3, <2>1, <3>1, TrashTypeStays
    <2>3. ASSUME ~v9', v8' < 2
          PROVE  Bin!Alone' /\ Bin!AtHome' /\ Bin!Labelled' /\ Bin!NoneLeft'
                 /\ Bin!GoalsAreRight'
      <3>1. /\ Bin!Alone /\ Bin!AtHome /\ Bin!Labelled /\ Bin!NoneLeft /\ Bin!GoalsAreRight
          /\ Bin!Alone'
          /\ \A j \in Bin!Kinds \ {"restore"} : v3[j] = "done" /\ v3'[j] = "done"
          /\ v3'["restore"] = where /\ v8' = v8
        BY <1>0, <1>1, <1>2, <2>1, <2>3, OneProcess
      <3>2. Bin!AtHome' /\ Bin!Labelled'
        BY <1>0, <1>1, <3>1 DEF Bin!AtHome, Bin!Labelled, Bin!In, Bin!Right
      <3>3. Bin!NoneLeft' /\ Bin!GoalsAreRight'
        BY <1>0, <1>1, <2>1, <3>1 DEF Bin!NoneLeft, Bin!Exists, Bin!GoalsAreRight
      <3> QED  BY <3>1, <3>2, <3>3
    <2> QED  BY <1>1, <2>2, <2>3, NothingIsRemoved DEF Bin!TrashInv
  <1> QED  BY <1>5, <1>6

\* restore_trash_items moves the item to a free path of the directory it has read.
LEMMA TrashGivesBack ==
    ASSUME Bin!TrashInv, Bin!RestoreMove
    PROVE  Bin!TrashInv' /\ Bin!RemovingStep
  <1> DEFINE p == v5["restore"]  g == v6["restore"]  t == Bin!Unique(g[1], g[2])
  <1>0. Bin!TrTypeOK /\ "trash" \in Bin!Kinds /\ "restore" \in Bin!Kinds /\ "empty" \in Bin!Kinds
    BY DEF Bin!TrashInv, Bin!Kinds
  <1>1. v3["restore"] = "move" /\ v2' = v2
    BY DEF Bin!RestoreMove
  <1>2. p \in {"bin"} \X Bin!Names /\ g \in Bin!Paths /\ g[2] \in Bin!Names
    BY <1>0, <1>1 DEF Bin!TrTypeOK, Bin!Paths
  <1>3. DOMAIN v2' \subseteq Bin!Names /\ \A m \in DOMAIN v2' : v2'[m] \in Bin!Paths
    BY <1>0, <1>1 DEF Bin!TrTypeOK
  <1>4. CASE Bin!Exists(p)
    <2>1. /\ Bin!Move(p, t) /\ Bin!Step("restore", "unlink", p, Bin!Nothing) /\ v4' = v4
      BY <1>4 DEF Bin!RestoreMove
    <2>2. PICK n \in Bin!Names : t = <<g[1], n>> /\ t \notin DOMAIN v1
      BY <1>0, <1>2, NameIsFree
    <2>3. t \in Bin!Paths /\ t[1] = g[1]
      BY <1>2, <2>2 DEF Bin!Paths
    <2> HIDE DEF t
    <2>4. /\ DOMAIN v1' = (DOMAIN v1 \ {p}) \cup {t}
          /\ v1'[t] = v1[p] /\ \A q \in DOMAIN v1 \ {p} : v1'[q] = v1[q]
          /\ IsFiniteSet(DOMAIN v1') /\ DOMAIN v1' \subseteq Bin!Paths
          /\ \A q \in DOMAIN v1' : v1'[q] \in HomeFolders
          /\ Bin!RemovingStep
      <3>1. p \in DOMAIN v1
        BY <1>4 DEF Bin!Exists
      <3> QED  BY <1>0, <2>1, <2>2, <2>3, <3>1, ItemIsMoved
    <2> HIDE DEF p, g
    <2>5. Bin!TrTypeOK'
      <3>1. DOMAIN v4' = Bin!Kinds
        BY <1>0, <2>1 DEF Bin!TrTypeOK
      <3> QED  BY <1>0, <1>2, <1>3, <2>1, <2>4, <3>1, TrashTypeStays
    <2>6. ASSUME ~v9', v8' < 2
          PROVE  Bin!Alone' /\ Bin!AtHome' /\ Bin!Labelled' /\ Bin!NoneLeft'
                 /\ Bin!GoalsAreRight'
      <3>1. /\ Bin!Alone /\ Bin!AtHome /\ Bin!Labelled /\ Bin!NoneLeft /\ Bin!GoalsAreRight
          /\ Bin!Alone'
          /\ \A j \in Bin!Kinds \ {"restore"} : v3[j] = "done" /\ v3'[j] = "done"
          /\ v3'["restore"] = "unlink" /\ v8' = v8
          /\ v5'["restore"] = p
        BY <1>0, <1>1, <2>1, <2>6, OneProcess
      <3>2. g[1] \in {v1[p], "home"} /\ v1[p] \in HomeFolders
        BY <1>0, <1>1, <1>4, <3>1 DEF Bin!GoalsAreRight, Bin!TrTypeOK, Bin!Exists, p, g
      <3>3. t[1] # "bin" /\ t[1] \in {v1'[t], "home"}
        BY <2>3, <2>4, <3>2, HomesAreFolders
      <3>4. Bin!AtHome'
        BY <2>4, <3>1, <3>3 DEF Bin!AtHome
      <3>5. Bin!Labelled'
        BY <1>0, <1>1, <2>4, <3>1, <3>3 DEF Bin!Labelled, Bin!In, Bin!Right
      <3>6. ASSUME v8' = 0, NEW m \in DOMAIN v2
            PROVE  <<"bin", m>> \in DOMAIN v1' \/ <<"bin", m>> = p
        <4>1. <<"bin", m>> \in DOMAIN v1
          BY <1>0, <1>1, <3>1, <3>6 DEF Bin!NoneLeft, Bin!Exists
        <4> QED  BY <2>4, <4>1
      <3>7. Bin!NoneLeft'
        BY <1>0, <1>1, <3>1, <3>6 DEF Bin!NoneLeft, Bin!Exists
      <3>8. Bin!GoalsAreRight'
        BY <1>0, <3>1 DEF Bin!GoalsAreRight
      <3> QED  BY <3>1, <3>4, <3>5, <3>7, <3>8
    <2> QED  BY <2>4, <2>5, <2>6 DEF Bin!TrashInv
  <1>5. CASE ~Bin!Exists(p)
    <2>1. /\ Bin!Step("restore", "done", Bin!Nothing, Bin!Nothing)
          /\ v4' = [v4 EXCEPT !["restore"] = {}] /\ v1' = v1
      BY <1>5 DEF Bin!RestoreMove
    <2>2. /\ DOMAIN v4' = Bin!Kinds /\ v4'["trash"] \subseteq v4["trash"]
          /\ v4'["restore"] \subseteq v4["restore"]
      BY <1>0, <2>1 DEF Bin!TrTypeOK
    <2>3. /\ IsFiniteSet(DOMAIN v1') /\ DOMAIN v1' \subseteq Bin!Paths
          /\ \A q \in DOMAIN v1' : v1'[q] \in HomeFolders
          /\ DOMAIN v2' \subseteq Bin!Names /\ \A m \in DOMAIN v2' : v2'[m] \in Bin!Paths
      BY <1>0, <1>1, <2>1 DEF Bin!TrTypeOK, Bin!IsFiniteSet, IsFiniteSet
    <2>4. Bin!TrTypeOK'
      BY <1>0, <2>1, <2>2, <2>3, TrashTypeStays
    <2>5. ASSUME ~v9', v8' < 2
          PROVE  Bin!Alone' /\ Bin!AtHome' /\ Bin!Labelled' /\ Bin!NoneLeft'
                 /\ Bin!GoalsAreRight'
      <3>1. /\ Bin!Alone /\ Bin!AtHome /\ Bin!Labelled /\ Bin!NoneLeft /\ Bin!GoalsAreRight
          /\ Bin!Alone'
          /\ \A j \in Bin!Kinds \ {"restore"} : v3[j] = "done" /\ v3'[j] = "done"
          /\ v3'["restore"] = "done" /\ v8' = v8
        BY <1>0, <1>1, <2>1, <2>2, <2>5, OneProcess
      <3>2. Bin!AtHome' /\ Bin!Labelled'
        BY <1>0, <1>1, <2>1, <3>1 DEF Bin!AtHome, Bin!Labelled, Bin!In, Bin!Right
      <3>3. Bin!NoneLeft' /\ Bin!GoalsAreRight'
        BY <1>0, <1>1, <2>1, <3>1 DEF Bin!NoneLeft, Bin!Exists, Bin!GoalsAreRight
      <3> QED  BY <3>1, <3>2, <3>3
    <2> QED  BY <2>1, <2>4, <2>5, NothingIsRemoved DEF Bin!TrashInv
  <1> QED  BY <1>4, <1>5

\* restore_trash_items removes the .trashinfo of the item it has moved.
LEMMA TrashUnlinks ==
    ASSUME Bin!TrashInv, Bin!RestoreUnlink
    PROVE  Bin!TrashInv' /\ Bin!RemovingStep
  <1> DEFINE p == v5["restore"]
             where == IF v4["restore"] = {} THEN "done" ELSE "next"
  <1>0. Bin!TrTypeOK /\ "trash" \in Bin!Kinds /\ "restore" \in Bin!Kinds /\ "empty" \in Bin!Kinds
    BY DEF Bin!TrashInv, Bin!Kinds
  <1>1. /\ v3["restore"] = "unlink" /\ v1' = v1 /\ v4' = v4
        /\ v2' = Bin!Without(v2, {p[2]})
        /\ Bin!Step("restore", where, Bin!Nothing, Bin!Nothing) /\ where \in {"done", "next"}
    BY DEF Bin!RestoreUnlink, Bin!Proceed
  <1>2. p \in {"bin"} \X Bin!Names
    BY <1>0, <1>1 DEF Bin!TrTypeOK
  <1>3. DOMAIN v2' = DOMAIN v2 \ {p[2]} /\ \A m \in DOMAIN v2' : v2'[m] = v2[m]
    BY <1>1 DEF Bin!Without, Bin!Restrict
  <1> HIDE DEF where
  <1>4. /\ IsFiniteSet(DOMAIN v1') /\ DOMAIN v1' \subseteq Bin!Paths
        /\ \A q \in DOMAIN v1' : v1'[q] \in HomeFolders
        /\ DOMAIN v2' \subseteq Bin!Names /\ \A m \in DOMAIN v2' : v2'[m] \in Bin!Paths
        /\ DOMAIN v4' = Bin!Kinds
    BY <1>0, <1>1, <1>3 DEF Bin!TrTypeOK, Bin!IsFiniteSet, IsFiniteSet
  <1>5. Bin!TrTypeOK'
    <2>1. where \in {"done", "next", "write", "move", "unlink", "list", "infos"}
          /\ where \notin {"move", "unlink"}
      BY <1>1
    <2> QED  BY <1>0, <1>1, <1>4, <2>1, TrashTypeStays
  <1>6. ASSUME ~v9', v8' < 2
        PROVE  Bin!Alone' /\ Bin!AtHome' /\ Bin!Labelled' /\ Bin!NoneLeft'
               /\ Bin!GoalsAreRight'
    <2>1. /\ Bin!Alone /\ Bin!AtHome /\ Bin!Labelled /\ Bin!NoneLeft /\ Bin!GoalsAreRight
          /\ Bin!Alone'
          /\ \A j \in Bin!Kinds \ {"restore"} : v3[j] = "done" /\ v3'[j] = "done"
          /\ v3'["restore"] = where /\ v8' = v8
      BY <1>0, <1>1, <1>6, OneProcess
    <2>2. Bin!AtHome' /\ Bin!Labelled'
      BY <1>0, <1>1, <1>3, <2>1 DEF Bin!AtHome, Bin!Labelled, Bin!In, Bin!Right
    <2>3. ASSUME v8' = 0, NEW m \in DOMAIN v2' PROVE <<"bin", m>> \in DOMAIN v1'
      <3>1. <<"bin", m>> # p
        BY <1>3
      <3>2. v3["empty"] = "done" /\ m \in DOMAIN v2 /\ v8 = 0
        BY <1>0, <1>3, <2>1, <2>3
      <3> QED  BY <1>1, <2>1, <3>1, <3>2 DEF Bin!NoneLeft, Bin!Exists
    <2>4. Bin!NoneLeft'
      BY <1>0, <2>1, <2>3 DEF Bin!NoneLeft, Bin!Exists
    <2>5. Bin!GoalsAreRight'
      BY <1>0, <1>1, <2>1 DEF Bin!GoalsAreRight
    <2> QED  BY <2>1, <2>2, <2>4, <2>5
  <1> QED  BY <1>1, <1>5, <1>6, NothingIsRemoved DEF Bin!TrashInv

\* empty_trash removes the items it has listed, ...
LEMMA TrashRemoves ==
    ASSUME Bin!TrashInv, Bin!EmptyItem
    PROVE  Bin!TrashInv' /\ Bin!RemovingStep
  <1>0. Bin!TrTypeOK /\ "trash" \in Bin!Kinds /\ "restore" \in Bin!Kinds /\ "empty" \in Bin!Kinds
    BY DEF Bin!TrashInv, Bin!Kinds
  <1> PICK p \in v4["empty"] :
        /\ Bin!Take("empty", p) /\ v1' = Bin!Without(v1, {p})
        /\ Bin!Step("empty", IF v4["empty"] = {p} THEN "list" ELSE "next",
                    Bin!Nothing, Bin!Nothing)
    BY DEF Bin!EmptyItem
  <1> DEFINE where == IF v4["empty"] = {p} THEN "list" ELSE "next"
  <1>1. /\ v3["empty"] = "next" /\ v2' = v2
        /\ Bin!Step("empty", where, Bin!Nothing, Bin!Nothing) /\ where \in {"list", "next"}
    BY DEF Bin!EmptyItem
  <1> HIDE DEF where
  <1>2. /\ DOMAIN v4' = Bin!Kinds /\ v4'["trash"] \subseteq v4["trash"]
        /\ v4'["restore"] \subseteq v4["restore"] /\ v4'["empty"] = v4["empty"] \ {p}
    BY <1>0, OneLess
  <1>3. DOMAIN v1' = DOMAIN v1 \ {p} /\ \A q \in DOMAIN v1' : v1'[q] = v1[q]
    BY DEF Bin!Without, Bin!Restrict
  <1>4. /\ IsFiniteSet(DOMAIN v1') /\ DOMAIN v1' \subseteq Bin!Paths
        /\ \A q \in DOMAIN v1' : v1'[q] \in HomeFolders
        /\ DOMAIN v2' \subseteq Bin!Names /\ \A m \in DOMAIN v2' : v2'[m] \in Bin!Paths
    <2>1. IsFiniteSet(DOMAIN v1)
      BY <1>0 DEF Bin!TrTypeOK, Bin!IsFiniteSet, IsFiniteSet
    <2>2. IsFiniteSet(DOMAIN v1')
      BY <1>3, <2>1, FS_RemoveElement
    <2> QED  BY <1>0, <1>1, <1>3, <2>2 DEF Bin!TrTypeOK
  <1>5. Bin!TrTypeOK'
    <2>1. where \in {"done", "next", "write", "move", "unlink", "list", "infos"}
      BY <1>1
    <2> QED  BY <1>0, <1>1, <1>2, <1>4, <2>1, TrashTypeStays
  <1>6. ASSUME ~v9', v8' < 2
        PROVE  Bin!Alone' /\ Bin!AtHome' /\ Bin!Labelled' /\ Bin!NoneLeft'
               /\ Bin!GoalsAreRight'
    <2>1. /\ Bin!Alone /\ Bin!AtHome /\ Bin!Labelled /\ Bin!NoneLeft /\ Bin!GoalsAreRight
          /\ Bin!Alone'
          /\ \A j \in Bin!Kinds \ {"empty"} : v3[j] = "done" /\ v3'[j] = "done"
          /\ v3'["empty"] = where /\ v8' = v8
      BY <1>0, <1>1, <1>2, <1>5, <1>6, OneProcess
    <2>2. Bin!AtHome' /\ Bin!Labelled'
      BY <1>0, <1>1, <1>3, <2>1 DEF Bin!AtHome, Bin!Labelled, Bin!In, Bin!Right
    <2>3. Bin!NoneLeft' /\ Bin!GoalsAreRight'
      BY <1>0, <1>1, <2>1 DEF Bin!NoneLeft, Bin!GoalsAreRight
    <2> QED  BY <2>1, <2>2, <2>3
  <1>7. ASSUME NEW h \in Bin!Range(v1) \ Bin!Range(v1') PROVE v1[p] = h
    <2>1. PICK q \in DOMAIN v1 : v1[q] = h
      BY DEF Bin!Range
    <2>2. q \notin DOMAIN v1'
      BY <1>3, <2>1 DEF Bin!Range
    <2> QED  BY <1>3, <2>1, <2>2
  <1>8. Bin!RemovingStep
    <2>1. p \in v4["empty"] \ v4'["empty"]
      BY <1>2
    <2> QED  BY <1>1, <1>7, <2>1 DEF Bin!RemovingStep
  <1> QED  BY <1>5, <1>6, <1>8 DEF Bin!TrashInv

\* ... lists what is left in the directory of the .trashinfos, ...
LEMMA TrashLists ==
    ASSUME Bin!TrashInv, Bin!EmptyList
    PROVE  Bin!TrashInv' /\ Bin!RemovingStep
  <1> DEFINE where == IF DOMAIN v2 = {} THEN "done" ELSE "infos"
  <1>0. Bin!TrTypeOK /\ "trash" \in Bin!Kinds /\ "restore" \in Bin!Kinds /\ "empty" \in Bin!Kinds
    BY DEF Bin!TrashInv, Bin!Kinds
  <1>1. /\ v3["empty"] = "list" /\ v1' = v1 /\ v2' = v2
        /\ v4' = [v4 EXCEPT !["empty"] = DOMAIN v2]
        /\ Bin!Step("empty", where, Bin!Nothing, Bin!Nothing) /\ where \in {"done", "infos"}
        /\ where = "done" => DOMAIN v2 = {}
    BY DEF Bin!EmptyList
  <1> HIDE DEF where
  <1>2. /\ DOMAIN v4' = Bin!Kinds /\ v4'["trash"] = v4["trash"]
        /\ v4'["restore"] = v4["restore"] /\ v4'["empty"] = DOMAIN v2
    BY <1>0, <1>1 DEF Bin!TrTypeOK
  <1>3. /\ IsFiniteSet(DOMAIN v1') /\ DOMAIN v1' \subseteq Bin!Paths
        /\ \A q \in DOMAIN v1' : v1'[q] \in HomeFolders
        /\ DOMAIN v2' \subseteq Bin!Names /\ \A m \in DOMAIN v2' : v2'[m] \in Bin!Paths
    BY <1>0, <1>1 DEF Bin!TrTypeOK, Bin!IsFiniteSet, IsFiniteSet
  <1>4. Bin!TrTypeOK'
    <2>1. where \in {"done", "next", "write", "move", "unlink", "list", "infos"}
      BY <1>1
    <2> QED  BY <1>0, <1>1, <1>2, <1>3, <2>1, TrashTypeStays
  <1>5. ASSUME ~v9', v8' < 2
        PROVE  Bin!Alone' /\ Bin!AtHome' /\ Bin!Labelled' /\ Bin!NoneLeft'
               /\ Bin!GoalsAreRight'
    <2>1. /\ Bin!Alone /\ Bin!AtHome /\ Bin!Labelled /\ Bin!NoneLeft /\ Bin!GoalsAreRight
          /\ Bin!Alone'
          /\ \A j \in Bin!Kinds \ {"empty"} : v3[j] = "done" /\ v3'[j] = "done"
          /\ v3'["empty"] = where /\ v8' = v8
      <3>1. where \in {"done", "next", "write", "move", "unlink", "list", "infos"}
        BY <1>1
      <3> QED  BY <1>0, <1>1, <1>2, <1>5, <3>1, OneProcess
    <2>2. Bin!AtHome' /\ Bin!Labelled'
      BY <1>0, <1>1, <2>1 DEF Bin!AtHome, Bin!Labelled, Bin!In, Bin!Right
    <2>3. Bin!NoneLeft' /\ Bin!GoalsAreRight'
      BY <1>0, <1>1, <1>2, <2>1 DEF Bin!NoneLeft, Bin!GoalsAreRight
    <2> QED  BY <2>1, <2>2, <2>3
  <1> QED  BY <1>1, <1>4, <1>5, NothingIsRemoved DEF Bin!TrashInv

\* ... and removes them.
LEMMA TrashForgets ==
    ASSUME Bin!TrashInv, Bin!EmptyInfo
    PROVE  Bin!TrashInv' /\ Bin!RemovingStep
  <1>0. Bin!TrTypeOK /\ "trash" \in Bin!Kinds /\ "restore" \in Bin!Kinds /\ "empty" \in Bin!Kinds
    BY DEF Bin!TrashInv, Bin!Kinds
  <1> PICK n \in v4["empty"] :
        /\ Bin!Take("empty", n) /\ v2' = Bin!Without(v2, {n})
        /\ Bin!Step("empty", IF v4["empty"] = {n} THEN "done" ELSE "infos",
                    Bin!Nothing, Bin!Nothing)
    BY DEF Bin!EmptyInfo
  <1> DEFINE where == IF v4["empty"] = {n} THEN "done" ELSE "infos"
  <1>1. /\ v3["empty"] = "infos" /\ v1' = v1
        /\ Bin!Step("empty", where, Bin!Nothing, Bin!Nothing) /\ where \in {"done", "infos"}
        /\ where = "done" => v4["empty"] = {n}
    BY DEF Bin!EmptyInfo
  <1> HIDE DEF where
  <1>2. /\ DOMAIN v4' = Bin!Kinds /\ v4'["trash"] \subseteq v4["trash"]
        /\ v4'["restore"] \subseteq v4["restore"] /\ v4'["empty"] = v4["empty"] \ {n}
    BY <1>0, OneLess
  <1>3. DOMAIN v2' = DOMAIN v2 \ {n} /\ \A m \in DOMAIN v2' : v2'[m] = v2[m]
    BY DEF Bin!Without, Bin!Restrict
  <1>4. /\ IsFiniteSet(DOMAIN v1') /\ DOMAIN v1' \subseteq Bin!Paths
        /\ \A q \in DOMAIN v1' : v1'[q] \in HomeFolders
        /\ DOMAIN v2' \subseteq Bin!Names /\ \A m \in DOMAIN v2' : v2'[m] \in Bin!Paths
    BY <1>0, <1>1, <1>3 DEF Bin!TrTypeOK, Bin!IsFiniteSet, IsFiniteSet
  <1>5. where \in {"done", "next", "write", "move", "unlink", "list", "infos"}
    BY <1>1
  <1>6. Bin!TrTypeOK'
    BY <1>0, <1>1, <1>2, <1>4, <1>5, TrashTypeStays
  <1>7. ASSUME ~v9', v8' < 2
        PROVE  Bin!Alone' /\ Bin!AtHome' /\ Bin!Labelled' /\ Bin!NoneLeft'
               /\ Bin!GoalsAreRight'
    <2>1. /\ Bin!Alone /\ Bin!AtHome /\ Bin!Labelled /\ Bin!NoneLeft /\ Bin!GoalsAreRight
          /\ Bin!Alone'
          /\ \A j \in Bin!Kinds \ {"empty"} : v3[j] = "done" /\ v3'[j] = "done"
          /\ v3'["empty"] = where /\ v8' = v8
      BY <1>0, <1>1, <1>2, <1>5, <1>7, OneProcess
    <2>2. Bin!AtHome' /\ Bin!Labelled'
      BY <1>0, <1>1, <1>3, <2>1 DEF Bin!AtHome, Bin!Labelled, Bin!In, Bin!Right
    <2>3. DOMAIN v2 \subseteq v4["empty"]
      BY <1>1, <2>1 DEF Bin!GoalsAreRight
    <2>4. Bin!NoneLeft' /\ Bin!GoalsAreRight'
      BY <1>0, <1>1, <1>2, <1>3, <2>1, <2>3 DEF Bin!NoneLeft, Bin!GoalsAreRight
    <2> QED  BY <2>1, <2>2, <2>4
  <1> QED  BY <1>1, <1>6, <1>7, NothingIsRemoved DEF Bin!TrashInv

\* A step of the trash.
LEMMA TrashStep ==
    ASSUME Bin!TrashInv, Bin!TrNext PROVE Bin!TrashInv' /\ Bin!RemovingStep
  BY TrashCommands, TrashMoves, TrashWrites, TrashReads, TrashGivesBack, TrashUnlinks,
     TrashRemoves, TrashLists, TrashForgets DEF Bin!TrNext

\* No process runs at first, and the trash is empty.
LEMMA TrashAtStart == ASSUME Bin!TrInit PROVE Bin!TrashInv
  <1>1. /\ DOMAIN v1 = {<<h, Bin!First>> : h \in HomeFolders}
        /\ \A p \in DOMAIN v1 : v1[p] = p[1]
        /\ v2 = <<>> /\ v3 = [k \in Bin!Kinds |-> "done"]
        /\ v4 = [k \in Bin!Kinds |-> {}] /\ DOMAIN v5 = Bin!Kinds /\ DOMAIN v6 = Bin!Kinds
        /\ v7 = 0 /\ v8 = 0 /\ v9 = FALSE
    BY DEF Bin!TrInit
  <1>2. DOMAIN v2 = {} /\ Bin!First \in Bin!Names
    BY <1>1 DEF Bin!First, Bin!Names
  <1>3. \A p \in DOMAIN v1 : p \in Bin!Paths /\ v1[p] \in HomeFolders /\ p[1] = v1[p]
    BY <1>1, <1>2 DEF Bin!Paths
  <1>4. Bin!IsFiniteSet(DOMAIN v1)
    <2> DEFINE f == [h \in HomeFolders |-> <<h, Bin!First>>]
    <2>1. IsFiniteSet({<<h, Bin!First>> : h \in HomeFolders})
      <3>1. f \in Surjection(HomeFolders, {<<h, Bin!First>> : h \in HomeFolders})
        BY DEF Surjection
      <3> HIDE DEF f
      <3> QED  BY <3>1, HomesAreFolders, FS_Surjection
    <2> QED  BY <1>1, <2>1 DEF Bin!IsFiniteSet, IsFiniteSet
  <1>5. Bin!TrTypeOK
    BY <1>1, <1>2, <1>3, <1>4 DEF Bin!TrTypeOK, Bin!Kinds
  <1>6. Bin!Alone /\ Bin!AtHome /\ Bin!GoalsAreRight
    BY <1>1, <1>3 DEF Bin!Alone, Bin!AtHome, Bin!GoalsAreRight, Bin!Kinds
  <1>7. Bin!Labelled /\ Bin!NoneLeft
    BY <1>1, <1>2 DEF Bin!Labelled, Bin!NoneLeft, Bin!Right, Bin!Kinds
  <1> QED  BY <1>5, <1>6, <1>7 DEF Bin!TrashInv

\* With every process done, no .trashinfo is being written.
LEMMA TrashIsLabelled == Bin!TrashInv => Bin!TrashInfoIsRight
  BY DEF Bin!TrashInv, Bin!Labelled, Bin!Right, Bin!TrashInfoIsRight, Bin!Kinds

(***************************************************************************)
(* The screen time.                                                        *)
(***************************************************************************)
\* What Folds_proofs proves, of the variables and the constants of Usage, of Body,
\* of Net and of Queries.
Passes == INSTANCE Folds_proofs WITH
    NoWindow <- Nil, DayLength <- UnitsPerDay, SampleCap <- LongestSample,
    MaxClock <- MaxTime, MaxStops <- MaxEnds, ResetAnytime <- FALSE,
    wall <- v1, mono <- v2, file <- v3, mon <- v4, since <- v5, stops <- v6,
    MaxTokens <- HtmlTokens, MaxLines <- TextLines, mail <- v1,
    Signals <- Strengths, None <- Nil, MaxField <- FieldLength,
    air <- v1, radio <- v2, joined <- v3, dns <- v4, warp <- v5, answer <- v6,
    Files <- Selectable, Times <- Moments, Limits <- ListLimits, DesktopIds <- Launchers,
    Nothing <- Nil, MaxOwn <- OwnRecents, MaxBookmarks <- Bookmarks, MaxLaunches <- Launches,
    MaxDirs <- ProgramDirs, query <- v1, reply <- v2

\* The units of time of this module are what Folds_proofs assumes of its clocks.
LEMMA TimeCanBeCounted == Passes!ClocksCount /\ Passes!IsFiniteSet(Apps)
  BY TimeIsCountable DEF Passes!ClocksCount, Passes!IsFiniteSet, IsFiniteSet

\* No monitor runs and nothing is recorded when the computer starts.
LEMMA UsageAtStart == ASSUME Usage!Init PROVE Passes!StInv
  <1>1. Passes!Init
    BY DEF Usage!Init, Passes!Init, Usage!EmptyState, Passes!EmptyState, Usage!Off, Passes!Off,
         Usage!Days, Passes!Days, Usage!Windows, Passes!Windows
  <1> QED  BY <1>1, TimeCanBeCounted, Passes!TimeAtStart

\* Each sample goes on where the record ends (add_elapsed, acquire_lock, reset_state).
LEMMA UsageStep == ASSUME Passes!StInv, Usage!Next PROVE Passes!StInv'
  <1>1. Passes!Next
    BY DEF Usage!Next, Usage!Reset, Usage!Tick, Usage!Suspend, Usage!StartMonitor, Usage!Sample,
           Usage!StopMonitor, Usage!KillMonitor, Usage!EmptyState, Usage!Off, Usage!Days,
           Usage!Windows, Usage!LockIsFree, Usage!Elapsed, Usage!AddElapsed, Usage!Portion,
           Usage!DayOf, Usage!Min, Usage!Max,
           Passes!Next, Passes!Reset, Passes!Tick, Passes!Suspend, Passes!StartMonitor, Passes!Sample,
           Passes!StopMonitor, Passes!KillMonitor, Passes!EmptyState, Passes!Off, Passes!Days,
           Passes!Windows, Passes!LockIsFree, Passes!Elapsed, Passes!AddElapsed, Passes!Portion,
           Passes!DayOf, Passes!Min, Passes!Max
  <1> QED  BY <1>1, TimeCanBeCounted, Passes!TimeStep

\* Then no time is counted twice.
LEMMA UsageIsCounted == ASSUME Passes!StInv PROVE Usage!TimeIsCountedOnce
  <1>1. Passes!TimeIsCountedOnce
    BY Passes!TimeIsCounted
  <1> QED  BY <1>1 DEF Usage!TimeIsCountedOnce, Passes!TimeIsCountedOnce, Usage!Days,
             Usage!Windows, Passes!Days, Passes!Windows, Usage!Portion, Passes!Portion,
             Usage!Min, Usage!Max, Passes!Min, Passes!Max, Usage!SumOver, Passes!SumOver,
             Usage!MapThenSumSet, Passes!MapThenSumSet, Usage!MapThenFoldSet, Passes!MapThenFoldSet

(***************************************************************************)
(* The networks.                                                           *)
(***************************************************************************)
\* The strengths of this module are what Folds_proofs assumes of them.
LEMMA StrengthsAreNumbers == Passes!SignalsCount
  BY SignalsAreNumbers DEF Passes!SignalsCount

\* The definitions that Folds_proofs brings of a listing are those of Net, ...
LEMMA SameSorted == \A rows : Net!Sorted(rows) = Passes!Sorted(rows)
  BY DEF Net!Sorted, Passes!Sorted, Net!Before, Passes!Before, Net!ToSet, Passes!ToSet,
     Net!Cardinality, Passes!Cardinality, Net!IsFiniteSet, Passes!IsFiniteSet

LEMMA SameListing == \A now : Net!ParseNetworks(now) = Passes!ParseNetworks(now)
  BY SameSorted
  DEF Net!ParseNetworks, Passes!ParseNetworks, Net!FoldLeft, Passes!FoldLeft,
      Net!MapThenFoldSet, Passes!MapThenFoldSet, Net!Max, Passes!Max, Net!KeepRow,
      Passes!KeepRow, Net!Row, Passes!Row

\* ... of an answer in the new state, ...
LEMMA SamePayload ==
    \A asked, arg, success, listed :
      Net!WifiPayload(asked, arg, success, listed) = Passes!WifiPayload(asked, arg, success, listed)
  <1>1. \A S : Net!Min(S) = Passes!Min(S)
    BY DEF Net!Min, Passes!Min
  <1> QED  BY SameListing, <1>1 DEF Net!WifiPayload, Passes!WifiPayload

\* ... of the commands, ...
LEMMA SameNetNext == Net!NetNext <=> Passes!NetNext
  <1>1. /\ Net!NoAnswer = Passes!NoAnswer
        /\ \A asked, arg : Net!Failed(asked, arg) = Passes!Failed(asked, arg)
        /\ Net!AccessPoints = Passes!AccessPoints
    BY DEF Net!NoAnswer, Passes!NoAnswer, Net!Failed, Passes!Failed, Net!AccessPoints,
       Passes!AccessPoints
  <1>2. \A ssid : Net!WifiConnect(ssid) <=> Passes!WifiConnect(ssid)
    BY <1>1, SamePayload DEF Net!WifiConnect, Passes!WifiConnect
  <1>3. Net!WifiDisconnect <=> Passes!WifiDisconnect
    BY <1>1, SamePayload DEF Net!WifiDisconnect, Passes!WifiDisconnect
  <1>4. \A on : Net!WifiSetEnabled(on) <=> Passes!WifiSetEnabled(on)
    BY <1>1, SamePayload DEF Net!WifiSetEnabled, Passes!WifiSetEnabled
  <1>5. Net!AirChanges <=> Passes!AirChanges
    BY <1>1 DEF Net!AirChanges, Passes!AirChanges, Net!RemoveAt, Passes!RemoveAt
  <1>6. \A servers : Net!SetDns(servers) <=> Passes!SetDns(servers)
    BY <1>1 DEF Net!SetDns, Passes!SetDns
  <1>7. \A asked : Net!WarpStart(asked) <=> Passes!WarpStart(asked)
    BY <1>1 DEF Net!WarpStart, Passes!WarpStart, Net!Service, Passes!Service, Net!Connected,
       Passes!Connected
  <1>8. Net!WarpStop <=> Passes!WarpStop
    BY <1>1 DEF Net!WarpStop, Passes!WarpStop, Net!Service, Passes!Service
  <1> QED  BY <1>2, <1>3, <1>4, <1>5, <1>6, <1>7, <1>8 DEF Net!NetNext, Passes!NetNext

\* ... of what is shown ...
LEMMA SameShown ==
    /\ Net!SuccessIsShown <=> Passes!SuccessIsShown
    /\ Net!ListingIsRight <=> Passes!ListingIsRight
  BY DEF Net!SuccessIsShown, Passes!SuccessIsShown, Net!Outshone, Passes!Outshone,
     Net!DnsInfo, Passes!DnsInfo, Net!ListingIsRight, Passes!ListingIsRight,
     Net!Before, Passes!Before, Net!Row, Passes!Row

\* ... and of the fields of a line.
LEMMA SameFields == Net!FieldsAreReadBack <=> Passes!FieldsAreReadBack
  BY DEF Net!FieldsAreReadBack, Passes!FieldsAreReadBack, Net!Chars, Passes!Chars,
     Net!SplitFields, Passes!SplitFields, Net!SplitStep, Passes!SplitStep,
     Net!FoldLeft, Passes!FoldLeft, Net!MapThenFoldSet, Passes!MapThenFoldSet,
     Net!Max, Passes!Max, Net!TerseLine, Passes!TerseLine, Net!EscapeField, Passes!EscapeField,
     Net!Escaped, Passes!Escaped, Net!FlattenSeq, Passes!FlattenSeq

\* Nothing has been asked when the computer starts.
LEMMA NetworkAtStart == ASSUME Net!NetInit PROVE Passes!NetInv
  <1>1. Passes!NetInit
    BY DEF Net!NetInit, Passes!NetInit, Net!Airs, Passes!Airs, Net!AccessPoints,
       Passes!AccessPoints, Net!NoAnswer, Passes!NoAnswer
  <1> QED  BY <1>1, Passes!NetAtStart

\* Each command answers with what it did (_wifi_payload, cmd_set_dns, cmd_warp_set_enabled).
LEMMA NetworkStep == ASSUME Passes!NetInv, Net!NetNext PROVE Passes!NetInv'
  BY StrengthsAreNumbers, SameNetNext, Passes!NetStep

\* Then what is shown is so, and fields are read back as they are.
LEMMA NetworkIsShown ==
    ASSUME Passes!NetInv
    PROVE  Net!SuccessIsShown /\ Net!ListingIsRight /\ Net!FieldsAreReadBack
  BY StrengthsAreNumbers, SameShown, SameFields, Passes!FieldsRead DEF Passes!NetInv

(***************************************************************************)
(* The cards of the notification overlay.                                  *)
(***************************************************************************)
\* What NotificationDaemon_proofs proves of the daemon and its overlay, of the variables of
\* Overlay.  It brings definitions of its own; they are those of Overlay, one by one.
Cards == INSTANCE NotificationDaemon_proofs WITH
    Keys <- {}, NoEvent <- Nil, NoKey <- Nil, MaxHistory <- 2, MaxDelivered <- 2,
    MaxId <- 3, Budget <- 4, Replaceable <- "known", MaxCards <- 2,
    Overlap <- FALSE, Crashes <- TRUE, Updates <- FALSE,
    d <- v1, pc <- v2, call <- v3, quitting <- v4, file <- v5, held <- v6, shown <- v7,
    ackd <- v8, budget <- v9, cards <- v10, changed <- v11, closeProc <- v12

\* d.pop(k, None); d[k] = v
LEMMA SameTouch == \A f, k, v : Overlay!Touch(f, k, v) = Cards!Touch(f, k, v)
  BY DEF Overlay!Touch, Cards!Touch, Overlay!Drop, Cards!Drop

\* d[k] = v
LEMMA SameAssign == \A f, k, v : Overlay!Assign(f, k, v) = Cards!Assign(f, k, v)
  BY SameTouch DEF Overlay!Assign, Cards!Assign

\* The youngest entries of a map.
LEMMA SameNewest == \A f, n : Overlay!Newest(f, n) = Cards!Newest(f, n)
  BY DEF Overlay!Newest, Cards!Newest, Overlay!Keep, Cards!Keep

\* _remember_event_delivery
LEMMA SameRememberDelivery ==
    \A m, e, id : Overlay!RememberDelivery(m, e, id) = Cards!RememberDelivery(m, e, id)
  BY SameTouch, SameNewest DEF Overlay!RememberDelivery, Cards!RememberDelivery

\* _drop_history_indexes
LEMMA SameDropHistoryIndexes ==
    \A m, id : Overlay!DropHistoryIndexes(m, id) = Cards!DropHistoryIndexes(m, id)
  BY DEF Overlay!DropHistoryIndexes, Cards!DropHistoryIndexes, Overlay!DropIndex,
         Cards!DropIndex

\* _remember_history
LEMMA SameRememberHistory ==
    \A m, id, e : Overlay!RememberHistory(m, id, e) = Cards!RememberHistory(m, id, e)
  <1> TAKE m, id, e
  <1> DEFINE Indexed == Overlay!RememberDelivery(
               [Overlay!DropHistoryIndexes(m, id) EXCEPT
                  !.history = Overlay!Touch(@, id, [event |-> e, rank |-> 0]),
                  !.histIdx = Overlay!SetIndex(@, e, id)], e, id)
             Evicted(x) == {i \in DOMAIN x.history : x.history[i].rank >= 2}
             Stale(x) == {y \in Events : x.histIdx[y] \in Evicted(x)
                                          /\ x.history[x.histIdx[y]].event = y}
             Bounded(x) == [x EXCEPT !.history = Overlay!Newest(@, 2),
                             !.histIdx = [y \in Events |-> IF y \in Stale(x) THEN 0 ELSE @[y]]]
  <1>1. Overlay!RememberHistory(m, id, e) = Bounded(Indexed)
    BY DEF Overlay!RememberHistory
  <1>2. Indexed = Cards!RememberDelivery(
               [Cards!DropHistoryIndexes(m, id) EXCEPT
                  !.history = Cards!Touch(@, id, [event |-> e, rank |-> 0]),
                  !.histIdx = Cards!SetIndex(@, e, id)], e, id)
    BY SameRememberDelivery, SameDropHistoryIndexes, SameTouch
    DEF Overlay!SetIndex, Cards!SetIndex
  <1> HIDE DEF Indexed
  <1>3. Cards!RememberHistory(m, id, e) = Bounded(Indexed)
    BY <1>2, SameNewest DEF Cards!RememberHistory
  <1> QED  BY <1>1, <1>3

\* _drop_active_indexes
LEMMA SameDropActiveIndexes ==
    \A m, id : Overlay!DropActiveIndexes(m, id) = Cards!DropActiveIndexes(m, id)
  BY DEF Overlay!DropActiveIndexes, Cards!DropActiveIndexes, Overlay!DropIndex,
         Cards!DropIndex

\* An index that is set.
LEMMA SameSetIndex ==
    \A idx, v, id : Overlay!SetIndex(idx, v, id) = Cards!SetIndex(idx, v, id)
  BY DEF Overlay!SetIndex, Cards!SetIndex

\* _store_active_notification
LEMMA SameStoreActive ==
    \A m, id, e, k : Overlay!StoreActive(m, id, e, k) = Cards!StoreActive(m, id, e, k)
  BY SameAssign, SameDropActiveIndexes, SameSetIndex
  DEF Overlay!StoreActive, Cards!StoreActive

\* _remove_active_notification
LEMMA SameRemoveActive == \A m, id : Overlay!RemoveActive(m, id) = Cards!RemoveActive(m, id)
  BY DEF Overlay!RemoveActive, Cards!RemoveActive, Overlay!Drop, Cards!Drop,
         Overlay!DropActiveIndexes, Cards!DropActiveIndexes, Overlay!DropIndex,
         Cards!DropIndex

\* _cancel_expiry
LEMMA SameCancelExpiry == \A m, id : Overlay!CancelExpiry(m, id) = Cards!CancelExpiry(m, id)
  BY DEF Overlay!CancelExpiry, Cards!CancelExpiry

\* _schedule_expiry
LEMMA SameScheduleExpiry ==
    \A m, id, timed : Overlay!ScheduleExpiry(m, id, timed) = Cards!ScheduleExpiry(m, id, timed)
  BY SameCancelExpiry DEF Overlay!ScheduleExpiry, Cards!ScheduleExpiry

\* _schedule_idle_exit
LEMMA SameScheduleIdle == \A m : Overlay!ScheduleIdle(m) = Cards!ScheduleIdle(m)
  BY DEF Overlay!ScheduleIdle, Cards!ScheduleIdle, Overlay!EmptyMap, Cards!EmptyMap

\* A memory that is empty, and the id that follows a set of ids.
LEMMA SameSmall ==
    /\ Overlay!Blank = Cards!Blank
    /\ \A S : Overlay!NextAfter(S) = Cards!NextAfter(S)
    /\ Overlay!EmptyMap = Cards!EmptyMap
  BY DEF Overlay!Blank, Cards!Blank, Overlay!EmptyMap, Cards!EmptyMap, Overlay!NextAfter,
         Cards!NextAfter, Overlay!Ids, Cards!Ids, Overlay!NoIds, Cards!NoIds

\* _load_state
LEMMA SameLoad == \A f : Overlay!Load(f) = Cards!Load(f)
  <1> TAKE f
  <1> DEFINE Items == IF f.history # Overlay!EmptyMap THEN f.history
               ELSE [i \in DOMAIN f.active |->
                       [event |-> f.active[i].event, rank |-> f.active[i].rank]]
             Saved == Overlay!Newest(Items, 2)
             Of(x, e) == {i \in DOMAIN x : x[i].event = e}
             Last(x, e) == CHOOSE i \in Of(x, e) : \A j \in Of(x, e) : x[i].rank <= x[j].rank
             Kept(x) == {e \in Events : Of(x, e) # {}}
             Known(x) == Kept(x) \cup DOMAIN f.delivered
             Age(x, e) == IF e \in Kept(x) THEN x[Last(x, e)].rank ELSE 2 + f.delivered[e].rank
             Told(x) == [e \in Known(x) |->
                [id |-> IF e \in Kept(x) THEN Last(x, e) ELSE f.delivered[e].id,
                 rank |-> Cardinality({y \in Known(x) : Age(x, y) < Age(x, e)})]]
             Result(x, blank, told, next) == [blank EXCEPT
                !.history = x,
                !.histIdx = [e \in Events |-> IF e \in Kept(x) THEN Last(x, e) ELSE 0],
                !.delivered = told, !.nextId = next]
             CardsSaved == Cards!Newest(IF f.history # Cards!EmptyMap THEN f.history
               ELSE [i \in DOMAIN f.active |->
                       [event |-> f.active[i].event, rank |-> f.active[i].rank]], 2)
  <1>1. Overlay!Load(f) = Result(Saved, Overlay!Blank, Overlay!Newest(Told(Saved), 2),
                                 Overlay!NextAfter(DOMAIN Saved))
    BY DEF Overlay!Load, Overlay!Youngest, Overlay!WithEvent, Overlay!Cardinality,
           Cardinality, Overlay!IsFiniteSet, IsFiniteSet
  <1>2. Cards!Load(f) = Result(CardsSaved, Cards!Blank, Cards!Newest(Told(CardsSaved), 2),
                                 Cards!NextAfter(DOMAIN CardsSaved))
    BY DEF Cards!Load, Cards!Youngest, Cards!WithEvent, Cards!Cardinality, Cardinality,
           Cards!IsFiniteSet, IsFiniteSet
  <1>3. Saved = CardsSaved
    BY SameNewest, SameSmall
  <1> HIDE DEF Saved, CardsSaved, Told, Result
  <1> QED  BY <1>1, <1>2, <1>3, SameNewest, SameSmall

\* __init__
LEMMA SameBoot == Overlay!Boot <=> Cards!Boot
  BY SameScheduleIdle, SameLoad DEF Overlay!Boot, Cards!Boot

\* _resolve_notification_request
LEMMA SameResolve == \A r : Overlay!Resolve(r) = Cards!Resolve(r)
  BY DEF Overlay!Resolve, Cards!Resolve, Overlay!SetIndex, Cards!SetIndex, Overlay!Lookup,
         Cards!Lookup, Overlay!Oldest, Cards!Oldest, Overlay!WithEvent, Cards!WithEvent,
         Overlay!WithKey, Cards!WithKey

\* Notify
LEMMA SameNotify == \A r : Overlay!Notify(r) <=> Cards!Notify(r)
  BY SameRememberHistory, SameStoreActive, SameRemoveActive, SameCancelExpiry,
     SameScheduleExpiry, SameScheduleIdle, SameResolve
  DEF Overlay!Notify, Cards!Notify, Overlay!MayReplace, Cards!MayReplace

\* CloseNotification
LEMMA SameCloseNotification ==
    \A id : Overlay!CloseNotification(id) <=> Cards!CloseNotification(id)
  BY SameCancelExpiry, SameRemoveActive, SameScheduleIdle
  DEF Overlay!CloseNotification, Cards!CloseNotification, Overlay!BeginClose,
      Cards!BeginClose, Overlay!NoCall, Cards!NoCall

\* A timer that fires.
LEMMA SameExpire == \A id : Overlay!Expire(id) <=> Cards!Expire(id)
  BY SameRemoveActive, SameScheduleIdle
  DEF Overlay!Expire, Cards!Expire, Overlay!ForgetTimeout, Cards!ForgetTimeout,
      Overlay!BeginClose, Cards!BeginClose, Overlay!NoCall, Cards!NoCall

\* _write_state
LEMMA SameWriteState == Overlay!WriteState <=> Cards!WriteState
  BY DEF Overlay!WriteState, Cards!WriteState, Overlay!NoCall, Cards!NoCall, Overlay!Image,
         Cards!Image, Overlay!End, Cards!End, Overlay!Blank, Cards!Blank, Overlay!EmptyMap,
         Cards!EmptyMap, Overlay!Ids, Cards!Ids, Overlay!NoIds, Cards!NoIds, Overlay!Tell,
         Cards!Tell, Overlay!vars, Cards!vars, Overlay!overlayVars, Cards!overlayVars

\* _idle_exit
LEMMA SameIdleExit == Overlay!IdleExit <=> Cards!IdleExit
  BY DEF Overlay!IdleExit, Cards!IdleExit, Overlay!EmptyMap, Cards!EmptyMap, Overlay!Image,
         Cards!Image, Overlay!End, Cards!End, Overlay!Blank, Cards!Blank, Overlay!Ids,
         Cards!Ids, Overlay!NoIds, Cards!NoIds, Overlay!vars, Cards!vars, Overlay!overlayVars,
         Cards!overlayVars

\* SIGTERM
LEMMA SameStop == Overlay!Stop <=> Cards!Stop
  BY DEF Overlay!Stop, Cards!Stop, Overlay!Image, Cards!Image, Overlay!End, Cards!End,
         Overlay!Blank, Cards!Blank, Overlay!EmptyMap, Cards!EmptyMap, Overlay!Ids, Cards!Ids,
         Overlay!NoIds, Cards!NoIds

\* A crash.
LEMMA SameCrash == Overlay!Crash <=> Cards!Crash
  BY DEF Overlay!Crash, Cards!Crash, Overlay!NoCall, Cards!NoCall, Overlay!End, Cards!End,
         Overlay!Blank, Cards!Blank, Overlay!EmptyMap, Cards!EmptyMap, Overlay!Ids, Cards!Ids,
         Overlay!NoIds, Cards!NoIds

\* The start.
LEMMA SameOverlayInit == Overlay!OverlayInit <=> Cards!OverlayInit
  BY DEF Overlay!OverlayInit, Cards!OverlayInit, Overlay!Init, Cards!Init, Overlay!NoCall,
         Cards!NoCall, Overlay!Blank, Cards!Blank, Overlay!EmptyMap, Cards!EmptyMap,
         Overlay!Ids, Cards!Ids, Overlay!NoIds, Cards!NoIds, Overlay!Image, Cards!Image,
         Overlay!NoCards, Cards!NoCards

\* A step of the daemon or of the overlay.
LEMMA SameOverlayNext == Overlay!OverlayNext <=> Cards!OverlayNext
  BY SameCloseNotification, SameBoot, SameExpire, SameWriteState, SameIdleExit, SameNotify,
     SameStop, SameCrash, SameNewest
  DEF Overlay!OverlayNext, Cards!OverlayNext, Overlay!Requests, Cards!Requests, Overlay!Ids,
      Cards!Ids, Overlay!CloseServed, Cards!CloseServed, Overlay!Watch, Cards!Watch,
      Overlay!Activated, Cards!Activated, Overlay!DaemonRuns, Cards!DaemonRuns,
      Overlay!MainLoop, Cards!MainLoop, Overlay!ClientNotifies, Cards!ClientNotifies,
      Overlay!Spend, Cards!Spend, Overlay!Dismissed, Cards!Dismissed, Overlay!DaemonEnds,
      Cards!DaemonEnds, Overlay!Overlay, Cards!Overlay, Overlay!Reload, Cards!Reload,
      Overlay!Sync, Cards!Sync, Overlay!Dismiss, Cards!Dismiss, Overlay!CloseRequested,
      Cards!CloseRequested, Overlay!StartClose, Cards!StartClose, Overlay!vars, Cards!vars,
      Overlay!overlayVars, Cards!overlayVars

\* What is claimed of the cards.
LEMMA SameCardsAreSound == Overlay!CardsAreSound <=> Cards!CardsAreSound
  BY SameNewest
  DEF Overlay!CardsAreSound, Cards!CardsAreSound, Overlay!OverlayTypeOK, Cards!OverlayTypeOK,
      Overlay!Ids, Cards!Ids, Overlay!CardsMatchBanners, Cards!CardsMatchBanners,
      Overlay!NoRequestIsLost, Cards!NoRequestIsLost, Overlay!Cardinality, Cards!Cardinality,
      Overlay!IsFiniteSet, Cards!IsFiniteSet

\* The constants are what the daemon assumes of them (NotificationAssumption).
LEMMA CardsAssumed ==
    /\ Nil \notin Events /\ Nil \notin {}
    /\ 2 \in Nat \ {0} /\ 3 \in Nat /\ 4 \in Nat /\ "known" \in {"none", "known", "held"}
  BY NilIsNoEvent

\* No card is up when the computer starts.
LEMMA CardsAtStart == ASSUME Overlay!OverlayInit PROVE Cards!OverlayInv
  <1>1. Cards!OverlayInit /\ 2 \in Nat
    BY SameOverlayInit
  <1> QED  BY <1>1, CardsAssumed, Cards!OverlayAtStart

\* Each step of the daemon and of the overlay keeps the cards those of the banners
\* (syncNotifications, closeNotification, _write_state).
LEMMA CardsStep == ASSUME Cards!OverlayInv, Overlay!OverlayNext PROVE Cards!OverlayInv'
  <1>1. Cards!OverlayNext /\ 2 \in Nat /\ ~FALSE
    BY SameOverlayNext
  <1> QED  BY <1>1, CardsAssumed, Cards!OverlayStep

\* They stay so while nothing happens.
LEMMA CardsStay ==
    ASSUME Cards!OverlayInv, UNCHANGED <<v1, v2, v3, v4, v5, v6, v7, v8, v9, v10, v11, v12>>
    PROVE  Cards!OverlayInv'
  <1>1. UNCHANGED <<Cards!vars, Cards!overlayVars>> /\ 2 \in Nat /\ ~FALSE
    BY DEF Cards!vars, Cards!overlayVars
  <1> QED  BY <1>1, CardsAssumed, Cards!OverlayStep

\* Then the cards are sound.
LEMMA CardsAreRight == ASSUME Cards!OverlayInv PROVE Overlay!CardsAreSound
  <1>1. Cards!CardsAreSound
    BY CardsAssumed, Cards!CardsHold
  <1> QED  BY <1>1, SameCardsAreSound

(***************************************************************************)
(* The icons of programs.                                                  *)
(***************************************************************************)
\* f holds what n applications of g make of a.
Iteration(f, S, g, a, n) ==
    f \in [0..n -> S] /\ \A k \in 0..n : f[k] = IF k = 0 THEN a ELSE g[f[k - 1]]

\* Iterating a function gives a sequence of values in its set.
LEMMA Iterates ==
    ASSUME NEW S, NEW g, g \in [S -> S], NEW a, a \in S, NEW n, n \in Nat
    PROVE  \E f : Iteration(f, S, g, a, n)
  <1> DEFINE Upto(m, f) == Iteration(f, S, g, a, m)
             Bad == {m \in Nat : ~ \E f : Upto(m, f)}
  <1> USE DEF Iteration
  <1>1. Bad = {}
    <2> SUFFICES ASSUME Bad # {} PROVE FALSE
      OBVIOUS
    <2>1. PICK m \in Bad : \A j \in Bad : m <= j
      <3>1. Bad \subseteq Nat
        OBVIOUS
      <3> HIDE DEF Bad
      <3> QED  BY <3>1, LeastNumber
    <2>2. CASE m = 0
      <3>1. Upto(0, [k \in 0..0 |-> a])
        OBVIOUS
      <3> QED  BY <2>1, <2>2, <3>1
    <2>3. CASE m # 0
      <3>1. m - 1 \in Nat /\ m - 1 \notin Bad
        <4>1. m \in Nat /\ m - 1 \in Nat /\ ~ (m <= m - 1)
          BY <2>1, <2>3
        <4> HIDE DEF Bad
        <4> QED  BY <2>1, <4>1
      <3>2. PICK f : Upto(m - 1, f)
        BY <3>1
      <3> DEFINE h == [k \in 0..m |-> IF k <= m - 1 THEN f[k] ELSE g[f[m - 1]]]
      <3>3. h \in [0..m -> S]
        BY <3>1, <3>2
      <3>4. ASSUME NEW k \in 0..m PROVE h[k] = IF k = 0 THEN a ELSE g[h[k - 1]]
        <4>1. CASE k = 0
          BY <3>1, <3>2, <4>1
        <4>2. CASE k # 0 /\ k <= m - 1
          <5>1. h[k] = f[k] /\ h[k - 1] = f[k - 1] /\ f[k] = g[f[k - 1]]
            BY <3>1, <3>2, <4>2
          <5> QED  BY <4>2, <5>1
        <4>3. CASE k = m
          <5>1. h[k] = g[f[m - 1]] /\ h[k - 1] = f[m - 1]
            BY <3>1, <4>3
          <5> QED  BY <2>3, <4>3, <5>1
        <4> QED  BY <3>1, <4>1, <4>2, <4>3
      <3>5. Upto(m, h)
        BY <3>3, <3>4
      <3> QED  BY <2>1, <3>5
    <2> QED  BY <2>2, <2>3
  <1>2. PICK f : Upto(n, f)
    BY <1>1
  <1> QED  BY <1>2

\* The walk, step by step.
Further(met, parent) ==
    LET next == parent[Icons!Last(met)]
    IN IF next \in {1} \cup Icons!ToSet(met) THEN met ELSE Append(met, next)
IsWalk(walk, pid, parent) ==
    walk = [n \in 1..Ancestry |-> IF n = 1 THEN <<pid>> ELSE Further(walk[n - 1], parent)]

\* A step leads to a process or to none.
LEMMA FurtherIs ==
    ASSUME NEW met \in Seq(Pids), met # <<>>, NEW parent \in [Pids -> Pids \cup {1}]
    PROVE  /\ Further(met, parent) \in Seq(Pids) \ {<<>>}
           /\ LET next == parent[met[Len(met)]]
              IN  /\ next \in Pids \cup {1}
                  /\ next = 1 \/ (\E i \in 1..Len(met) : next = met[i]) => Further(met,
                      parent) = met
                  /\ next # 1 /\ (\A i \in 1..Len(met) : next # met[i]) =>
                       Further(met, parent) = Append(met, next)
  <1> DEFINE next == parent[met[Len(met)]]
  <1>1. Len(met) \in Nat /\ Len(met) > 0 /\ DOMAIN met = 1..Len(met)
    BY EmptySeq, LenProperties
  <1>2. Icons!Last(met) = met[Len(met)] /\ met[Len(met)] \in Pids
    BY <1>1, ElementOfSeq DEF Icons!Last
  <1>3. next \in Pids \cup {1}
    BY <1>2
  <1>4. Icons!ToSet(met) = {met[i] : i \in 1..Len(met)}
    BY <1>1 DEF Icons!ToSet
  <1>5. CASE next = 1 \/ (\E i \in 1..Len(met) : next = met[i])
    BY <1>2, <1>3, <1>4, <1>5 DEF Further
  <1>6. CASE next # 1 /\ (\A i \in 1..Len(met) : next # met[i])
    <2>1. Further(met, parent) = Append(met, next)
      BY <1>2, <1>4, <1>6 DEF Further
    <2>2. Append(met, next) \in Seq(Pids) \ {<<>>}
      BY <1>3, <1>6, AppendProperties, EmptySeq
    <2> QED  BY <1>3, <1>6, <2>1, <2>2
  <1> QED  BY <1>3, <1>5, <1>6

\* Ancestors is where the walk ends.
LEMMA WalksExist ==
    ASSUME NEW pid \in Pids, NEW parent \in [Pids -> Pids \cup {1}]
    PROVE  \E walk \in [1..Ancestry -> Seq(Pids) \ {<<>>}] :
             IsWalk(walk, pid, parent) /\ Icons!Ancestors(pid, parent) = walk[Ancestry]
  <1> DEFINE S == Seq(Pids) \ {<<>>}
             g == [met \in S |-> Further(met, parent)]
             a == <<pid>>
             N == Ancestry - 1
  <1>1. Ancestry \in Nat /\ Ancestry > 0 /\ N \in Nat
    BY ProcessesAreNumbers
  <1>2. g \in [S -> S] /\ a \in S
    BY FurtherIs
  <1>3. PICK f : Iteration(f, S, g, a, N)
    <2> HIDE DEF S, g, N, a
    <2> QED  BY <1>1, <1>2, Iterates
  <1> DEFINE walk == [n \in 1..Ancestry |-> f[n - 1]]
  <1> USE DEF Iteration
  <1>4. walk \in [1..Ancestry -> S]
    <2>1. \A n \in 1..Ancestry : n - 1 \in 0..N
      BY <1>1
    <2> HIDE DEF S, N
    <2> QED  BY <1>3, <2>1
  <1>5. IsWalk(walk, pid, parent)
    <2>1. ASSUME NEW n \in 1..Ancestry
          PROVE  f[n - 1] = IF n = 1 THEN <<pid>> ELSE Further(walk[n - 1], parent)
      <3>1. n - 1 \in 0..N /\ n \in Nat
        BY <1>1
      <3>2. CASE n = 1
        <4>1. n - 1 = 0
          BY <3>2
        <4> QED  BY <1>3, <3>1, <3>2, <4>1
      <3>3. CASE n # 1
        <4>1. n - 1 \in 1..Ancestry /\ (n - 1) - 1 \in 0..N /\ n - 1 # 0
          BY <1>1, <3>1, <3>3
        <4>2. f[n - 1] = g[f[(n - 1) - 1]]
          BY <1>3, <3>1, <4>1
        <4>3. walk[n - 1] = f[(n - 1) - 1] /\ f[(n - 1) - 1] \in S
          BY <1>3, <4>1
        <4> QED  BY <3>3, <4>2, <4>3
      <3> QED  BY <3>2, <3>3
    <2> QED  BY <2>1 DEF IsWalk
  <1> DEFINE C == CHOOSE w : IsWalk(w, pid, parent)
  <1>6. Icons!Ancestors(pid, parent) = C[Ancestry]
    BY DEF Icons!Ancestors, IsWalk, Further
  <1>7. IsWalk(C, pid, parent)
    BY <1>5
  <1> HIDE DEF C, walk
  <1>8. ASSUME NEW n \in 1..Ancestry PROVE C[n] \in S
    <2> DEFINE Bad == {m \in 1..Ancestry : C[m] \notin S}
    <2>1. Bad = {}
      <3> SUFFICES ASSUME Bad # {} PROVE FALSE
        OBVIOUS
      <3>1. PICK m \in Bad : \A j \in Bad : m <= j
        <4>1. Bad \subseteq Nat
          OBVIOUS
        <4> HIDE DEF Bad
        <4> QED  BY <4>1, LeastNumber
      <3>2. m \in 1..Ancestry /\ C[m] \notin S
        BY <3>1
      <3>3. C[m] = IF m = 1 THEN <<pid>> ELSE Further(C[m - 1], parent)
        BY <1>7, <3>2 DEF IsWalk
      <3>4. m # 1
        BY <3>2, <3>3
      <3>5. m - 1 \in 1..Ancestry /\ ~ (m <= m - 1)
        BY <1>1, <3>2, <3>4
      <3>6. C[m - 1] \in S
        BY <3>1, <3>5
      <3> QED  BY <3>2, <3>3, <3>4, <3>6, FurtherIs
    <2> QED  BY <2>1
  <1>9. C = [n \in 1..Ancestry |-> C[n]]
    BY <1>7 DEF IsWalk
  <1>10. C \in [1..Ancestry -> S]
    <2> HIDE DEF S
    <2> QED  BY <1>8, <1>9
  <1> QED  BY <1>6, <1>7, <1>10

\* The number of processes: no walk is longer.
Height == Cardinality(Pids)
\* The program whose icon is asked for is started by a process that is known.
Started == v1.pid \in Pids /\ v1.parent \in [Pids -> Pids \cup {1}]

\* Up goes from parent to parent and leaves the processes for good.
LEMMA UpIs ==
    ASSUME Started
    PROVE  /\ Height \in Nat
           /\ \A k \in 0..Height :
                Icons!Up[k] = IF k = 0 THEN v1.pid
                              ELSE IF Icons!Up[k - 1] \in Pids THEN v1.parent[Icons!Up[k - 1]] ELSE 0
           /\ \A k \in 0..Height : Icons!Up[k] \in Pids \cup {0, 1}
  <1> DEFINE S == Pids \cup {0, 1}
             g == [x \in S |-> IF x \in Pids THEN v1.parent[x] ELSE 0]
             a == v1.pid
             IsUp(U) == U = [k \in 0..Height |-> IF k = 0 THEN v1.pid
                              ELSE IF U[k - 1] \in Pids THEN v1.parent[U[k - 1]] ELSE 0]
  <1>1. Height \in Nat /\ Height = Icons!Cardinality(Pids)
    <2>1. Height \in Nat
      BY ProcessesAreNumbers, FS_CardinalityType DEF Height
    <2>2. Height = Icons!Cardinality(Pids)
      BY DEF Height, Cardinality, Icons!Cardinality, IsFiniteSet, Icons!IsFiniteSet
    <2> QED  BY <2>1, <2>2
  <1>2. g \in [S -> S] /\ a \in S
    BY DEF Started
  <1>3. PICK f : Iteration(f, S, g, a, Height)
    <2> HIDE DEF S, g, a
    <2> QED  BY <1>1, <1>2, Iterates
  <1>4. f = [k \in 0..Height |-> f[k]] /\ \A k \in 0..Height : f[k] \in S
    BY <1>3 DEF Iteration
  <1>5. ASSUME NEW k \in 0..Height
        PROVE  f[k] = IF k = 0 THEN v1.pid
                      ELSE IF f[k - 1] \in Pids THEN v1.parent[f[k - 1]] ELSE 0
    <2>1. CASE k = 0
      BY <1>3, <2>1 DEF Iteration
    <2>2. CASE k # 0
      <3>1. k - 1 \in 0..Height
        BY <1>1, <2>2
      <3>2. f[k] = g[f[k - 1]]
        <4> HIDE DEF g, a, S
        <4> QED  BY <1>3, <2>2 DEF Iteration
      <3> QED  BY <1>4, <2>2, <3>1, <3>2
    <2> QED  BY <2>1, <2>2
  <1>6. IsUp(f)
    <2> HIDE DEF S, g, a
    <2> QED  BY <1>4, <1>5
  <1>7. Icons!Up = CHOOSE U : IsUp(U)
    BY <1>1 DEF Icons!Up
  <1>8. IsUp(Icons!Up)
    <2> HIDE DEF IsUp
    <2> QED  BY <1>6, <1>7
  <1>9. \A k \in 0..Height :
           Icons!Up[k] = IF k = 0 THEN v1.pid
                         ELSE IF Icons!Up[k - 1] \in Pids THEN v1.parent[Icons!Up[k - 1]] ELSE 0
    BY <1>8
  <1>10. \A k \in 0..Height : Icons!Up[k] \in Pids \cup {0, 1}
    BY <1>9 DEF Started
  <1> QED  BY <1>1, <1>9, <1>10

\* Above a process that is gone there is none.
LEMMA GoneForGood ==
    ASSUME Started, NEW m \in 0..Height, Icons!Up[m] \notin Pids,
           NEW k \in 0..Height, m <= k
    PROVE  Icons!Up[k] \notin Pids
  <1> DEFINE U(i) == Icons!Up[i]
             Bad == {i \in 0..Height : m <= i /\ U(i) \in Pids}
  <1>1. Height \in Nat /\ Pids \subseteq Nat \ {0, 1}
    BY UpIs, ProcessesAreNumbers
  <1>2. Bad = {}
    <2> SUFFICES ASSUME Bad # {} PROVE FALSE
      OBVIOUS
    <2>1. PICK i \in Bad : \A j \in Bad : i <= j
      <3>1. Bad \subseteq Nat
        BY <1>1
      <3> HIDE DEF Bad
      <3> QED  BY <3>1, LeastNumber
    <2>2. i \in 0..Height /\ m <= i /\ i # m /\ U(i) \in Pids
      BY <2>1
    <2>3. i - 1 \in 0..Height /\ m <= i - 1 /\ ~ (i <= i - 1) /\ i # 0
      BY <1>1, <2>2
    <2>4. U(i - 1) \notin Pids
      BY <2>1, <2>3
    <2>5. U(i) = 0
      BY <2>2, <2>3, <2>4, UpIs
    <2> QED  BY <1>1, <2>2, <2>5
  <1> QED  BY <1>2

\* Once a process is met again, all that follow it are.
LEMMA SameAgain ==
    ASSUME Started, NEW m \in 0..Height, NEW j \in 0..Height, Icons!Up[m] = Icons!Up[j],
           j < m, NEW k \in 0..Height, m <= k
    PROVE  Icons!Up[k] = Icons!Up[k - (m - j)]
  <1> DEFINE U(i) == Icons!Up[i]
             Bad == {i \in 0..Height : m <= i /\ U(i) # U(i - (m - j))}
  <1>1. Height \in Nat
    BY UpIs
  <1>2. Bad = {}
    <2> SUFFICES ASSUME Bad # {} PROVE FALSE
      OBVIOUS
    <2>1. PICK i \in Bad : \A l \in Bad : i <= l
      <3>1. Bad \subseteq Nat
        BY <1>1
      <3> HIDE DEF Bad
      <3> QED  BY <3>1, LeastNumber
    <2>2. i \in 0..Height /\ m <= i /\ U(i) # U(i - (m - j))
      BY <2>1
    <2>3. i # m
      <3>1. m - (m - j) = j
        BY <1>1
      <3> QED  BY <2>2, <3>1
    <2>4. /\ i - 1 \in 0..Height /\ m <= i - 1 /\ ~ (i <= i - 1) /\ i # 0
          /\ i - (m - j) \in 0..Height /\ i - (m - j) # 0
          /\ (i - 1) - (m - j) = (i - (m - j)) - 1
      BY <1>1, <2>2, <2>3
    <2>5. U(i - 1) = U((i - (m - j)) - 1)
      BY <2>1, <2>4
    <2>6. U(i) = IF U(i - 1) \in Pids THEN v1.parent[U(i - 1)] ELSE 0
      BY <2>2, <2>4, UpIs
    <2> DEFINE l == i - (m - j)
    <2>7. U(l) = IF U(l - 1) \in Pids THEN v1.parent[U(l - 1)] ELSE 0
      <3>1. l \in 0..Height /\ l # 0
        BY <2>4
      <3> HIDE DEF l
      <3> QED  BY <3>1, UpIs
    <2> QED  BY <2>2, <2>5, <2>6, <2>7
  <1> QED  BY <1>2

\* A sequence of different processes is no longer than there are processes.
LEMMA DifferentAreFew ==
    ASSUME NEW w \in Seq(Pids), \A i, j \in 1..Len(w) : w[i] = w[j] => i = j
    PROVE  Len(w) <= Height
  <1>1. Len(w) \in Nat /\ w \in [1..Len(w) -> Pids]
    BY LenProperties
  <1>2. IsFiniteSet(1..Len(w)) /\ Cardinality(1..Len(w)) = Len(w)
    <2> DEFINE l == Len(w)
    <2>1. l \in Nat
      BY <1>1
    <2> HIDE DEF l
    <2>2. IsFiniteSet(1..l) /\ Cardinality(1..l) = IF 1 > l THEN 0 ELSE l - 1 + 1
      BY <2>1, FS_Interval
    <2>3. Cardinality(1..l) = l
      BY <2>1, <2>2
    <2> QED  BY <2>2, <2>3 DEF l
  <1>3. w \in Injection(1..Len(w), Pids)
    BY <1>1 DEF Injection, IsInjective
  <1>4. Cardinality(1..Len(w)) <= Cardinality(Pids)
    <2> DEFINE D == 1..Len(w)
    <2>1. w \in Injection(D, Pids) /\ IsFiniteSet(Pids)
      BY <1>3, ProcessesAreNumbers
    <2> HIDE DEF D
    <2>2. Cardinality(D) <= Cardinality(Pids)
      BY <2>1, FS_Injection
    <2> QED  BY <2>2 DEF D
  <1> QED  BY <1>2, <1>4 DEF Height

\* The walk goes up, and stops only at init or where it was.
Follows(w, n) ==
    /\ Len(w) \in 1..n /\ Len(w) <= Height
    /\ \A i \in 1..Len(w) : w[i] = Icons!Up[i - 1]
    /\ \A i, j \in 1..Len(w) : w[i] = w[j] => i = j
    /\ Len(w) = n \/ Icons!Up[Len(w)] = 1 \/ \E j \in 1..Len(w) : Icons!Up[Len(w)] = Icons!Up[j - 1]

\* A step of the walk.
LEMMA FollowsFurther ==
    ASSUME Started, NEW w \in Seq(Pids), NEW n, n \in Nat, n > 0, Follows(w, n)
    PROVE  Follows(Further(w, v1.parent), n + 1)
  <1> DEFINE m == Len(w)
             next == v1.parent[w[m]]
  <1>1. m \in Nat /\ m > 0 /\ m <= n /\ m <= Height /\ Height \in Nat /\ m \in 1..m /\ m - 1 \in 0..Height
    BY UpIs, LenProperties DEF Follows
  <1>2. w[m] = Icons!Up[m - 1] /\ w[m] \in Pids
    BY <1>1, ElementOfSeq DEF Follows
  <1>3. Icons!Up[m] = next
    <2>1. m \in 0..Height /\ m # 0
      BY <1>1
    <2> HIDE DEF m
    <2> QED  BY <1>2, <2>1, UpIs DEF next
  <1>4. w # <<>>
    BY <1>1, EmptySeq
  <1>5. v1.parent \in [Pids -> Pids \cup {1}]
    BY DEF Started
  <1>6. CASE next = 1 \/ \E i \in 1..m : next = w[i]
    <2>1. Further(w, v1.parent) = w
      BY <1>4, <1>5, <1>6, FurtherIs
    <2>2. Icons!Up[m] = 1 \/ \E j \in 1..m : Icons!Up[m] = Icons!Up[j - 1]
      BY <1>3, <1>6 DEF Follows
    <2>3. m \in 1..(n + 1)
      BY <1>1
    <2> QED  BY <2>1, <2>2, <2>3 DEF Follows
  <1>7. CASE next # 1 /\ \A i \in 1..m : next # w[i]
    <2> DEFINE x == Append(w, next)
    <2>1. Further(w, v1.parent) = x /\ next \in Pids
      BY <1>4, <1>5, <1>7, FurtherIs
    <2>2. /\ x \in Seq(Pids) /\ Len(x) = m + 1 /\ x[m + 1] = next
          /\ \A i \in 1..m : x[i] = w[i]
      BY <2>1, AppendProperties
    <2>3. \A i \in 1..(m + 1) : i = m + 1 \/ i \in 1..m
      BY <1>1
    <2> HIDE DEF x, m, next
    <2>4. \A i, j \in 1..(m + 1) : x[i] = x[j] => i = j
      <3>1. \A i, j \in 1..m : w[i] = w[j] => i = j
        BY DEF Follows, m
      <3> QED  BY <1>7, <2>2, <2>3, <3>1
    <2>5. m + 1 <= Height
      BY <2>2, <2>4, DifferentAreFew
    <2>6. \A i \in 1..(m + 1) : x[i] = Icons!Up[i - 1]
      <3>1. \A i \in 1..m : w[i] = Icons!Up[i - 1]
        BY DEF Follows, m
      <3>2. (m + 1) - 1 = m
        BY <1>1
      <3> QED  BY <1>3, <2>2, <2>3, <3>1, <3>2
    <2>7. m = n
      <3>1. \A i \in 1..m : w[i] = Icons!Up[i - 1]
        BY DEF Follows, m
      <3> QED  BY <1>3, <1>7, <3>1 DEF Follows, m
    <2>8. Len(x) \in 1..(n + 1) /\ Len(x) = n + 1
      BY <1>1, <2>2, <2>7
    <2> QED  BY <2>1, <2>2, <2>4, <2>5, <2>6, <2>8 DEF Follows
  <1> QED  BY <1>6, <1>7

\* The walk is up.
LEMMA WalkFollows ==
    ASSUME Started
    PROVE  /\ Icons!Ancestors(v1.pid, v1.parent) \in Seq(Pids)
           /\ Follows(Icons!Ancestors(v1.pid, v1.parent), Ancestry)
  <1>1. PICK walk \in [1..Ancestry -> Seq(Pids) \ {<<>>}] :
          IsWalk(walk, v1.pid, v1.parent) /\ Icons!Ancestors(v1.pid, v1.parent) = walk[Ancestry]
    BY WalksExist DEF Started
  <1>2. Ancestry \in Nat /\ Ancestry > 0
    BY ProcessesAreNumbers
  <1> DEFINE Bad == {n \in 1..Ancestry : ~ Follows(walk[n], n)}
  <1>3. Bad = {}
    <2> SUFFICES ASSUME Bad # {} PROVE FALSE
      OBVIOUS
    <2>1. PICK n \in Bad : \A l \in Bad : n <= l
      <3>1. Bad \subseteq Nat
        BY <1>2
      <3> HIDE DEF Bad
      <3> QED  BY <3>1, LeastNumber
    <2>2. n \in 1..Ancestry /\ ~ Follows(walk[n], n)
      BY <2>1
    <2>3. walk[n] = IF n = 1 THEN <<v1.pid>> ELSE Further(walk[n - 1], v1.parent)
      BY <1>1, <2>2 DEF IsWalk
    <2>4. CASE n = 1
      <3> DEFINE w == <<v1.pid>>
      <3>1. w \in Seq(Pids) /\ Len(w) = 1 /\ w[1] = v1.pid
        BY DEF Started
      <3>2. \A i \in 1..1 : i = 1
        OBVIOUS
      <3> HIDE DEF w
      <3>3. \A i, j \in 1..Len(w) : w[i] = w[j] => i = j
        BY <3>1, <3>2
      <3>4. Len(w) <= Height
        BY <3>1, <3>3, DifferentAreFew
      <3>5. \A i \in 1..Len(w) : w[i] = Icons!Up[i - 1]
        <4>1. 1 - 1 = 0 /\ 0 \in 0..Height
          BY UpIs
        <4>2. Icons!Up[0] = v1.pid
          BY <4>1, UpIs
        <4> QED  BY <3>1, <3>2, <4>1, <4>2
      <3>6. Follows(w, 1)
        BY <3>1, <3>3, <3>4, <3>5 DEF Follows
      <3> QED  BY <2>2, <2>3, <2>4, <3>6 DEF w
    <2>5. CASE n # 1
      <3> DEFINE k == n - 1
      <3>1. k \in 1..Ancestry /\ k \in Nat /\ k > 0 /\ ~ (n <= k) /\ n = k + 1
        BY <1>2, <2>2, <2>5
      <3>2. walk[k] \in Seq(Pids) /\ Follows(walk[k], k)
        BY <1>1, <2>1, <3>1
      <3> HIDE DEF k
      <3>3. Follows(Further(walk[k], v1.parent), k + 1)
        BY <3>1, <3>2, FollowsFurther
      <3>4. walk[n] = Further(walk[k], v1.parent)
        BY <2>3, <2>5 DEF k
      <3> QED  BY <2>2, <3>1, <3>3, <3>4
    <2> QED  BY <2>4, <2>5
  <1>4. Ancestry \in 1..Ancestry
    BY <1>2
  <1> QED  BY <1>1, <1>3, <1>4

\* The least of a set of numbers.
LEMMA MinIs ==
    ASSUME NEW S, S \subseteq Nat, NEW k, k \in S, \A l \in S : k <= l
    PROVE  Icons!Min(S) = k
  <1>1. ASSUME NEW x \in S, \A y \in S : x <= y PROVE x = k
    <2>1. x \in Nat /\ k \in Nat /\ x <= k /\ k <= x
      BY <1>1
    <2> QED  BY <2>1
  <1> DEFINE x == Icons!Min(S)
  <1>2. x \in S /\ \A y \in S : x <= y
    BY DEF Icons!Min
  <1> HIDE DEF x
  <1> QED  BY <1>1, <1>2 DEF x

\* The processes that tell a game, counted upward.
Telling == {k \in 0..Height : k < Ancestry /\ Icons!Up[k] \in Pids /\ v1.told[Icons!Up[k]] # 0}
\* The first of them is on the walk.
LEMMA NearestIsMet ==
    ASSUME Started, NEW k \in Telling, \A l \in Telling : k <= l
    PROVE  k < Len(Icons!Ancestors(v1.pid, v1.parent))
  <1> DEFINE m == Len(Icons!Ancestors(v1.pid, v1.parent))
  <1>1. /\ m \in 1..Ancestry /\ m \in Nat /\ m > 0 /\ m <= Height
        /\ m = Ancestry \/ Icons!Up[m] = 1 \/ \E j \in 1..m : Icons!Up[m] = Icons!Up[j - 1]
    BY WalkFollows, ProcessesAreNumbers DEF Follows
  <1>2. Height \in Nat /\ Pids \subseteq Nat \ {0, 1} /\ Ancestry \in Nat
    BY UpIs, ProcessesAreNumbers
  <1>3. k \in 0..Height /\ k < Ancestry /\ Icons!Up[k] \in Pids /\ v1.told[Icons!Up[k]] # 0
    BY DEF Telling
  <1> HIDE DEF m
  <1> SUFFICES ASSUME m <= k PROVE FALSE
    <2>1. k < m
      BY <1>1, <1>2, <1>3
    <2> QED  BY <2>1 DEF m
  <1>4. m \in 0..Height /\ m # Ancestry
    BY <1>1, <1>2, <1>3
  <1>5. CASE Icons!Up[m] = 1
    <2>1. Icons!Up[m] \notin Pids
      BY <1>2, <1>5
    <2> QED  BY <1>3, <1>4, <2>1, GoneForGood
  <1>6. CASE \E j \in 1..m : Icons!Up[m] = Icons!Up[j - 1]
    <2>1. PICK j \in 1..m : Icons!Up[m] = Icons!Up[j - 1]
      BY <1>6
    <2> DEFINE h == j - 1
               l == k - (m - h)
    <2>2. h \in 0..Height /\ h < m /\ l \in 0..Height /\ l < Ancestry /\ ~ (k <= l)
      BY <1>1, <1>2, <1>3, <1>4
    <2>3. Icons!Up[m] = Icons!Up[h]
      BY <2>1
    <2> HIDE DEF h
    <2>4. Icons!Up[k] = Icons!Up[k - (m - h)]
      BY <1>3, <1>4, <2>2, <2>3, SameAgain
    <2>5. l \in Telling
      BY <1>3, <2>2, <2>4 DEF Telling
    <2> QED  BY <2>2, <2>5
  <1> QED  BY <1>1, <1>4, <1>5, <1>6

\* The game told is the one the nearest process tells that tells any.
LEMMA GameIsTold ==
    ASSUME Started, NEW k \in Telling, \A l \in Telling : k <= l
    PROVE  Icons!SteamAppid(v1) = v1.told[Icons!Up[k]]
  <1> DEFINE w == Icons!Ancestors(v1.pid, v1.parent)
             m == Len(w)
             T == {i \in DOMAIN w : v1.told[w[i]] # 0}
  <1>1. /\ w \in Seq(Pids) /\ m \in 1..Ancestry /\ m \in Nat /\ m <= Height
        /\ \A i \in 1..m : w[i] = Icons!Up[i - 1]
    BY WalkFollows, ProcessesAreNumbers DEF Follows
  <1>2. Height \in Nat /\ Ancestry \in Nat
    BY UpIs, ProcessesAreNumbers
  <1>3. k < m
    BY NearestIsMet
  <1>4. k \in 0..Height /\ k \in Nat /\ v1.told[Icons!Up[k]] # 0
    BY <1>2 DEF Telling
  <1>5. DOMAIN w = 1..m /\ \A i \in 1..m : w[i] \in Pids
    BY <1>1, LenProperties, ElementOfSeq
  <1> HIDE DEF w, m
  <1>6. k + 1 \in 1..m /\ (k + 1) - 1 = k
    BY <1>1, <1>3, <1>4
  <1>7. w[k + 1] = Icons!Up[k]
    BY <1>1, <1>6
  <1>8. k + 1 \in T
    BY <1>4, <1>5, <1>6, <1>7
  <1>9. ASSUME NEW i \in T PROVE k + 1 <= i
    <2>1. i \in 1..m /\ v1.told[w[i]] # 0 /\ w[i] \in Pids /\ w[i] = Icons!Up[i - 1]
      BY <1>1, <1>5, <1>9
    <2>2. i - 1 \in 0..Height /\ i - 1 < Ancestry
      BY <1>1, <1>2, <2>1
    <2>3. i - 1 \in Telling
      BY <2>1, <2>2 DEF Telling
    <2>4. k <= i - 1
      BY <2>3
    <2> QED  BY <1>1, <1>4, <2>1, <2>4
  <1>10. T \subseteq Nat
    BY <1>5
  <1> HIDE DEF T
  <1>11. Icons!Min(T) = k + 1
    BY <1>8, <1>9, <1>10, MinIs
  <1>12. Icons!SteamAppid(v1) = IF T = {} THEN 0 ELSE v1.told[w[Icons!Min(T)]]
    BY DEF Icons!SteamAppid, T, w
  <1> QED  BY <1>7, <1>8, <1>11, <1>12

\* The nearest one exists if any does.
LEMMA NearestIs ==
    ASSUME Started, Telling # {}
    PROVE  Icons!Min(Telling) \in Telling /\ \A l \in Telling : Icons!Min(Telling) <= l
  <1>1. Telling \subseteq Nat
    BY UpIs DEF Telling
  <1>2. \E k \in Telling : \A l \in Telling : k <= l
    BY <1>1, LeastNumber
  <1> QED  BY <1>2 DEF Icons!Min

\* The first of five sources that has an icon.
LEMMA FirstOfFive ==
    ASSUME NEW a, NEW b, NEW c, NEW e, NEW f
    PROVE  Icons!FirstIcon(<<a, b, c, e, f>>) =
             IF a # Icons!NoIcon THEN a ELSE IF b # Icons!NoIcon THEN b
             ELSE IF c # Icons!NoIcon THEN c ELSE IF e # Icons!NoIcon THEN e
             ELSE IF f # Icons!NoIcon THEN f ELSE Icons!NoIcon
  <1> DEFINE s == <<a, b, c, e, f>>
             found == {i \in DOMAIN s : s[i] # Icons!NoIcon}
  <1>1. DOMAIN s = {1, 2, 3, 4, 5} /\ s[1] = a /\ s[2] = b /\ s[3] = c /\ s[4] = e /\ s[5] = f
    OBVIOUS
  <1>2. Icons!FirstIcon(s) = IF found = {} THEN Icons!NoIcon ELSE s[Icons!Min(found)]
    BY DEF Icons!FirstIcon
  <1> HIDE DEF s
  <1>3. ASSUME NEW i \in found, \A j \in found : i <= j PROVE Icons!Min(found) = i
    <2>1. found \subseteq Nat
      BY <1>1
    <2> HIDE DEF found
    <2> QED  BY <1>3, <2>1, MinIs
  <1>4. CASE a # Icons!NoIcon
    <2>1. 1 \in found /\ \A j \in found : 1 <= j
      BY <1>1, <1>4
    <2>2. Icons!Min(found) = 1
      BY <2>1, <1>3
    <2> QED  BY <1>1, <1>2, <1>4, <2>1, <2>2 DEF s
  <1>5. CASE a = Icons!NoIcon /\ b # Icons!NoIcon
    <2>1. 2 \in found /\ \A j \in found : 2 <= j
      BY <1>1, <1>5
    <2>2. Icons!Min(found) = 2
      BY <2>1, <1>3
    <2> QED  BY <1>1, <1>2, <1>5, <2>1, <2>2 DEF s
  <1>6. CASE a = Icons!NoIcon /\ b = Icons!NoIcon /\ c # Icons!NoIcon
    <2>1. 3 \in found /\ \A j \in found : 3 <= j
      BY <1>1, <1>6
    <2>2. Icons!Min(found) = 3
      BY <2>1, <1>3
    <2> QED  BY <1>1, <1>2, <1>6, <2>1, <2>2 DEF s
  <1>7. CASE a = Icons!NoIcon /\ b = Icons!NoIcon /\ c = Icons!NoIcon /\ e # Icons!NoIcon
    <2>1. 4 \in found /\ \A j \in found : 4 <= j
      BY <1>1, <1>7
    <2>2. Icons!Min(found) = 4
      BY <2>1, <1>3
    <2> QED  BY <1>1, <1>2, <1>7, <2>1, <2>2 DEF s
  <1>8. CASE /\ a = Icons!NoIcon /\ b = Icons!NoIcon /\ c = Icons!NoIcon /\ e = Icons!NoIcon
             /\ f # Icons!NoIcon
    <2>1. 5 \in found /\ \A j \in found : 5 <= j
      BY <1>1, <1>8
    <2>2. Icons!Min(found) = 5
      BY <2>1, <1>3
    <2> QED  BY <1>1, <1>2, <1>8, <2>1, <2>2 DEF s
  <1>9. CASE /\ a = Icons!NoIcon /\ b = Icons!NoIcon /\ c = Icons!NoIcon /\ e = Icons!NoIcon
             /\ f = Icons!NoIcon
    <2>1. found = {}
      BY <1>1, <1>9
    <2> QED  BY <1>2, <1>9, <2>1 DEF s
  <1> QED  BY <1>4, <1>5, <1>6, <1>7, <1>8, <1>9

\* The programs asked for are such.
LEMMA ProgramsAreStarted ==
    ASSUME v1 \in Icons!Programs
    PROVE  /\ Started
           /\ v1.icon \subseteq Games /\ v1.match \in [Games -> {0, 55, 100}]
           /\ v1.explicit \in {"none", "named", "file"} /\ v1.guess \in {"named", "file"}
           /\ v1.desktop \in {"none", "file"} /\ v1.local \in BOOLEAN /\ v1.wine \in BOOLEAN
  <1>1. Icons!Min(Pids) \in Pids
    <2>1. \E k \in Pids : \A l \in Pids : k <= l
      <3>1. Pids \subseteq Nat /\ Pids # {}
        BY ProcessesAreNumbers
      <3> QED  BY <3>1, LeastNumber
    <2> QED  BY <2>1 DEF Icons!Min
  <1> QED  BY <1>1 DEF Icons!Programs, Started

\* The best of the games that fit.
LEMMA BestFits ==
    ASSUME NEW match \in [Games -> {0, 55, 100}], NEW fits \in SUBSET Games, fits # {}
    PROVE  \E g \in fits : \A h \in fits : match[h] <= match[g]
  <1>1. CASE \E g \in fits : match[g] = 100
    BY <1>1
  <1>2. CASE (\A g \in fits : match[g] # 100) /\ \E g \in fits : match[g] = 55
    BY <1>2
  <1>3. CASE \A g \in fits : match[g] = 0
    BY <1>3
  <1> QED  BY <1>1, <1>2, <1>3

\* What the sources of a program hold.
LEMMA IconsAre ==
    ASSUME v1 \in Icons!Programs
    PROVE  /\ \A i \in Icons!Icons(v1) : \E s \in Icons!SteamIcon(v1) : i = Icons!FirstIcon(Icons!Order(v1, s))
           /\ \A s \in Icons!SteamIcon(v1) : Icons!FirstIcon(Icons!Order(v1,
               s)) \in Icons!Icons(v1)
           /\ \A s : s # Icons!NoIcon /\ v1.wine /\ v1.explicit # "file" =>
                 Icons!FirstIcon(Icons!Order(v1, s)) = s
           /\ \A s : Icons!FirstIcon(Icons!Order(v1, s)) = Icons!NoIcon =>
                 /\ s = Icons!NoIcon
                 /\ v1.explicit # "file" /\ v1.guess # "file" /\ v1.desktop # "file" /\ ~v1.local
  <1> DEFINE explicit == Icons!Found("explicit", v1.explicit)
             own == Icons!Found("local", IF v1.local THEN "file" ELSE "none")
             desktop == Icons!Found("desktop", v1.desktop)
             guess == Icons!Found("guess", v1.guess)
  <1>1. /\ v1.wine \in BOOLEAN /\ v1.local \in BOOLEAN
    BY ProgramsAreStarted
  <1>2. ASSUME NEW source, source # "nowhere", NEW x
        PROVE  (Icons!Found(source, x) = Icons!NoIcon) <=> x # "file"
    BY <1>2 DEF Icons!Found, Icons!NoIcon
  <1>3. /\ (explicit = Icons!NoIcon) <=> v1.explicit # "file"
        /\ (guess = Icons!NoIcon) <=> v1.guess # "file"
        /\ (desktop = Icons!NoIcon) <=> v1.desktop # "file"
        /\ (own = Icons!NoIcon) <=> ~v1.local
    BY <1>1, <1>2
  <1>4. ASSUME NEW s
        PROVE  Icons!Order(v1, s) = IF v1.wine THEN <<explicit, s, desktop, own, guess>>
                                    ELSE <<explicit, guess, s, desktop, own>>
    BY DEF Icons!Order
  <1> HIDE DEF explicit, own, desktop, guess
  <1>5. ASSUME NEW s, s # Icons!NoIcon, v1.wine, v1.explicit # "file"
        PROVE  Icons!FirstIcon(Icons!Order(v1, s)) = s
    BY <1>3, <1>4, <1>5, FirstOfFive
  <1>6. ASSUME NEW s, Icons!FirstIcon(Icons!Order(v1, s)) = Icons!NoIcon
        PROVE  /\ s = Icons!NoIcon
               /\ v1.explicit # "file" /\ v1.guess # "file" /\ v1.desktop # "file" /\ ~v1.local
    <2>1. CASE v1.wine
      BY <1>3, <1>4, <1>6, <2>1, FirstOfFive
    <2>2. CASE ~v1.wine
      BY <1>3, <1>4, <1>6, <2>2, FirstOfFive
    <2> QED  BY <2>1, <2>2
  <1>7. /\ \A i \in Icons!Icons(v1) : \E s \in Icons!SteamIcon(v1) : i = Icons!FirstIcon(Icons!Order(v1, s))
        /\ \A s \in Icons!SteamIcon(v1) : Icons!FirstIcon(Icons!Order(v1, s)) \in Icons!Icons(v1)
    BY DEF Icons!Icons
  <1> QED  BY <1>5, <1>6, <1>7

\* The right icon is found (resolve_app_icon, _steam_icon_for_app, _process_ancestor_pids).
LEMMA IconIsRight == ASSUME v1 \in Icons!Programs PROVE Icons!RightIconIsFound
  <1>1. Started
    BY ProgramsAreStarted
  <1> DEFINE game == v1.told[Icons!Up[Icons!Min(Telling)]]
  <1>2. ASSUME Telling # {} PROVE Icons!SteamAppid(v1) = game
    <2> DEFINE k == Icons!Min(Telling)
    <2>1. k \in Telling /\ \A l \in Telling : k <= l
      BY <1>1, <1>2, NearestIs
    <2> HIDE DEF k
    <2>2. Icons!SteamAppid(v1) = v1.told[Icons!Up[k]]
      BY <1>1, <2>1, GameIsTold
    <2> QED  BY <2>2 DEF k
  <1> HIDE DEF game
  <1>3. ASSUME v1.wine, v1.explicit # "file", Telling # {}, game \in v1.icon
        PROVE  Icons!Icons(v1) = {[from |-> "game", game |-> game]}
    <2> DEFINE s == [from |-> "game", game |-> game]
    <2>1. Icons!SteamIcon(v1) = {s}
      BY <1>2, <1>3 DEF Icons!SteamIcon
    <2>2. s # Icons!NoIcon
      BY DEF Icons!NoIcon
    <2> HIDE DEF s
    <2>3. Icons!FirstIcon(Icons!Order(v1, s)) = s
      BY <1>3, <2>2, IconsAre
    <2>4. Icons!Icons(v1) = {s}
      BY <2>1, <2>3 DEF Icons!Icons
    <2> QED  BY <2>4 DEF s
  <1>4. ASSUME Icons!NoIcon \in Icons!Icons(v1)
        PROVE  /\ v1.explicit # "file" /\ v1.guess # "file" /\ v1.desktop # "file" /\ ~v1.local
               /\ \A g \in v1.icon : v1.match[g] = 0 /\ (Telling # {} => game # g)
    <2>1. PICK s \in Icons!SteamIcon(v1) : Icons!NoIcon = Icons!FirstIcon(Icons!Order(v1, s))
      BY <1>4, IconsAre
    <2>2. s = Icons!NoIcon /\ v1.explicit # "file" /\ v1.guess # "file" /\ v1.desktop # "file" /\ ~v1.local
      BY <2>1, IconsAre
    <2> DEFINE told == Icons!SteamAppid(v1)
               fits == {g \in v1.icon : v1.match[g] > 0}
               best == {g \in fits : \A h \in fits : v1.match[h] <= v1.match[g]}
    <2>3. Icons!SteamIcon(v1) = IF told \in v1.icon THEN {[from |-> "game", game |-> told]}
                                ELSE IF best = {} THEN {Icons!NoIcon}
                                ELSE {[from |-> "game", game |-> g] : g \in best}
      BY DEF Icons!SteamIcon
    <2>4. \A g : [from |-> "game", game |-> g] # Icons!NoIcon
      BY DEF Icons!NoIcon
    <2>5. told \notin v1.icon /\ best = {}
      <3> HIDE DEF told, best
      <3> QED  BY <2>1, <2>2, <2>3, <2>4
    <2>6. fits = {}
      <3>1. fits \in SUBSET Games /\ v1.match \in [Games -> {0, 55, 100}]
        BY ProgramsAreStarted
      <3> HIDE DEF fits
      <3>2. fits # {} => \E g \in fits : \A h \in fits : v1.match[h] <= v1.match[g]
        BY <3>1, BestFits
      <3> QED  BY <2>5, <3>2
    <2>7. ASSUME NEW g \in v1.icon PROVE v1.match[g] = 0 /\ (Telling # {} => game # g)
      <3>1. v1.match[g] \in {0, 55, 100} /\ ~ (v1.match[g] > 0)
        BY <2>6, <2>7, ProgramsAreStarted
      <3>2. Telling # {} => game # g
        BY <1>2, <2>5, <2>7
      <3> QED  BY <3>1, <3>2
    <2> QED  BY <2>2, <2>7
  <1>5. Height = Icons!Cardinality(Pids)
    BY DEF Height, Cardinality, Icons!Cardinality, IsFiniteSet, Icons!IsFiniteSet
  <1>6. Telling = {k \in 0..Icons!Cardinality(Pids) : k < Ancestry /\ Icons!Up[k] \in Pids /\ v1.told[Icons!Up[k]] # 0}
    BY <1>5 DEF Telling
  <1>7. "file" \notin {v1.explicit, v1.guess, v1.desktop} <=>
          v1.explicit # "file" /\ v1.guess # "file" /\ v1.desktop # "file"
    OBVIOUS
  <1> HIDE DEF Telling, Icons!Icons
  <1> QED  BY <1>3, <1>4, <1>6, <1>7 DEF Icons!RightIconIsFound, game

\* The icon asked for is one of those a program can have.
IconInv == v1 \in Icons!Programs

LEMMA IconAtStart == ASSUME Icons!IconInit PROVE IconInv
  BY DEF Icons!IconInit, IconInv

(***************************************************************************)
(* The bodies of mails.                                                    *)
(***************************************************************************)
\* The definitions that Folds_proofs brings of the texts kept are those of Body, ...
LEMMA SameTexts == Body!TextsOutsideAreKept <=> Passes!TextsOutsideAreKept
  BY DEF Body!TextsOutsideAreKept, Passes!TextsOutsideAreKept, Body!WellClosed, Passes!WellClosed,
     Body!Closes, Passes!Closes, Body!Dropped, Passes!Dropped, Body!TextsKept, Passes!TextsKept,
     Body!FoldLeftDomain, Passes!FoldLeftDomain, Body!FoldLeft, Passes!FoldLeft,
     Body!MapThenFoldSet, Passes!MapThenFoldSet, Body!Outside, Passes!Outside, Body!Max, Passes!Max,
     Body!HandleToken, Passes!HandleToken, Body!SkipStep, Passes!SkipStep, Body!Front, Passes!Front,
     Body!Cardinality, Passes!Cardinality, Body!IsFiniteSet, Passes!IsFiniteSet

\* ... and so are those of the reader view, ...
LEMMA SameReader == Body!ReaderIsWellFormed <=> Passes!ReaderIsWellFormed
  BY DEF Body!ReaderIsWellFormed, Passes!ReaderIsWellFormed, Body!ReaderHtml, Passes!ReaderHtml,
     Body!CleanReaderText, Passes!CleanReaderText, Body!CleanStep, Passes!CleanStep,
     Body!Contains, Passes!Contains, Body!FoldLeft, Passes!FoldLeft,
     Body!MapThenFoldSet, Passes!MapThenFoldSet, Body!Max, Passes!Max, Body!Front, Passes!Front,
     Body!Close, Passes!Close, Body!Open, Passes!Open, Body!RenderReader, Passes!RenderReader,
     Body!RenderLine, Passes!RenderLine, Body!ListOpen, Passes!ListOpen,
     Body!Cardinality, Passes!Cardinality, Body!IsFiniteSet, Passes!IsFiniteSet

\* ... of saved copies ...
LEMMA SameSaved == Body!UpgradeSettles <=> Passes!UpgradeSettles
  BY DEF Body!UpgradeSettles, Passes!UpgradeSettles, Body!Upgrade, Passes!Upgrade,
     Body!Fresh, Passes!Fresh, Body!AsReader, Passes!AsReader, Body!Larger, Passes!Larger,
     Body!CenteredHtml, Passes!CenteredHtml, Body!Centered, Passes!Centered, Body!NoHtml,
     Passes!NoHtml

\* ... and of the messages a mailbox can hold.
LEMMA SameCases == Body!MailCases = Passes!MailCases
  BY DEF Body!MailCases, Passes!MailCases, Body!SeqOf, Passes!SeqOf, Body!Token, Passes!Token,
     Body!Dropped, Passes!Dropped, Body!Line, Passes!Line, Body!Saved, Passes!Saved,
     Body!Html, Passes!Html, Body!NoHtml, Passes!NoHtml

\* The bounds on the length of a body are what Folds_proofs assumes of them.
LEMMA BodiesCanBeLong == Passes!BodiesAreBounded
  BY BodiesAreFinite DEF Passes!BodiesAreBounded

\* The message is one of those a mailbox can hold.
LEMMA BodyAtStart == ASSUME v1 \in Body!MailCases PROVE Passes!BodyInv
  BY SameCases DEF Passes!BodyInv

\* Then its texts are kept, its reader view is well formed and its saved copy settles.
LEMMA BodyIsRight ==
    ASSUME Passes!BodyInv
    PROVE  Body!TextsOutsideAreKept /\ Body!ReaderIsWellFormed /\ Body!UpgradeSettles
  BY BodiesCanBeLong, Passes!BodiesAreRight, SameTexts, SameReader, SameSaved

(***************************************************************************)
(* What the Explorer's helper answers.                                     *)
(***************************************************************************)
\* Times, limits and bounds are what Folds_proofs assumes of them.
LEMMA QueriesCanBeCounted == Passes!QueriesCount
  BY QueriesAreFinite DEF Passes!QueriesCount, Passes!IsFiniteSet, IsFiniteSet

\* The definitions that Folds_proofs brings of the recent files are those of Queries, ...
LEMMA SameLatest == \A s, places, n : Queries!Latest(s, places, n) = Passes!Latest(s, places, n)
  <1>1. \A s, i, k : Queries!Older(s, i, k) <=> Passes!Older(s, i, k)
    BY DEF Queries!Older, Passes!Older
  <1>2. \A s, places : Queries!NewestFirst(s, places) = Passes!NewestFirst(s, places)
    BY <1>1
    DEF Queries!NewestFirst, Passes!NewestFirst, Queries!ToSet, Passes!ToSet,
        Queries!Cardinality, Passes!Cardinality, Queries!IsFiniteSet, Passes!IsFiniteSet
  <1> QED  BY <1>2 DEF Queries!Latest, Passes!Latest

\* ... the merging of them ...
LEMMA SameMerge == \A items, n : Queries!Merge(items, n) = Passes!Merge(items, n)
  BY SameLatest
  DEF Queries!Merge, Passes!Merge, Queries!FoldLeft, Passes!FoldLeft,
      Queries!MapThenFoldSet, Passes!MapThenFoldSet, Queries!Max, Passes!Max,
      Queries!AddAccess, Passes!AddAccess, Queries!Listed, Passes!Listed

\* ... the launches ...
LEMMA SameLaunches == \A history, present, n :
    Queries!LaunchItems(history, present, n) = Passes!LaunchItems(history, present, n)
  BY DEF Queries!LaunchItems, Passes!LaunchItems, Queries!FoldLeft, Passes!FoldLeft,
      Queries!MapThenFoldSet, Passes!MapThenFoldSet, Queries!Max, Passes!Max,
      Queries!AddLaunch, Passes!AddLaunch, Queries!Listed, Passes!Listed, Queries!Reverse,
      Passes!Reverse

\* ... the whole list ...
LEMMA SameRecents == \A q : Queries!Recents(q) = Passes!Recents(q)
  BY SameLatest, SameMerge, SameLaunches
  DEF Queries!Recents, Passes!Recents, Queries!XbelItems, Passes!XbelItems, Queries!OnDisk,
      Passes!OnDisk

\* ... and so are those of Open With, ...
LEMMA SameOpenWith == \A q : Queries!OpenWith(q) = Passes!OpenWith(q)
  <1>1. \A dirs, id : Queries!Found(dirs, id) = Passes!Found(dirs, id)
    BY DEF Queries!Found, Passes!Found, Queries!NoEntry, Passes!NoEntry
  <1>2. \A dirs, default : Queries!Recommended(dirs, default) = Passes!Recommended(dirs, default)
    BY <1>1
    DEF Queries!Recommended, Passes!Recommended, Queries!Record, Passes!Record, Queries!IsApp,
      Passes!IsApp
  <1>3. \A apps : Queries!DefaultFirst(apps) = Passes!DefaultFirst(apps)
    BY DEF Queries!DefaultFirst, Passes!DefaultFirst, Queries!ToSet, Passes!ToSet,
        Queries!Cardinality, Passes!Cardinality, Queries!IsFiniteSet, Passes!IsFiniteSet
  <1>4. \A list : Queries!Dedupe(list) = Passes!Dedupe(list)
    BY DEF Queries!Dedupe, Passes!Dedupe, Queries!FoldLeft, Passes!FoldLeft,
        Queries!MapThenFoldSet, Passes!MapThenFoldSet, Queries!Max, Passes!Max,
        Queries!AddApp, Passes!AddApp
  <1> QED  BY <1>2, <1>3, <1>4 DEF Queries!OpenWith, Passes!OpenWith

\* ... of the answers ...
LEMMA SameAnswer == \A q : Queries!Answer(q) = Passes!Answer(q)
  <1>1. \A q : Queries!Kind(q) = Passes!Kind(q)
    BY DEF Queries!Kind, Passes!Kind
  <1>2. \A kind : Queries!PoliciesOf(kind) = Passes!PoliciesOf(kind)
    BY DEF Queries!PoliciesOf, Passes!PoliciesOf
  <1>3. \A q : Queries!Policies(q) = Passes!Policies(q)
    BY <1>1, <1>2 DEF Queries!Policies, Passes!Policies
  <1> QED  BY SameRecents, SameOpenWith, <1>3 DEF Queries!Answer, Passes!Answer

\* ... and of the questions.
LEMMA SameQuestions ==
    /\ Queries!RecentQueries = Passes!RecentQueries
    /\ Queries!OpenQueries = Passes!OpenQueries
    /\ Queries!ConflictQueries = Passes!ConflictQueries
  BY DEF Queries!RecentQueries, Passes!RecentQueries, Queries!OpenQueries, Passes!OpenQueries,
      Queries!ConflictQueries, Passes!ConflictQueries, Queries!BoundedSeq,
      Passes!BoundedSeq, Queries!SeqOf, Passes!SeqOf, Queries!Access, Passes!Access,
      Queries!Launch, Passes!Launch, Queries!Entry, Passes!Entry, Queries!Types,
      Passes!Types

\* Nothing is asked at first, and then answered.
LEMMA QueryAtStart == ASSUME Queries!QInit PROVE Passes!QInv
  <1>1. Passes!QInit
    BY DEF Queries!QInit, Passes!QInit
  <1> QED  BY <1>1, Passes!QueriesAtStart

\* A question is asked, or answered.
LEMMA QueryStep == ASSUME Passes!QInv, Queries!QNext PROVE Passes!QInv'
  <1>1. Passes!QNext
    BY SameQuestions, SameAnswer
    DEF Queries!QNext, Passes!QNext, Queries!Ask, Passes!Ask, Queries!Reply, Passes!Reply
  <1> QED  BY <1>1, Passes!QueriesStep

\* Then the answer is what it is shown as.
LEMMA AnswerIsRight ==
    ASSUME Passes!QInv
    PROVE  Queries!RecentsAreTheLatest /\ Queries!OpenWithIsComplete /\ Queries!PoliciesFit
  <1>1. Passes!RecentsAreTheLatest /\ Passes!OpenWithIsComplete /\ Passes!PoliciesFit
    BY QueriesCanBeCounted, Passes!QueriesRight
  <1>2. \A what : Queries!Replied(what) <=> Passes!Replied(what)
    BY DEF Queries!Replied, Passes!Replied
  <1>3. \A q : Queries!Accesses(q) = Passes!Accesses(q)
    BY DEF Queries!Accesses, Passes!Accesses, Queries!ToSet, Passes!ToSet
  <1>4. \A q, p : Queries!LastTime(q, p) = Passes!LastTime(q, p)
    BY <1>3 DEF Queries!LastTime, Passes!LastTime
  <1>5. \A q : Queries!Crowded(q) <=> Passes!Crowded(q)
    BY DEF Queries!Crowded, Passes!Crowded, Queries!OnDisk, Passes!OnDisk,
           Queries!Cardinality, Passes!Cardinality, Queries!IsFiniteSet, Passes!IsFiniteSet
  <1>6. \A S : Queries!Cardinality(S) = Passes!Cardinality(S)
    BY DEF Queries!Cardinality, Passes!Cardinality, Queries!IsFiniteSet, Passes!IsFiniteSet
  <1>7. Queries!RecentsAreTheLatest
    BY <1>1, <1>2, <1>3, <1>4, <1>5, <1>6
    DEF Queries!RecentsAreTheLatest, Passes!RecentsAreTheLatest
  <1>8. \A dirs, id : Queries!Found(dirs, id) = Passes!Found(dirs, id)
    BY DEF Queries!Found, Passes!Found, Queries!NoEntry, Passes!NoEntry
  <1>9. Queries!OpenWithIsComplete
    BY <1>1, <1>2, <1>8
    DEF Queries!OpenWithIsComplete, Passes!OpenWithIsComplete, Queries!IsApp, Passes!IsApp
  <1>10. Queries!PoliciesFit
    BY <1>1, <1>2 DEF Queries!PoliciesFit, Passes!PoliciesFit
  <1> QED  BY <1>7, <1>9, <1>10

(***************************************************************************)
(* The parts together.                                                     *)
(***************************************************************************)
RecordsInv ==
    /\ part = "archive" => Archive!ArInv
    /\ part = "trash" => Bin!TrashInv
    /\ part = "screentime" => Passes!StInv
    /\ part = "network" => Passes!NetInv
    /\ part = "overlay" => Cards!OverlayInv
    /\ part = "icons" => IconInv
    /\ part = "body" => Passes!BodyInv
    /\ part = "queries" => Passes!QInv

\* Every part's invariant holds at its start.
LEMMA RecordsAtStart == Init => RecordsInv
  BY ArchiveAtStart, TrashAtStart, UsageAtStart, NetworkAtStart, CardsAtStart, IconAtStart,
     BodyAtStart, QueryAtStart
  DEF Init, RecordsInv

\* A step of one part, or none, keeps the invariant and does what its part may do.
LEMMA RecordsStep ==
    ASSUME RecordsInv, Next
    PROVE  /\ RecordsInv'
           /\ part = "archive" => Archive!FailingStep
           /\ part = "trash" => Bin!RemovingStep
  <1>1. part' = part
    BY DEF Next
  <1>2. CASE part = "archive"
    BY <1>1, <1>2, ArchiveStep DEF Next, RecordsInv
  <1>3. CASE part = "trash"
    BY <1>1, <1>3, TrashStep DEF Next, RecordsInv
  <1>4. CASE part = "screentime"
    BY <1>1, <1>4, UsageStep DEF Next, RecordsInv
  <1>5. CASE part = "overlay"
    BY <1>1, <1>5, CardsStep DEF Next, RecordsInv
  <1>6. CASE part = "icons"
    BY <1>1, <1>6 DEF Next, RecordsInv
  <1>7. CASE part = "body"
    BY <1>1, <1>7 DEF Next, RecordsInv
  <1>8. CASE part = "network"
    BY <1>1, <1>8, NetworkStep DEF Next, RecordsInv
  <1>9. CASE part = "queries"
    BY <1>1, <1>9, QueryStep DEF Next, RecordsInv
  <1>10. CASE part \notin {"archive", "trash", "screentime", "network", "overlay", "icons", "body",
                          "queries"}
    BY <1>1, <1>10 DEF RecordsInv
  <1> QED  BY <1>2, <1>3, <1>4, <1>5, <1>6, <1>7, <1>8, <1>9, <1>10

\* A stuttering step keeps the invariant.
LEMMA RecordsStay == ASSUME RecordsInv, UNCHANGED slots PROVE RecordsInv'
  <1> USE DEF slots
  <1>1. Archive!ArInv => Archive!ArInv'
    BY DEF Archive!ArInv, Archive!ArTypeOK, Archive!Numbered, Archive!Begun, Archive!AtWork,
         Archive!Shown, Archive!UserFilesSurvive, Archive!DoneIsWhole, Archive!There
  <1>2. Bin!TrashInv => Bin!TrashInv'
    BY DEF Bin!TrashInv, Bin!TrTypeOK, Bin!Alone, Bin!AtHome, Bin!Labelled, Bin!Right, Bin!In,
         Bin!NoneLeft, Bin!Exists, Bin!GoalsAreRight
  <1>3. Passes!StInv => Passes!StInv'
    BY DEF Passes!StInv, Passes!StTypeOK, Passes!Balanced, Passes!Fits, Passes!Counting
  <1>4. Cards!OverlayInv => Cards!OverlayInv'
    BY CardsStay
  <1>5. IconInv => IconInv'
    BY DEF IconInv, Icons!Programs
  <1>6. Passes!BodyInv => Passes!BodyInv'
    BY DEF Passes!BodyInv, Passes!MailCases
  <1>7. Passes!NetInv => Passes!NetInv'
    BY DEF Passes!NetInv, Passes!NetTypeOK, Passes!SuccessIsShown, Passes!ListingIsRight,
         Passes!Outshone, Passes!DnsInfo, Passes!Row
  <1>8. Passes!QInv => Passes!QInv'
    BY DEF Passes!QInv
  <1> QED  BY <1>1, <1>2, <1>3, <1>4, <1>5, <1>6, <1>7, <1>8 DEF RecordsInv

\* The invariant, and what the steps may do, of every behaviour.
LEMMA RecordsHold ==
    /\ Spec => []RecordsInv
    /\ Spec => [][part = "archive" => Archive!FailingStep]_slots
    /\ Spec => [][part = "trash" => Bin!RemovingStep]_slots
  <1>1. RecordsInv /\ [Next]_slots => RecordsInv'
    BY RecordsStep, RecordsStay
  <1>2. RecordsInv /\ [Next]_slots => [part = "archive" => Archive!FailingStep]_slots
    BY RecordsStep
  <1>3. RecordsInv /\ [Next]_slots => [part = "trash" => Bin!RemovingStep]_slots
    BY RecordsStep
  <1> QED  BY RecordsAtStart, <1>1, <1>2, <1>3, PTL DEF Spec

\* However extractions fail, are killed and are started again, any number of times: a file
\* of the user stays on the disk unless he agreed to have it replaced, "done" is said of a
\* destination that holds the whole archive, and a run that ends with an error or a question
\* leaves the disk as it found it, but for a merge (explorer_helper.py: extract_archive,
\* _restore_extract_backup).
THEOREM ExtractionSafe == Spec => ExtractionIsSafe
  <1>1. RecordsInv =>
          (part = "archive" => Archive!UserFilesSurvive /\ Archive!DoneIsWhole)
    BY DEF RecordsInv, Archive!ArInv
  <1> QED  BY RecordsHold, <1>1, PTL DEF ExtractionIsSafe

\* For any directories and however many processes trash, restore and empty: no move overwrites
\* an item and only emptying the trash removes one; and unless processes overlap or two are
\* killed, an item in the trash has its own .trashinfo or none (explorer_helper.py:
\* _unique_target, trash_items, restore_trash_items, empty_trash).
THEOREM TrashSound == Spec => TrashIsRight
  <1>1. RecordsInv => (part = "trash" => Bin!TrashInfoIsRight)
    BY TrashIsLabelled DEF RecordsInv
  <1> QED  BY RecordsHold, <1>1, PTL DEF TrashIsRight

\* No time is counted twice, invented or lost between the buckets: no day has more time
\* than it is long, the total is at most what passed since the last reset, and it is the
\* sum of the days and of the applications (add_elapsed, acquire_lock, reset_state).
THEOREM TimeCounted == Spec => []TimeIsCountedOnce
  <1>1. RecordsInv => TimeIsCountedOnce
    BY UsageIsCounted DEF RecordsInv, TimeIsCountedOnce
  <1> QED  BY RecordsHold, <1>1, PTL

\* For any networks, signals and servers, and fields of any length: a command that answers
\* success did what was asked and its answer shows it; a listing has each network once, at
\* the strength of its strongest access point unless it is the one joined, in the order of the
\* page; and a field is read back as it was, colons and backslashes included
\* (network/manager.py: _parse_wifi_networks, _wifi_payload, cmd_set_dns,
\* cmd_warp_set_enabled, _split_nmcli_fields).
THEOREM NetworkTold == Spec => []NetworkIsTold
  <1>1. RecordsInv => NetworkIsTold
    BY NetworkIsShown DEF RecordsInv, NetworkIsTold
  <1> QED  BY RecordsHold, <1>1, PTL

\* For any files, times and limits, and histories, bookmarks and directories of any length:
\* the recent files are those opened last, the latest first and each with its latest time,
\* unless bookmarks crowd; Open With has every application that opens the file, the default
\* first and none twice; and a policy that replaces is offered only for a target of the same
\* type that is not the source (explorer_helper.py: merged_recents, open_with_apps,
\* _conflict_record).
THEOREM AnswersAreRight == Spec => []QueriesAreRight
  <1>1. RecordsInv => QueriesAreRight
    BY AnswerIsRight DEF RecordsInv, QueriesAreRight
  <1> QED  BY RecordsHold, <1>1, PTL

\* The cards follow the banners and no close request is lost (syncNotifications,
\* closeNotification, _write_state), whenever the daemon is stopped or crashes.
THEOREM CardsFollow == Spec => []CardsAreSound
  <1>1. RecordsInv => CardsAreSound
    BY CardsAreRight DEF RecordsInv, CardsAreSound
  <1> QED  BY RecordsHold, <1>1, PTL

\* For any processes with any ancestors, whatever the sources of icons know: a Windows program
\* whose nearest telling ancestor names a game with an icon is shown by that icon, and an icon
\* is found for every program for which a source has one (app_icons.py: resolve_app_icon,
\* _steam_icon_for_app, _process_ancestor_pids).
THEOREM RightIcon == Spec => []RightIconIsFound
  <1>1. RecordsInv => RightIconIsFound
    BY IconIsRight DEF RecordsInv, RightIconIsFound, IconInv
  <1> QED  BY RecordsHold, <1>1, PTL

\* For bodies of any length: of HTML whose dropped elements are closed exactly the texts
\* outside them are kept, the reader view of any lines is well formed and cleaning it again
\* changes nothing, and a saved message settles when its page is read (gmail.py:
\* EmailHtmlSanitizer, EmailTextExtractor, reader_text_to_html, clean_reader_text,
\* upgrade_cached_message).
THEOREM BodiesSound == Spec => []BodiesAreSound
  <1>1. RecordsInv => BodiesAreSound
    BY BodyIsRight DEF RecordsInv, BodiesAreSound
  <1> QED  BY RecordsHold, <1>1, PTL
=============================================================================
