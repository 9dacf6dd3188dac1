---------------------------- MODULE ClientsProofs ----------------------------
(***************************************************************************)
(* The two clients that keep no cache, each by itself: what the upload     *)
(* studio reports as published was published, once, and stays as it was,   *)
(* for every number of submissions, visits, ids and files; and the shared  *)
(* spinner, the lists and the run of the mobile application, for any       *)
(* number of runs and of requests in flight.                               *)
(***************************************************************************)
EXTENDS UploadStudio, MobileApp, FiniteSetTheorems, TLAPS

-----------------------------------------------------------------------------
(* The upload studio: typing *)

StudioIds == Ids \cup Nat
Files == [Slots -> (UNION {Contents[s] : s \in Slots}) \cup {NoFile}]
Forms == [keyed: BOOLEAN, id: StudioIds \cup {Blank}, meta: Metas, files: Files]
Submissions ==
  [form: Forms, stage: Stages, create: RequestStates, upload: RequestStates,
   run: StudioIds \cup {NoRun}, files: Files]
Pages ==
  [form: Forms, touched: BOOLEAN, error: {"none", "key", "metrics", "failed"},
   result: StudioIds \cup {NoRun}, try: Nat]
RunRecords == [by: Nat, meta: Metas, files: Files]

StudioTypeOK ==
  /\ page \in Pages
  /\ page.try <= Len(tries)
  /\ tries \in Seq(Submissions)
  /\ DOMAIN runs \subseteq StudioIds /\ IsFiniteSet(DOMAIN runs)
  /\ runs \in [DOMAIN runs -> RunRecords]
  /\ visits \in Nat

LEMMA FilesTyped ==
  /\ NoFiles \in Files
  /\ [s \in Slots |-> CHOOSE file \in Contents[s] : TRUE] \in Files
  /\ \A files \in Files, s \in Slots : \A file \in Contents[s] \cup {NoFile} :
       [files EXCEPT ![s] = file] \in Files
<1>1. \A s \in Slots : (CHOOSE file \in Contents[s] : TRUE) \in Contents[s]
  BY StudioAssumption
<1> DEFINE Values == (UNION {Contents[s] : s \in Slots}) \cup {NoFile}
<1>2. ASSUME NEW s \in Slots, NEW file \in Contents[s] PROVE file \in Values
  <2>1. Contents[s] \in {Contents[z] : z \in Slots}
    OBVIOUS
  <2>2. QED
    BY <2>1
<1>3. NoFile \in Values
  OBVIOUS
<1> HIDE DEF Values
<1>4. NoFiles \in [Slots -> Values]
  BY <1>3 DEF NoFiles
<1>5. [s \in Slots |-> CHOOSE file \in Contents[s] : TRUE] \in [Slots -> Values]
  BY <1>1, <1>2
<1>6. \A files \in [Slots -> Values], s \in Slots : \A file \in Contents[s] \cup {NoFile} :
        [files EXCEPT ![s] = file] \in [Slots -> Values]
  BY <1>2, <1>3
<1>7. QED
  BY <1>4, <1>5, <1>6 DEF Files, Values

LEMMA FreshTyped ==
  ASSUME NEW meta \in Metas
  PROVE  /\ FreshPage(meta) \in Pages
         /\ FreshPage(meta).try = 0 /\ FreshPage(meta).result = NoRun
<1>1. FreshForm(meta) \in Forms
  BY FilesTyped DEF FreshForm, Forms
<1>2. QED
  BY <1>1 DEF FreshPage, Pages

\* One submission takes another shape, the others stay.
LEMMA Replaced ==
  ASSUME tries \in Seq(Submissions), NEW n \in 1 .. Len(tries), NEW t \in Submissions,
         tries' = [tries EXCEPT ![n] = t]
  PROVE  /\ tries' \in Seq(Submissions) /\ Len(tries') = Len(tries)
         /\ tries'[n] = t
         /\ \A m \in 1 .. Len(tries) : m # n => tries'[m] = tries[m]
OBVIOUS

\* A run is written or added, the others stay.
LEMMA RunWritten ==
  ASSUME StudioTypeOK, NEW id \in StudioIds, NEW record \in RunRecords,
         runs' = [r \in DOMAIN runs \cup {id} |-> IF r = id THEN record ELSE runs[r]]
  PROVE  /\ DOMAIN runs' = DOMAIN runs \cup {id}
         /\ DOMAIN runs' \subseteq StudioIds /\ IsFiniteSet(DOMAIN runs')
         /\ runs' \in [DOMAIN runs' -> RunRecords]
         /\ runs'[id] = record
         /\ \A r \in DOMAIN runs : r # id => runs'[r] = runs[r]
<1>1. DOMAIN runs' = DOMAIN runs \cup {id}
  OBVIOUS
<1>2. IsFiniteSet(DOMAIN runs \cup {id})
  BY FS_AddElement DEF StudioTypeOK
<1>3. QED
  BY <1>1, <1>2 DEF StudioTypeOK

-----------------------------------------------------------------------------
(* The upload studio: the invariant *)

\* What is between a submission t, the n-th, and the runs of the server: it has
\* created at most one, and knows which; that run has its metadata, no files as
\* long as no upload was performed, and the submission's files once one was.
Own(t, n, R) ==
  /\ t.create \in {"sent", "broken", "refused"} => t.run = NoRun
  /\ t.create = "ok" => t.run # NoRun
  /\ t.run # NoRun =>
       t.run \in DOMAIN R /\ R[t.run].by = n /\ R[t.run].meta = t.form.meta
  /\ \A r \in DOMAIN R : R[r].by = n => r = t.run
  /\ t.stage = "creating" => t.upload = "unsent"
  /\ t.upload # "unsent" => t.create = "ok" /\ t.files = t.form.files
  /\ t.run # NoRun /\ t.upload \in {"unsent", "sent", "broken"} => R[t.run].files = NoFiles
  /\ t.upload = "ok" => R[t.run].files = t.form.files

TriesInv ==
  /\ \A n \in 1 .. Len(tries) : Own(tries[n], n, runs)
  /\ \A r \in DOMAIN runs : runs[r].by <= Len(tries)

\* The card speaks of the submission that this page made last.
CardInv ==
  page.result # NoRun =>
    /\ Current # 0
    /\ tries[Current].stage = "over" /\ tries[Current].upload = "ok"
    /\ page.result = tries[Current].run

StudioInv == StudioTypeOK /\ TriesInv /\ CardInv

\* Steps that leave the submissions and the runs alone.
LEMMA PageOnly ==
  ASSUME StudioInv, UNCHANGED <<tries, runs>>, page' \in Pages, visits' \in Nat,
         page'.try <= Len(tries),
         page'.result = NoRun \/ (page'.result = page.result /\ page'.try = page.try)
  PROVE  StudioInv'
<1>1. StudioTypeOK'
  BY DEF StudioInv, StudioTypeOK
<1>2. TriesInv'
  BY DEF StudioInv, TriesInv
<1>3. CardInv'
  BY DEF StudioInv, CardInv, Current
<1>4. QED
  BY <1>1, <1>2, <1>3 DEF StudioInv

\* Steps that take one submission further; t is what becomes of it.
LEMMA TryOnly ==
  ASSUME StudioInv, NEW n \in 1 .. Len(tries), NEW t \in Submissions,
         tries' = [tries EXCEPT ![n] = t], UNCHANGED <<runs, visits>>,
         Own(t, n, runs), page' \in Pages, page'.try = page.try,
         \/ page'.result = page.result /\ (n = Current => page.result = NoRun)
         \/ n = Current /\ t.stage = "over" /\ t.upload = "ok" /\ page'.result = t.run
  PROVE  StudioInv'
<1>1. /\ tries' \in Seq(Submissions) /\ Len(tries') = Len(tries)
      /\ tries'[n] = t
      /\ \A m \in 1 .. Len(tries) : m # n => tries'[m] = tries[m]
  BY Replaced DEF StudioInv, StudioTypeOK
<1>2. StudioTypeOK'
  BY <1>1 DEF StudioInv, StudioTypeOK
<1>3. TriesInv'
  BY <1>1 DEF StudioInv, TriesInv
<1>4. CardInv'
  <2>1. Current \in Nat /\ Current <= Len(tries) /\ Current' = Current
    BY DEF StudioInv, StudioTypeOK, Pages, Current
  <2>2. CASE page'.result = page.result /\ (n = Current => page.result = NoRun)
    BY <1>1, <2>1, <2>2 DEF StudioInv, CardInv
  <2>3. CASE n = Current /\ t.stage = "over" /\ t.upload = "ok" /\ page'.result = t.run
    BY <1>1, <2>1, <2>3 DEF CardInv
  <2>4. QED
    BY <2>2, <2>3
<1>5. QED
  BY <1>2, <1>3, <1>4 DEF StudioInv

-----------------------------------------------------------------------------
(* The upload studio: the user's steps *)

LEMMA EditKeeps ==
  ASSUME StudioInv, NEW form \in Forms, Edit(form)
  PROVE  StudioInv'
<1>1. page \in Pages /\ page.try <= Len(tries) /\ visits \in Nat
  BY DEF StudioInv, StudioTypeOK
<1>2. page' \in Pages /\ page'.result = page.result /\ page'.try = page.try
  BY <1>1 DEF Edit, Pages
<1>3. QED
  BY <1>1, <1>2, PageOnly DEF Edit

LEMMA EditsKeep ==
  ASSUME StudioInv,
         \/ EditKey
         \/ \E id \in Ids \cup {Blank} : EditId(id)
         \/ \E meta \in Metas : EditMeta(meta)
         \/ \E s \in Slots : \E file \in Contents[s] \cup {NoFile} : Attach(s, file)
  PROVE  StudioInv'
<1>1. page.form \in Forms
  BY DEF StudioInv, StudioTypeOK, Pages
<1>2. CASE EditKey
  <2>1. [page.form EXCEPT !.keyed = ~@] \in Forms
    BY <1>1 DEF Forms
  <2>2. QED
    BY <1>2, <2>1, EditKeeps DEF EditKey
<1>3. ASSUME NEW id \in Ids \cup {Blank}, EditId(id) PROVE StudioInv'
  <2>1. [page.form EXCEPT !.id = id] \in Forms
    BY <1>1 DEF Forms, StudioIds
  <2>2. QED
    BY <1>3, <2>1, EditKeeps DEF EditId
<1>4. ASSUME NEW meta \in Metas, EditMeta(meta) PROVE StudioInv'
  <2>1. [page.form EXCEPT !.meta = meta] \in Forms
    BY <1>1 DEF Forms
  <2>2. QED
    BY <1>4, <2>1, EditKeeps DEF EditMeta
<1>5. ASSUME NEW s \in Slots, NEW file \in Contents[s] \cup {NoFile}, Attach(s, file)
      PROVE  StudioInv'
  <2>1. [page.form.files EXCEPT ![s] = file] \in Files
    BY <1>1, FilesTyped DEF Forms
  <2>2. [page.form EXCEPT !.files[s] = file] \in Forms
    BY <1>1, <2>1 DEF Forms
  <2>3. QED
    BY <1>5, <2>2, EditKeeps DEF Attach
<1>6. QED
  BY <1>2, <1>3, <1>4, <1>5

LEMMA SubmitKeeps ==
  ASSUME StudioInv, Submit
  PROVE  StudioInv'
<1> DEFINE complaint == Complaint(page.form)
<1>1. page \in Pages /\ page.form \in Forms /\ tries \in Seq(Submissions) /\ visits \in Nat
      /\ page.try <= Len(tries)
  BY DEF StudioInv, StudioTypeOK, Pages
<1>2. complaint \in {"none", "key", "metrics", "failed"}
  BY DEF Complaint
<1>3. CASE complaint # "none"
  <2>1. /\ UNCHANGED <<tries, runs, visits>>
        /\ page' = [page EXCEPT !.touched = TRUE, !.error = complaint, !.result = NoRun]
    BY <1>1, <1>3 DEF Submit, Pages
  <2>2. page' \in Pages /\ page'.result = NoRun /\ page'.try = page.try
    BY <1>1, <1>2, <2>1 DEF Pages
  <2>3. QED
    BY <1>1, <2>1, <2>2, PageOnly
<1>4. CASE complaint = "none"
  <2> DEFINE t == Submission(page.form)
  <2>1. tries' = Append(tries, t) /\ UNCHANGED <<runs, visits>>
    BY <1>4 DEF Submit
  <2>2. t \in Submissions
    BY <1>1, FilesTyped DEF Submission, Submissions, Stages, RequestStates
  <2>3. t.create = "sent" /\ t.run = NoRun /\ t.stage = "creating" /\ t.upload = "unsent"
    BY DEF Submission
  <2> HIDE DEF t
  <2>4. /\ tries' \in Seq(Submissions) /\ Len(tries') = Len(tries) + 1
        /\ tries'[Len(tries) + 1] = t
        /\ \A m \in 1 .. Len(tries) : tries'[m] = tries[m]
    BY <1>1, <2>1, <2>2
  <2>5. page' = [page EXCEPT !.touched = TRUE, !.error = "none", !.result = NoRun,
                             !.try = Len(tries')]
    BY <1>4 DEF Submit
  <2>6. page' \in Pages /\ page'.result = NoRun /\ page'.try = Len(tries')
    <3>1. Len(tries') \in Nat
      BY <1>1, <2>4
    <3>2. QED
      BY <1>1, <2>5, <3>1 DEF Pages
  <2>7. StudioTypeOK'
    BY <2>1, <2>4, <2>6 DEF StudioInv, StudioTypeOK
  <2>8. TriesInv'
    <3>1. \A r \in DOMAIN runs : runs[r].by \in Nat /\ runs[r].by <= Len(tries)
      BY DEF StudioInv, StudioTypeOK, TriesInv, RunRecords
    <3>2. Own(t, Len(tries) + 1, runs)
      BY <1>1, <2>3, <3>1 DEF Own
    <3>3. \A m \in 1 .. Len(tries) : Own(tries'[m], m, runs)
      BY <2>4 DEF StudioInv, TriesInv
    <3>4. \A m \in 1 .. Len(tries') : Own(tries'[m], m, runs')
      BY <1>1, <2>1, <2>4, <3>2, <3>3
    <3>5. \A r \in DOMAIN runs' : runs'[r].by <= Len(tries')
      BY <1>1, <2>1, <2>4, <3>1
    <3>6. QED
      BY <3>4, <3>5 DEF TriesInv
  <2>9. CardInv'
    BY <2>6 DEF CardInv
  <2>10. QED
    BY <2>7, <2>8, <2>9 DEF StudioInv
<1>5. QED
  BY <1>3, <1>4

LEMMA ReturnKeeps ==
  ASSUME StudioInv, Return
  PROVE  StudioInv'
<1>1. PICK meta \in Metas : page' = FreshPage(meta)
  BY DEF Return, Visit
<1>2. visits' \in Nat /\ UNCHANGED <<tries, runs>>
  BY DEF Return, Visit, StudioInv, StudioTypeOK
<1>3. page' \in Pages /\ page'.result = NoRun /\ page'.try = 0
  BY <1>1, FreshTyped
<1>4. 0 <= Len(tries)
  BY DEF StudioInv, StudioTypeOK
<1>5. QED
  BY <1>2, <1>3, <1>4, PageOnly

LEMMA ReloadKeeps ==
  ASSUME StudioInv, Reload
  PROVE  StudioInv'
<1>1. PICK meta \in Metas : page' = FreshPage(meta)
  BY DEF Reload, Visit
<1>2. page' \in Pages /\ page'.result = NoRun /\ page'.try = 0
  BY <1>1, FreshTyped
<1>3. visits' \in Nat /\ UNCHANGED runs
  BY DEF Reload, Visit, StudioInv, StudioTypeOK
<1>4. tries \in Seq(Submissions)
  BY DEF StudioInv, StudioTypeOK
<1>5. tries' = [n \in 1 .. Len(tries) |-> [tries[n] EXCEPT !.stage = "over"]]
  BY <1>4 DEF Reload
<1>6. \A n \in 1 .. Len(tries) : [tries[n] EXCEPT !.stage = "over"] \in Submissions
  <2>1. \A t \in Submissions : [t EXCEPT !.stage = "over"] \in Submissions
    BY DEF Submissions, Stages
  <2>2. \A n \in 1 .. Len(tries) : tries[n] \in Submissions
    BY <1>4
  <2>3. QED
    BY <2>1, <2>2
<1>7. tries' \in Seq(Submissions) /\ Len(tries') = Len(tries)
  BY <1>4, <1>5, <1>6
<1>8. StudioTypeOK'
  BY <1>2, <1>3, <1>4, <1>7 DEF StudioInv, StudioTypeOK
<1>9. TriesInv'
  <2>1. ASSUME NEW n \in 1 .. Len(tries) PROVE Own(tries'[n], n, runs)
    <3>1. tries[n] \in Submissions /\ Own(tries[n], n, runs)
      BY <1>4 DEF StudioInv, TriesInv
    <3>2. tries'[n] = [tries[n] EXCEPT !.stage = "over"]
      BY <1>5
    <3>3. QED
      BY <3>1, <3>2 DEF Own, Submissions
  <2>2. QED
    BY <1>3, <1>7, <2>1 DEF StudioInv, TriesInv
<1>10. CardInv'
  BY <1>2 DEF CardInv
<1>11. QED
  BY <1>8, <1>9, <1>10 DEF StudioInv

-----------------------------------------------------------------------------
(* The upload studio: handleSubmit goes on *)

\* What the invariant says of one submission.
LEMMA OneTry ==
  ASSUME StudioInv, NEW n \in 1 .. Len(tries)
  PROVE  tries[n] \in Submissions /\ Own(tries[n], n, runs)
BY DEF StudioInv, StudioTypeOK, TriesInv

LEMMA ThisPage ==
  ASSUME StudioInv
  PROVE  page \in Pages /\ page.form \in Forms /\ Current = page.try
BY DEF StudioInv, StudioTypeOK, Pages, Current

\* A submission whose card is shown is over, and its upload was answered.
LEMMA NoCardBefore ==
  ASSUME StudioInv, NEW n \in 1 .. Len(tries),
         tries[n].stage # "over" \/ tries[n].upload # "ok"
  PROVE  n = Current => page.result = NoRun
BY DEF StudioInv, CardInv

LEMMA CreatedKeeps ==
  ASSUME StudioInv, NEW n \in 1 .. Len(tries), Created(n)
  PROVE  StudioInv'
<1> DEFINE t == [tries[n] EXCEPT !.stage = "uploading", !.upload = "sent",
                                 !.files = tries[n].form.files]
<1>1. tries[n] \in Submissions /\ Own(tries[n], n, runs)
  BY OneTry
<1>2. tries[n].stage = "creating" /\ tries[n].create = "ok"
  BY DEF Created, At
<1>3. tries' = [tries EXCEPT ![n] = t] /\ UNCHANGED <<page, runs, visits>>
  BY DEF Created
<1>4. t \in Submissions
  BY <1>1 DEF Submissions, Stages, RequestStates, Forms
<1>5. Own(t, n, runs)
  BY <1>1, <1>2 DEF Own, Submissions
<1>6. n = Current => page.result = NoRun
  BY <1>2, NoCardBefore
<1> HIDE DEF t
<1>7. page' \in Pages /\ page'.try = page.try /\ page'.result = page.result
  BY <1>3, ThisPage
<1>8. QED
  BY <1>3, <1>4, <1>5, <1>6, <1>7, TryOnly

LEMMA UploadedKeeps ==
  ASSUME StudioInv, NEW n \in 1 .. Len(tries), Uploaded(n)
  PROVE  StudioInv'
<1> DEFINE t == [tries[n] EXCEPT !.stage = "over"]
<1>1. tries[n] \in Submissions /\ Own(tries[n], n, runs)
  BY OneTry
<1>2. tries[n].stage = "uploading" /\ tries[n].upload = "ok"
  BY DEF Uploaded, At
<1>3. tries' = [tries EXCEPT ![n] = t] /\ UNCHANGED <<runs, visits>>
  BY DEF Uploaded
<1>4. t \in Submissions /\ t.stage = "over" /\ t.upload = "ok" /\ t.run = tries[n].run
  BY <1>1, <1>2 DEF Submissions, Stages
<1>5. Own(t, n, runs)
  BY <1>1, <1>2 DEF Own, Submissions
<1> HIDE DEF t
<1>6. tries[n].run \in StudioIds
  BY <1>1, <1>2 DEF Own, Submissions
<1>7. CASE n = Current
  <2>1. page' = [page EXCEPT !.result = tries[n].run, !.form.id = tries[n].run]
    BY <1>7 DEF Uploaded, Shows
  <2>2. page' = [page EXCEPT !.result = tries[n].run, !.form = [page.form EXCEPT !.id = tries[n].run]]
    BY <2>1
  <2>3. [page.form EXCEPT !.id = tries[n].run] \in Forms
    BY <1>6, ThisPage DEF Forms
  <2>4. page' \in Pages /\ page'.try = page.try /\ page'.result = t.run
    BY <1>4, <1>6, <2>2, <2>3, ThisPage DEF Pages
  <2>5. QED
    BY <1>3, <1>4, <1>5, <1>7, <2>4, TryOnly
<1>8. CASE n # Current
  <2>1. page' = page
    BY <1>8 DEF Uploaded, Shows
  <2>2. QED
    BY <1>3, <1>4, <1>5, <1>8, <2>1, ThisPage, TryOnly
<1>9. QED
  BY <1>7, <1>8

LEMMA EndsKeeps ==
  ASSUME StudioInv, NEW n \in 1 .. Len(tries), Ends(n), UNCHANGED <<runs, visits>>,
         tries[n].stage # "over"
  PROVE  StudioInv'
<1> DEFINE t == [tries[n] EXCEPT !.stage = "over"]
<1>1. tries[n] \in Submissions /\ Own(tries[n], n, runs)
  BY OneTry
<1>2. tries' = [tries EXCEPT ![n] = t]
  BY DEF Ends
<1>3. t \in Submissions
  BY <1>1 DEF Submissions, Stages
<1>4. Own(t, n, runs)
  BY <1>1 DEF Own, Submissions
<1>5. page' = page \/ page' = [page EXCEPT !.error = "failed"]
  BY DEF Ends, Shows
<1>6. page' \in Pages /\ page'.try = page.try /\ page'.result = page.result
  BY <1>5, ThisPage DEF Pages
<1>7. n = Current => page.result = NoRun
  BY NoCardBefore
<1> HIDE DEF t
<1>8. QED
  BY <1>2, <1>3, <1>4, <1>6, <1>7, TryOnly

LEMMA FailsKeep ==
  ASSUME StudioInv, NEW n \in 1 .. Len(tries), CreateFails(n) \/ UploadFails(n)
  PROVE  StudioInv'
BY EndsKeeps DEF CreateFails, UploadFails, At

-----------------------------------------------------------------------------
(* The upload studio: the server and the network *)

LEMMA RefuseKeeps ==
  ASSUME StudioInv, NEW n \in 1 .. Len(tries), Refuse(n) \/ Break(n)
  PROVE  StudioInv'
<1>1. tries[n] \in Submissions /\ Own(tries[n], n, runs)
  BY OneTry
<1>2. UNCHANGED <<page, runs, visits>>
  BY DEF Refuse, Break
<1>3. page' \in Pages /\ page'.try = page.try /\ page'.result = page.result
  BY <1>2, ThisPage
<1>4. ASSUME NEW state \in {"refused", "broken"}, tries[n].create = "sent",
             tries' = [tries EXCEPT ![n].create = state]
      PROVE  StudioInv'
  <2> DEFINE t == [tries[n] EXCEPT !.create = state]
  <2>1. tries' = [tries EXCEPT ![n] = t]
    BY <1>4
  <2>2. t \in Submissions
    BY <1>1, <1>4 DEF Submissions, RequestStates
  <2>3. Own(t, n, runs)
    BY <1>1, <1>4 DEF Own, Submissions
  <2>4. n = Current => page.result = NoRun
    <3>1. tries[n].upload # "ok"
      BY <1>1, <1>4 DEF Own
    <3>2. QED
      BY <3>1, NoCardBefore
  <2> HIDE DEF t
  <2>5. QED
    BY <1>2, <1>3, <2>1, <2>2, <2>3, <2>4, TryOnly
<1>5. ASSUME NEW state \in {"refused", "broken"}, tries[n].upload = "sent",
             tries' = [tries EXCEPT ![n].upload = state]
      PROVE  StudioInv'
  <2> DEFINE t == [tries[n] EXCEPT !.upload = state]
  <2>1. tries' = [tries EXCEPT ![n] = t]
    BY <1>5
  <2>2. t \in Submissions
    BY <1>1, <1>5 DEF Submissions, RequestStates
  <2>3. Own(t, n, runs)
    BY <1>1, <1>5 DEF Own, Submissions
  <2>4. n = Current => page.result = NoRun
    BY <1>5, NoCardBefore
  <2> HIDE DEF t
  <2>5. QED
    BY <1>2, <1>3, <2>1, <2>2, <2>3, <2>4, TryOnly
<1>6. QED
  BY <1>4, <1>5 DEF Refuse, Break

\* The run a create makes is under the id typed, or under a number.
LEMMA CreateId ==
  ASSUME StudioInv, NEW n \in 1 .. Len(tries)
  PROVE  (IF tries[n].form.id = Blank THEN Generated ELSE tries[n].form.id) \in StudioIds
<1>1. tries[n].form.id \in StudioIds \cup {Blank}
  BY OneTry DEF Submissions, Forms
<1>2. IsFiniteSet(DOMAIN runs \ Ids)
  BY FS_Subset DEF StudioInv, StudioTypeOK
<1>3. Generated \in Nat
  BY <1>2, FS_CardinalityType DEF Generated
<1>4. QED
  BY <1>1, <1>3 DEF StudioIds

LEMMA CreateRunKeeps ==
  ASSUME StudioInv, NEW n \in 1 .. Len(tries), CreateRun(n)
  PROVE  StudioInv'
<1> DEFINE form == tries[n].form
           id == IF form.id = Blank THEN Generated ELSE form.id
           record == [by |-> n, meta |-> form.meta, files |-> NoFiles]
<1>1. tries[n] \in Submissions /\ Own(tries[n], n, runs) /\ form \in Forms
  BY OneTry DEF Submissions
<1>2. id \in StudioIds /\ NoRun \notin StudioIds
  BY CreateId, StudioAssumption DEF StudioIds
<1>3. UNCHANGED <<page, visits>> /\ tries[n].create \in {"sent", "broken"}
  BY DEF CreateRun
<1>4. page' \in Pages /\ page'.try = page.try /\ page'.result = page.result
  BY <1>3, ThisPage
<1>5. tries[n].run = NoRun /\ tries[n].upload = "unsent"
  BY <1>1, <1>3 DEF Own
<1>6. n = Current => page.result = NoRun
  BY <1>5, NoCardBefore
<1>7. CASE id \in DOMAIN runs
  <2> DEFINE t == [tries[n] EXCEPT !.create = Refusal(@)]
  <2>1. tries' = [tries EXCEPT ![n] = t] /\ UNCHANGED runs
    BY <1>7 DEF CreateRun
  <2>2. t \in Submissions
    BY <1>1 DEF Submissions, RequestStates, Refusal
  <2>3. Own(t, n, runs)
    BY <1>1, <1>5 DEF Own, Submissions, Refusal
  <2> HIDE DEF t
  <2>4. QED
    BY <1>3, <1>4, <1>6, <2>1, <2>2, <2>3, TryOnly
<1>8. CASE id \notin DOMAIN runs
  <2>1. PICK answer \in Answers(tries[n].create) :
          tries' = [tries EXCEPT ![n] = [@ EXCEPT !.create = answer, !.run = id]]
    BY <1>8 DEF CreateRun
  <2> DEFINE t == [tries[n] EXCEPT !.create = answer, !.run = id]
  <2>2. tries' = [tries EXCEPT ![n] = t]
    BY <2>1
  <2>3. answer \in {"ok", "lost"}
    BY <2>1 DEF Answers
  <2>4. t \in Submissions
    BY <1>1, <1>2, <2>3 DEF Submissions, RequestStates
  <2>5. t.create = answer /\ t.run = id /\ t.form = form /\ t.stage = tries[n].stage
        /\ t.upload = "unsent"
    BY <1>1, <1>5 DEF Submissions
  <2>6. runs' = [r \in DOMAIN runs \cup {id} |-> IF r = id THEN record ELSE runs[r]]
    BY <1>8 DEF CreateRun
  <2>7. record \in RunRecords
    BY <1>1, FilesTyped DEF RunRecords, Forms
  <2>8. record.by = n /\ record.meta = form.meta /\ record.files = NoFiles
    OBVIOUS
  <2> HIDE DEF t, id, record, form
  <2>9. /\ DOMAIN runs' = DOMAIN runs \cup {id}
        /\ DOMAIN runs' \subseteq StudioIds /\ IsFiniteSet(DOMAIN runs')
        /\ runs' \in [DOMAIN runs' -> RunRecords]
        /\ runs'[id] = record
        /\ \A r \in DOMAIN runs : runs'[r] = runs[r]
    BY <1>2, <1>8, <2>6, <2>7, RunWritten DEF StudioInv
  <2>10. /\ tries' \in Seq(Submissions) /\ Len(tries') = Len(tries)
         /\ tries'[n] = t
         /\ \A m \in 1 .. Len(tries) : m # n => tries'[m] = tries[m]
    BY <2>2, <2>4, Replaced DEF StudioInv, StudioTypeOK
  <2>11. StudioTypeOK'
    BY <1>3, <2>9, <2>10 DEF StudioInv, StudioTypeOK
  <2>12. Own(t, n, runs')
    <3>1. \A r \in DOMAIN runs : runs[r].by # n
      BY <1>1, <1>2, <1>5 DEF Own, StudioInv, StudioTypeOK
    <3>2. \A r \in DOMAIN runs' : runs'[r].by = n => r = id
      BY <2>9, <3>1
    <3>3. QED
      BY <1>2, <2>3, <2>5, <2>8, <2>9, <3>2 DEF Own
  <2>13. ASSUME NEW m \in 1 .. Len(tries), m # n PROVE Own(tries[m], m, runs')
    <3>1. Own(tries[m], m, runs)
      BY OneTry
    <3>2. runs'[id].by # m
      BY <2>8, <2>9, <2>13
    <3>3. \A r \in DOMAIN runs' : runs'[r].by = m => r \in DOMAIN runs /\ runs[r].by = m
      BY <2>9, <3>2
    <3>4. QED
      BY <2>9, <3>1, <3>3 DEF Own
  <2>14. TriesInv'
    <3>1. \A m \in 1 .. Len(tries') : Own(tries'[m], m, runs')
      BY <2>10, <2>12, <2>13
    <3>2. \A r \in DOMAIN runs' : runs'[r].by <= Len(tries')
      BY <2>8, <2>9, <2>10 DEF StudioInv, StudioTypeOK, TriesInv
    <3>3. QED
      BY <3>1, <3>2 DEF TriesInv
  <2>15. CardInv'
    BY <1>3, <1>6, <2>10 DEF StudioInv, StudioTypeOK, CardInv, Current, Pages
  <2>16. QED
    BY <2>11, <2>14, <2>15 DEF StudioInv
<1>9. QED
  BY <1>7, <1>8

LEMMA StoreKeeps ==
  ASSUME StudioInv, NEW n \in 1 .. Len(tries), StoreArtifacts(n)
  PROVE  /\ StudioInv'
         /\ \A r \in DOMAIN runs : runs[r].files # NoFiles => runs'[r] = runs[r]
<1> DEFINE id == tries[n].run
           record == [runs[id] EXCEPT !.files = tries[n].files]
<1>1. tries[n] \in Submissions /\ Own(tries[n], n, runs)
  BY OneTry
<1>2. UNCHANGED <<page, visits>> /\ tries[n].upload \in {"sent", "broken"}
  BY DEF StoreArtifacts
<1>3. /\ tries[n].create = "ok" /\ tries[n].files = tries[n].form.files
      /\ id \in DOMAIN runs /\ runs[id].by = n /\ runs[id].meta = tries[n].form.meta
      /\ runs[id].files = NoFiles
      /\ \A r \in DOMAIN runs : runs[r].by = n => r = id
      /\ tries[n].stage # "creating" /\ id # NoRun
  BY <1>1, <1>2 DEF Own
<1>4. PICK answer \in Answers(tries[n].upload) : tries' = [tries EXCEPT ![n].upload = answer]
  BY DEF StoreArtifacts
<1> DEFINE t == [tries[n] EXCEPT !.upload = answer]
<1>5. tries' = [tries EXCEPT ![n] = t]
  BY <1>4
<1>6. answer \in {"ok", "lost"}
  BY <1>4 DEF Answers
<1>7. t \in Submissions
  BY <1>1, <1>6 DEF Submissions, RequestStates
<1>8. /\ t.create = "ok" /\ t.run = id /\ t.form = tries[n].form /\ t.files = tries[n].files
      /\ t.stage = tries[n].stage /\ t.upload = answer
  BY <1>1, <1>3 DEF Submissions
<1>9. runs[id] \in RunRecords /\ tries[n].files \in Files
  BY <1>1, <1>3 DEF StudioInv, StudioTypeOK, Submissions
<1>10. record \in RunRecords
  BY <1>9 DEF RunRecords
<1>11. record.by = n /\ record.meta = tries[n].form.meta /\ record.files = tries[n].form.files
  BY <1>3, <1>9 DEF RunRecords
<1>12. runs' = [runs EXCEPT ![id] = record]
  BY DEF StoreArtifacts
<1> HIDE DEF t, id, record
<1>13. /\ DOMAIN runs' = DOMAIN runs
       /\ runs' \in [DOMAIN runs' -> RunRecords]
       /\ runs'[id] = record
       /\ \A r \in DOMAIN runs : r # id => runs'[r] = runs[r]
  BY <1>3, <1>10, <1>12 DEF StudioInv, StudioTypeOK
<1>14. /\ tries' \in Seq(Submissions) /\ Len(tries') = Len(tries)
       /\ tries'[n] = t
       /\ \A m \in 1 .. Len(tries) : m # n => tries'[m] = tries[m]
  BY <1>5, <1>7, Replaced DEF StudioInv, StudioTypeOK
<1>15. StudioTypeOK'
  BY <1>2, <1>13, <1>14 DEF StudioInv, StudioTypeOK
<1>16. Own(t, n, runs')
  <2>1. \A r \in DOMAIN runs' : runs'[r].by = n => r = id
    BY <1>3, <1>13
  <2>2. QED
    BY <1>3, <1>6, <1>8, <1>11, <1>13, <2>1 DEF Own
<1>17. ASSUME NEW m \in 1 .. Len(tries), m # n PROVE Own(tries[m], m, runs')
  <2>1. Own(tries[m], m, runs)
    BY OneTry
  <2>2. \A r \in DOMAIN runs : runs[r].by = m => r # id
    BY <1>3, <1>17
  <2>3. \A r \in DOMAIN runs' : runs'[r].by = m => r \in DOMAIN runs /\ runs[r].by = m
    BY <1>11, <1>13, <1>17
  <2>4. QED
    BY <1>13, <2>1, <2>2, <2>3 DEF Own
<1>18. TriesInv'
  <2>1. \A m \in 1 .. Len(tries') : Own(tries'[m], m, runs')
    BY <1>14, <1>16, <1>17
  <2>2. \A r \in DOMAIN runs' : runs'[r].by <= Len(tries')
    BY <1>11, <1>13, <1>14 DEF StudioInv, StudioTypeOK, TriesInv
  <2>3. QED
    BY <2>1, <2>2 DEF TriesInv
<1>19. CardInv'
  <2>1. n = Current => page.result = NoRun
    BY <1>2, NoCardBefore
  <2>2. QED
    BY <1>2, <1>14, <2>1 DEF StudioInv, StudioTypeOK, CardInv, Current, Pages
<1>20. QED
  BY <1>3, <1>13, <1>15, <1>18, <1>19 DEF StudioInv

LEMMA ElsewhereKeeps ==
  ASSUME StudioInv, NEW id \in Ids, Elsewhere(id)
  PROVE  StudioInv'
<1> DEFINE files == [s \in Slots |-> CHOOSE file \in Contents[s] : TRUE]
<1>1. PICK meta \in Metas :
        runs' = [r \in DOMAIN runs \cup {id} |->
                  IF r = id THEN [by |-> 0, meta |-> meta, files |-> files] ELSE runs[r]]
  BY DEF Elsewhere
<1> DEFINE record == [by |-> 0, meta |-> meta, files |-> files]
<1>2. record \in RunRecords /\ record.by = 0
  BY FilesTyped DEF RunRecords
<1>3. runs' = [r \in DOMAIN runs \cup {id} |-> IF r = id THEN record ELSE runs[r]]
  BY <1>1
<1>4. id \in StudioIds /\ id \notin DOMAIN runs /\ UNCHANGED <<page, tries, visits>>
  BY DEF Elsewhere, StudioIds
<1> HIDE DEF record
<1>5. /\ DOMAIN runs' = DOMAIN runs \cup {id}
      /\ DOMAIN runs' \subseteq StudioIds /\ IsFiniteSet(DOMAIN runs')
      /\ runs' \in [DOMAIN runs' -> RunRecords]
      /\ runs'[id] = record
      /\ \A r \in DOMAIN runs : runs'[r] = runs[r]
  BY <1>2, <1>3, <1>4, RunWritten DEF StudioInv
<1>6. StudioTypeOK'
  BY <1>4, <1>5 DEF StudioInv, StudioTypeOK
<1>7. TriesInv'
  <2>1. ASSUME NEW m \in 1 .. Len(tries) PROVE Own(tries[m], m, runs')
    <3>1. Own(tries[m], m, runs)
      BY OneTry
    <3>2. \A r \in DOMAIN runs' : runs'[r].by = m => r \in DOMAIN runs /\ runs[r].by = m
      BY <1>2, <1>5
    <3>3. QED
      BY <1>5, <3>1, <3>2 DEF Own
  <2>2. \A r \in DOMAIN runs' : runs'[r].by <= Len(tries)
    BY <1>2, <1>5 DEF StudioInv, StudioTypeOK, TriesInv
  <2>3. QED
    BY <1>4, <2>1, <2>2 DEF TriesInv
<1>8. CardInv'
  BY <1>4 DEF StudioInv, CardInv, Current
<1>9. QED
  BY <1>6, <1>7, <1>8 DEF StudioInv

-----------------------------------------------------------------------------
(* The upload studio: the theorems *)

LEMMA StudioInvInit == StudioInit => StudioInv
<1> SUFFICES ASSUME StudioInit PROVE StudioInv
  OBVIOUS
<1>1. PICK meta \in Metas : page = FreshPage(meta)
  BY DEF StudioInit
<1>2. page \in Pages /\ page.try = 0 /\ page.result = NoRun
  BY <1>1, FreshTyped
<1>3. tries = <<>> /\ DOMAIN runs = {} /\ visits = 0 /\ runs \in [DOMAIN runs -> RunRecords]
  BY DEF StudioInit
<1>4. IsFiniteSet(DOMAIN runs)
  BY <1>3, FS_EmptySet
<1>5. StudioTypeOK
  BY <1>2, <1>3, <1>4 DEF StudioTypeOK
<1>6. TriesInv
  BY <1>3 DEF TriesInv
<1>7. CardInv
  BY <1>2 DEF CardInv
<1>8. QED
  BY <1>5, <1>6, <1>7 DEF StudioInv

LEMMA StudioInvStep == StudioInv /\ [StudioNext]_studioVars => StudioInv'
<1> SUFFICES ASSUME StudioInv, [StudioNext]_studioVars PROVE StudioInv'
  OBVIOUS
<1>1. CASE UNCHANGED studioVars
  BY <1>1 DEF studioVars, StudioInv, StudioTypeOK, TriesInv, CardInv, Current
<1>2. CASE Submit \/ Return \/ Reload
  BY <1>2, SubmitKeeps, ReturnKeeps, ReloadKeeps
<1>3. ASSUME NEW n \in 1 .. Len(tries),
             \/ Created(n) \/ Uploaded(n) \/ CreateFails(n) \/ UploadFails(n)
             \/ CreateRun(n) \/ StoreArtifacts(n) \/ Refuse(n) \/ Break(n)
      PROVE  StudioInv'
  BY <1>3, CreatedKeeps, UploadedKeeps, FailsKeep, CreateRunKeeps, StoreKeeps, RefuseKeeps
<1>4. ASSUME NEW id \in Ids, Elsewhere(id) PROVE StudioInv'
  BY <1>4, ElsewhereKeeps
<1>5. QED
  BY <1>1, <1>2, <1>3, <1>4, EditsKeep DEF StudioNext

LEMMA StudioInvariant == StudioSpec => []StudioInv
<1>1. QED
  BY StudioInvInit, StudioInvStep, PTL DEF StudioSpec

(* No submission leaves more than one run on the server, however its two   *)
(* requests end and whatever the page does meanwhile.                      *)
THEOREM OneRunCorrect == StudioSpec => []OneRunPerTry
<1>1. StudioInv => OneRunPerTry
  <2> SUFFICES ASSUME StudioInv, NEW n \in 1 .. Len(tries)
               PROVE  Cardinality({r \in DOMAIN runs : runs[r].by = n}) <= 1
    BY DEF OneRunPerTry
  <2>1. {r \in DOMAIN runs : runs[r].by = n} \subseteq {tries[n].run}
    BY OneTry DEF Own
  <2>2. IsFiniteSet({tries[n].run}) /\ Cardinality({tries[n].run}) = 1
    BY FS_Singleton
  <2>3. QED
    BY <2>1, <2>2, FS_Subset
<1>2. QED
  BY <1>1, StudioInvariant, PTL

(* The card "Run published" tells the truth: the run it names is on the    *)
(* server with the metadata and every file of the submission it reports.   *)
THEOREM SuccessCorrect == StudioSpec => []SuccessIsComplete
<1>1. StudioInv => SuccessIsComplete
  <2> SUFFICES ASSUME StudioInv, page.result # NoRun
               PROVE  /\ page.result \in DOMAIN runs
                      /\ runs[page.result] = [by |-> Current, meta |-> tries[Current].form.meta,
                                              files |-> tries[Current].form.files]
    BY DEF SuccessIsComplete, ResultCard
  <2>1. Current \in 1 .. Len(tries)
    BY DEF StudioInv, StudioTypeOK, CardInv, Current, Pages
  <2>2. /\ tries[Current].upload = "ok" /\ page.result = tries[Current].run
        /\ Own(tries[Current], Current, runs)
    BY <2>1, OneTry DEF StudioInv, CardInv
  <2>3. /\ page.result \in DOMAIN runs
        /\ runs[page.result].by = Current
        /\ runs[page.result].meta = tries[Current].form.meta
        /\ runs[page.result].files = tries[Current].form.files
    BY <2>2 DEF Own
  <2>4. runs[page.result] \in RunRecords
    BY <2>3 DEF StudioInv, StudioTypeOK
  <2>5. QED
    BY <2>3, <2>4 DEF RunRecords
<1>2. QED
  BY <1>1, StudioInvariant, PTL

(* A run that has its artifacts is never written again by the studio.      *)
THEOREM PublishedCorrect == StudioSpec => PublishedRunsStay
<1> DEFINE Stay == \A r \in DOMAIN runs : runs[r].files # NoFiles => runs'[r] = runs[r]
<1>1. ASSUME StudioInv, StudioNext PROVE Stay \/ UNCHANGED runs
  <2>1. ASSUME NEW n \in 1 .. Len(tries), CreateRun(n) PROVE Stay \/ UNCHANGED runs
    BY <2>1 DEF CreateRun
  <2>2. ASSUME NEW n \in 1 .. Len(tries), StoreArtifacts(n) PROVE Stay
    BY <1>1, <2>2, StoreKeeps
  <2>3. ASSUME NEW id \in Ids, Elsewhere(id) PROVE Stay
    BY <2>3 DEF Elsewhere
  <2>4. ASSUME NEW n \in 1 .. Len(tries),
               \/ Created(n) \/ Uploaded(n) \/ CreateFails(n) \/ UploadFails(n)
               \/ Refuse(n) \/ Break(n)
        PROVE  UNCHANGED runs
    BY <2>4 DEF Created, Uploaded, CreateFails, UploadFails, Refuse, Break
  <2>5. ASSUME EditKey \/ Submit \/ Return \/ Reload PROVE UNCHANGED runs
    BY <2>5 DEF EditKey, Edit, Submit, Return, Reload, Visit
  <2>6. ASSUME \/ \E id \in Ids \cup {Blank} : EditId(id)
               \/ \E meta \in Metas : EditMeta(meta)
               \/ \E s \in Slots : \E file \in Contents[s] \cup {NoFile} : Attach(s, file)
        PROVE  UNCHANGED runs
    BY <2>6 DEF EditId, EditMeta, Attach, Edit
  <2>7. QED
    BY <1>1, <2>1, <2>2, <2>3, <2>4, <2>5, <2>6 DEF StudioNext
<1>2. StudioInv /\ [StudioNext]_studioVars => [Stay]_runs
  BY <1>1 DEF studioVars
<1> HIDE DEF Stay
<1>3. StudioSpec => [][Stay]_runs
  BY <1>2, StudioInvariant, PTL DEF StudioSpec
<1>4. QED
  BY <1>3 DEF PublishedRunsStay, Stay

-----------------------------------------------------------------------------
(* The mobile application: the steps, as the proofs below split them *)

LEMMA Steps ==
  ASSUME Next
  PROVE  \/ \E k \in AppTabs : SelectTab(k)
         \/ TypeRunId
         \/ tab = "run" /\ LoadRun
         \/ tab \in Lists /\ Start(tab) /\ UNCHANGED <<tab, lists, runId, runData>>
         \/ \E r \in Requests : Answer(r)
         \/ \E r \in Requests : Fail(r)
BY DEF Next, PressLoad, Retry

LEMMA Names ==
  /\ Lists \cap RunIds = {}
  /\ Lists \subseteq Requests /\ RunIds \subseteq Requests /\ Lists \subseteq AppTabs
  /\ "run" \notin Lists
BY MobileAssumption DEF Lists, Requests, AppTabs

\* A load that begins: its request is in flight, the others are as they were.
LEMMA Begun ==
  ASSUME TypeOK, NEW r \in Requests, Start(r)
  PROVE  /\ inFlight' \in [Requests -> Nat]
         /\ inFlight'[r] > 0
         /\ \A s \in Requests : inFlight'[s] >= inFlight[s]
         /\ \A s \in Requests \ {r} : inFlight'[s] = inFlight[s]
BY MobileAssumption DEF Start, TypeOK

\* A load that ends.
LEMMA Ended ==
  ASSUME TypeOK, NEW r \in Requests, Lands(r)
  PROVE  /\ inFlight' \in [Requests -> Nat]
         /\ inFlight[r] > 0
         /\ \A s \in Requests \ {r} : inFlight'[s] = inFlight[s]
BY DEF Lands, TypeOK

LEMMA TypeStep == TypeOK /\ [Next]_vars => TypeOK'
<1> SUFFICES ASSUME TypeOK, [Next]_vars PROVE TypeOK'
  OBVIOUS
<1>1. CASE UNCHANGED vars
  BY <1>1 DEF TypeOK, vars
<1>2. ASSUME NEW k \in AppTabs, SelectTab(k) PROVE TypeOK'
  <2>1. CASE k \in Lists
    <3>1. Start(k) /\ k \in Requests
      BY <1>2, <2>1, Names DEF SelectTab
    <3>2. inFlight' \in [Requests -> Nat]
      BY <3>1, Begun
    <3>3. QED
      BY <1>2, <2>1, <3>1, <3>2, Names DEF SelectTab, Start, TypeOK
  <2>2. CASE k \notin Lists
    BY <1>2, <2>2 DEF SelectTab, TypeOK
  <2>3. QED
    BY <2>1, <2>2
<1>3. CASE TypeRunId
  BY <1>3 DEF TypeRunId, TypeOK
<1>4. CASE LoadRun
  <2>1. runId \in RunIds /\ runId \in Requests /\ Start(runId)
    BY <1>4, Names DEF LoadRun, TypeOK
  <2>2. inFlight' \in [Requests -> Nat]
    BY <2>1, Begun
  <2>3. QED
    BY <1>4, <2>1, <2>2 DEF LoadRun, Start, TypeOK
<1>5. CASE tab \in Lists /\ Start(tab) /\ UNCHANGED <<tab, lists, runId, runData>>
  <2>1. tab \in Requests
    BY <1>5, Names
  <2>2. inFlight' \in [Requests -> Nat]
    BY <1>5, <2>1, Begun
  <2>3. QED
    BY <1>5, <2>1, <2>2, Names DEF Start, TypeOK
<1>6. ASSUME NEW r \in Requests, Answer(r) PROVE TypeOK'
  <2>1. inFlight' \in [Requests -> Nat]
    BY <1>6, Ended DEF Answer
  <2>2. QED
    BY <1>6, <2>1, Names DEF Answer, Lands, Stores, TypeOK, Requests
<1>7. ASSUME NEW r \in Requests, Fail(r) PROVE TypeOK'
  <2>1. inFlight' \in [Requests -> Nat]
    BY <1>7, Ended DEF Fail
  <2>2. QED
    BY <1>7, <2>1, Names DEF Fail, Lands, Stores, TypeOK, Requests
<1>8. QED
  BY <1>1, <1>2, <1>3, <1>4, <1>5, <1>6, <1>7, Steps

LEMMA TypeInit == Init => TypeOK
<1> SUFFICES ASSUME Init PROVE TypeOK
  OBVIOUS
<1>1. inFlight \in [Requests -> Nat]
  BY DEF Init
<1>2. lists \in [Lists -> {"blank", "answer"}]
  BY DEF Init
<1>3. tab \in AppTabs
  BY DEF Init, AppTabs, Lists
<1>4. QED
  BY <1>1, <1>2, <1>3 DEF Init, TypeOK

(* The application keeps its types, for every set of runs. *)
THEOREM TypeCorrect == Spec => []TypeOK
<1>1. QED
  BY TypeInit, TypeStep, PTL DEF Spec

---------------------------------------------------------------------------
\* What turns the spinner is in flight; and when no loads overlap, at most one
\* is in flight, and it turns the spinner.
Alone(F) == /\ \A r, s \in Requests : F[r] > 0 /\ F[s] > 0 => r = s
            /\ \A r \in Requests : F[r] <= 1

SpinnerInv == SpinnerTells /\ (~crossed => Alone(inFlight))

LEMMA SpinnerStart ==
  ASSUME TypeOK, SpinnerInv, NEW r \in Requests, Start(r)
  PROVE  SpinnerInv'
<1>1. /\ inFlight'[r] > 0 /\ loading'
      /\ crossed' = \E s \in Requests : inFlight[s] > 0
  BY Begun DEF Start
<1>2. SpinnerTells'
  BY <1>1 DEF SpinnerTells
<1>3. ASSUME ~crossed' PROVE Alone(inFlight')
  <2>1. \A s \in Requests : inFlight[s] = 0
    BY <1>1, <1>3 DEF TypeOK
  <2>2. inFlight' = [inFlight EXCEPT ![r] = @ + 1]
    BY DEF Start
  <2>3. \A s \in Requests : inFlight'[s] = IF s = r THEN 1 ELSE 0
    BY <2>1, <2>2 DEF TypeOK
  <2>4. QED
    BY <2>3 DEF Alone
<1>4. QED
  BY <1>2, <1>3 DEF SpinnerInv

LEMMA SpinnerEnd ==
  ASSUME TypeOK, SpinnerInv, NEW r \in Requests, Lands(r), ~loading'
  PROVE  SpinnerInv'
<1>1. inFlight[r] > 0 /\ inFlight' = [inFlight EXCEPT ![r] = @ - 1] /\ crossed' = crossed
  BY DEF Lands
<1>2. ASSUME ~crossed PROVE \A s \in Requests : inFlight'[s] = 0
  <2>1. Alone(inFlight)
    BY <1>2 DEF SpinnerInv
  <2>2. \A s \in Requests : inFlight[s] \in Nat
    BY DEF TypeOK
  <2>3. inFlight[r] = 1 /\ \A s \in Requests \ {r} : inFlight[s] = 0
    BY <1>1, <2>1, <2>2 DEF Alone
  <2>4. QED
    BY <1>1, <2>3 DEF TypeOK
<1>3. SpinnerTells'
  BY <1>1, <1>2 DEF SpinnerTells
<1>4. ~crossed' => Alone(inFlight')
  BY <1>1, <1>2 DEF Alone
<1>5. QED
  BY <1>3, <1>4 DEF SpinnerInv

LEMMA SpinnerStep == TypeOK /\ SpinnerInv /\ [Next]_vars => SpinnerInv'
<1> SUFFICES ASSUME TypeOK, SpinnerInv, [Next]_vars PROVE SpinnerInv'
  OBVIOUS
<1>1. CASE UNCHANGED <<loading, inFlight, crossed>>
  BY <1>1 DEF SpinnerInv, SpinnerTells, Alone
<1>2. CASE UNCHANGED vars
  BY <1>1, <1>2 DEF vars
<1>3. ASSUME NEW k \in AppTabs, SelectTab(k) PROVE SpinnerInv'
  BY <1>1, <1>3, Names, SpinnerStart DEF SelectTab
<1>4. CASE TypeRunId
  BY <1>1, <1>4 DEF TypeRunId
<1>5. CASE LoadRun
  BY <1>5, Names, SpinnerStart DEF LoadRun, TypeOK
<1>6. CASE tab \in Lists /\ Start(tab)
  BY <1>6, Names, SpinnerStart
<1>7. ASSUME NEW r \in Requests, Answer(r) \/ Fail(r) PROVE SpinnerInv'
  BY <1>7, SpinnerEnd DEF Answer, Fail
<1>8. QED
  BY <1>2, <1>3, <1>4, <1>5, <1>6, <1>7, Steps

LEMMA SpinnerInit == Init => SpinnerInv
<1> SUFFICES ASSUME Init PROVE SpinnerInv
  OBVIOUS
<1>1. "tasks" \in Requests /\ loading /\ ~crossed
  BY Names DEF Init, Lists
<1>2. \A r \in Requests : inFlight[r] = IF r = "tasks" THEN 1 ELSE 0
  BY DEF Init
<1>3. SpinnerTells
  BY <1>1, <1>2 DEF SpinnerTells
<1>4. Alone(inFlight)
  BY <1>2 DEF Alone
<1>5. QED
  BY <1>3, <1>4 DEF SpinnerInv

LEMMA SpinnerAlways == Spec => []SpinnerInv
BY SpinnerInit, SpinnerStep, TypeCorrect, PTL DEF Spec

(* The spinner that three loads share turns for something, and turns for    *)
(* every load of those that take turns: for any number of runs and requests. *)
THEOREM SpinnerCorrect == Spec => []SpinnerTells
<1>1. SpinnerInv => SpinnerTells
  BY DEF SpinnerInv
<1>2. QED
  BY <1>1, SpinnerAlways, PTL

---------------------------------------------------------------------------
LEMMA ListsShown ==
  ASSUME NEW k \in Lists
  PROVE  /\ ListShown(k) <=> tab = k /\ ~error
         /\ ListShown(k)' <=> tab' = k /\ ~error'
BY DEF ListShown, TasksShown, RankingsShown, Lists

\* A list that is shown while no load of it is in flight was received: a failure
\* of any load hides the lists until another load begins.
ReceivedInv ==
  \A k \in Lists : ListShown(k) /\ inFlight[k] = 0 => lists[k] = "answer"

LEMMA ReceivedStep == TypeOK /\ ReceivedInv /\ [Next]_vars => ReceivedInv'
<1> SUFFICES ASSUME TypeOK, ReceivedInv, [Next]_vars,
                    NEW k \in Lists, tab' = k, ~error', inFlight'[k] = 0
             PROVE  lists'[k] = "answer"
  BY ListsShown DEF ReceivedInv
<1>0. tab = k /\ ~error /\ inFlight[k] = 0 => lists[k] = "answer"
  BY ListsShown DEF ReceivedInv
<1>1. CASE UNCHANGED vars
  BY <1>0, <1>1 DEF vars
<1>2. ASSUME NEW j \in AppTabs, SelectTab(j) PROVE FALSE
  <2>1. j = k /\ Start(k)
    BY <1>2 DEF SelectTab
  <2>2. QED
    BY <2>1, Begun, Names
<1>3. CASE TypeRunId
  BY <1>3, Names DEF TypeRunId
<1>4. CASE tab = "run" /\ LoadRun
  BY <1>4, Names DEF LoadRun
<1>5. CASE tab \in Lists /\ Start(tab) /\ UNCHANGED <<tab, lists, runId, runData>>
  BY <1>5, Begun, Names
<1>6. ASSUME NEW r \in Requests, Answer(r) PROVE lists'[k] = "answer"
  <2>1. tab = k /\ ~error
    BY <1>6 DEF Answer, Lands
  <2>2. CASE r = k
    BY <1>6, <2>2 DEF Answer, Stores, TypeOK
  <2>3. CASE r # k
    <3>1. inFlight[k] = 0
      BY <1>6, <2>3, Ended, Names DEF Answer
    <3>2. lists'[k] = lists[k]
      BY <1>6, <2>3 DEF Answer, Stores, TypeOK
    <3>3. QED
      BY <1>0, <2>1, <3>1, <3>2
  <2>4. QED
    BY <2>2, <2>3
<1>7. ASSUME NEW r \in Requests, Fail(r) PROVE FALSE
  BY <1>7 DEF Fail
<1>8. QED
  BY <1>1, <1>2, <1>3, <1>4, <1>5, <1>6, <1>7, Steps

(* "No tasks available." over tasks that were never received needs a load   *)
(* of the tasks in flight and a load that began over another one, for any   *)
(* number of runs and requests, wherever and in whatever order loads end.   *)
THEOREM EmptyCorrect == Spec => []EmptyIfOvertaken
<1>1. Init => ReceivedInv
  BY DEF Init, ReceivedInv, ListShown, TasksShown, RankingsShown, Lists, Requests
<1>2. TypeOK /\ ReceivedInv /\ SpinnerInv => EmptyIfOvertaken
  <2> SUFFICES ASSUME TypeOK, ReceivedInv, SpinnerInv, NEW k \in Lists, EmptyText(k)
               PROVE  inFlight[k] > 0 /\ crossed
    BY DEF EmptyIfOvertaken
  <2>1. k \in Requests /\ inFlight[k] \in Nat
    BY Names DEF TypeOK
  <2>2. inFlight[k] > 0
    BY <2>1 DEF EmptyText, ReceivedInv
  <2>3. crossed
    BY <2>1, <2>2 DEF EmptyText, SpinnerInv, SpinnerTells
  <2>4. QED
    BY <2>2, <2>3
<1>3. QED
  BY <1>1, <1>2, ReceivedStep, SpinnerAlways, TypeCorrect, PTL DEF Spec

---------------------------------------------------------------------------
\* While the loads of runs take turns, what is in flight is the run asked for
\* last, and nothing else is left on the card once it has ended.
TurnsInv ==
  ~raced =>
    /\ \A i \in RunIds : inFlight[i] > 0 => i = asked
    /\ (\A i \in RunIds : inFlight[i] = 0) => runData \in {NoRunId, asked}

LEMMA TurnsStep == TypeOK /\ TurnsInv /\ [Next]_vars => TurnsInv'
<1> SUFFICES ASSUME TypeOK, TurnsInv, [Next]_vars PROVE TurnsInv'
  OBVIOUS
<1>1. CASE UNCHANGED vars
  BY <1>1 DEF TurnsInv, vars
<1>2. ASSUME NEW k \in Lists, Start(k), UNCHANGED runData PROVE TurnsInv'
  <2>1. \A i \in RunIds : inFlight'[i] = inFlight[i]
    BY <1>2, Begun, Names
  <2>2. UNCHANGED <<asked, raced>>
    BY <1>2, Names DEF Start
  <2>3. QED
    BY <1>2, <2>1, <2>2 DEF TurnsInv
<1>3. ASSUME NEW k \in AppTabs, SelectTab(k) PROVE TurnsInv'
  <2>1. CASE k \in Lists
    BY <1>2, <1>3, <2>1 DEF SelectTab
  <2>2. CASE k \notin Lists
    BY <1>3, <2>2 DEF SelectTab, TurnsInv
  <2>3. QED
    BY <2>1, <2>2
<1>4. CASE TypeRunId
  BY <1>4 DEF TypeRunId, TurnsInv
<1>5. CASE LoadRun
  <2>1. runId \in RunIds /\ runId \in Requests /\ Start(runId)
    BY <1>5, Names DEF LoadRun, TypeOK
  <2>2. asked' = runId /\ raced' = (\E i \in RunIds : inFlight[i] > 0)
    BY <2>1 DEF Start
  <2>3. inFlight'[runId] > 0 /\ inFlight'[runId] \in Nat
    BY <2>1, Begun
  <2>4. \A i \in RunIds \ {runId} : inFlight'[i] = inFlight[i]
    BY <2>1, Begun, Names
  <2>5. QED
    BY <2>1, <2>2, <2>3, <2>4 DEF TurnsInv
<1>6. CASE tab \in Lists /\ Start(tab) /\ UNCHANGED <<tab, lists, runId, runData>>
  BY <1>2, <1>6
<1>7. ASSUME NEW r \in Requests, Answer(r) \/ Fail(r) PROVE TurnsInv'
  <2>0. Lands(r) /\ UNCHANGED <<asked, raced>>
    BY <1>7 DEF Answer, Fail, Lands
  <2>1. inFlight[r] > 0 /\ \A s \in Requests \ {r} : inFlight'[s] = inFlight[s]
    BY <2>0, Ended
  <2>2. CASE r \in RunIds
    <3>1. runData' \in {NoRunId, r}
      BY <1>7, <2>2, Names DEF Answer, Fail, Stores
    <3>2. \A i \in RunIds \ {r} : inFlight'[i] = inFlight[i]
      BY <2>1, Names
    <3>3. QED
      BY <2>0, <2>1, <2>2, <3>1, <3>2 DEF TurnsInv
  <2>3. CASE r \notin RunIds
    <3>1. r \in Lists /\ \A i \in RunIds : inFlight'[i] = inFlight[i]
      BY <2>1, <2>3, Names DEF Requests
    <3>2. runData' = runData
      BY <1>7, <3>1 DEF Answer, Fail, Stores
    <3>3. QED
      BY <2>0, <3>1, <3>2 DEF TurnsInv
  <2>4. QED
    BY <2>2, <2>3
<1>8. QED
  BY <1>1, <1>3, <1>4, <1>5, <1>6, <1>7, Steps

(* The card shows the run asked for last, for every set of runs, as long as *)
(* no two loads of runs were in flight together.                            *)
THEOREM RunCorrect == Spec => []RunShownWasAsked
<1>1. Init => TurnsInv
  BY MobileAssumption DEF Init, TurnsInv, Requests, Lists
<1>2. TurnsInv => RunShownWasAsked
  BY DEF TurnsInv, RunShownWasAsked, RunCard
<1>3. QED
  BY <1>1, <1>2, TurnsStep, TypeCorrect, PTL DEF Spec
=============================================================================
