---------------------------- MODULE UploadStudio ----------------------------
(***************************************************************************)
(* The submission studio, /upload: the form, handleSubmit's two requests   *)
(* (lib/api.ts) and the proxy route they pass, which carries no            *)
(* Idempotency-Key, over a server that creates runs and stores artifacts.  *)
(*                                                                         *)
(* A request is sent, performed by the server or refused, and answered; a  *)
(* connection may break before or after the server has performed it, and   *)
(* no request of the studio has a timeout.  The inputs are not disabled    *)
(* while a submission is in progress, and the page may be left for another *)
(* or reloaded at any moment: what it has sent stays sent, and handleSubmit *)
(* of a page that was left goes on where nobody sees it.                   *)
(***************************************************************************)
EXTENDS Naturals, Sequences, FiniteSets

CONSTANTS
  Ids,           \* run ids a user may type
  Blank,         \* an empty or blank id: the server generates one
  Metas,         \* choices of environment, agent and track
  Slots,         \* the artifact slots
  Contents,      \* Contents[s]: the files a user may attach in slot s
  NoFile, NoRun,
  MaxTries,      \* bound: submissions that pass validation
  MaxVisits      \* bound: times the page is opened again

ASSUME StudioAssumption ==
  /\ "metrics" \in Slots
  /\ DOMAIN Contents = Slots
  /\ \A s \in Slots : Contents[s] # {} /\ NoFile \notin Contents[s]
  /\ Ids \cap Nat = {} /\ Blank \notin Ids \cup Nat /\ NoRun \notin Ids \cup Nat
  /\ MaxTries \in Nat /\ MaxVisits \in Nat

VARIABLES
  page,      \* the state of the page
  tries,     \* the submissions so far, and what became of their requests
  runs,      \* runs[r]: a run on the server, for the ids that exist
  visits

studioVars == <<page, tries, runs, visits>>

NoFiles == [s \in Slots |-> NoFile]
FreshForm(meta) == [keyed |-> FALSE, id |-> Blank, meta |-> meta, files |-> NoFiles]

\* What the links to the studio preset is in the form when it opens.
FreshPage(meta) ==
  [form |-> FreshForm(meta), touched |-> FALSE, error |-> "none", result |-> NoRun,
   try |-> 0]

\* A request: not sent yet; sent; performed and answered; refused; its connection
\* broken with the server still to serve it; served, and the answer lost.
RequestStates == {"unsent", "sent", "ok", "refused", "broken", "lost"}

\* Where handleSubmit of a submission is.
Stages == {"creating", "uploading", "over"}

\* The last submission of this page, 0 before the first.
Current == page.try

StudioInit ==
  /\ \E meta \in Metas : page = FreshPage(meta)
  /\ tries = <<>>
  /\ runs = [r \in {} |-> NoRun]
  /\ visits = 0

-----------------------------------------------------------------------------
(* The user *)

\* A field is edited, also while a submission is in progress.
Edit(form) ==
  /\ page' = [page EXCEPT !.form = form]
  /\ UNCHANGED <<tries, runs, visits>>

EditKey == Edit([page.form EXCEPT !.keyed = ~@])
EditId(id) == Edit([page.form EXCEPT !.id = id])
EditMeta(meta) == Edit([page.form EXCEPT !.meta = meta])

\* A file is dropped, picked, replaced or removed.
Attach(s, file) == Edit([page.form EXCEPT !.files[s] = file])

\* The checks of handleSubmit, in their order.
Complaint(form) ==
  IF ~form.keyed THEN "key"
  ELSE IF form.files["metrics"] = NoFile THEN "metrics" ELSE "none"

\* The button is off, and says so, while a submission is in progress.
Submitting == Current # 0 /\ tries[Current].stage # "over"

\* The card "Run published".
ResultCard == page.result # NoRun

Submission(form) ==
  [form |-> form, stage |-> "creating", create |-> "sent", upload |-> "unsent",
   run |-> NoRun, files |-> NoFiles]

Submit ==
  LET complaint == Complaint(page.form) IN
  /\ ~Submitting
  /\ IF complaint # "none" THEN UNCHANGED tries
     ELSE Len(tries) < MaxTries /\ tries' = Append(tries, Submission(page.form))
  /\ page' = [page EXCEPT !.touched = TRUE, !.error = complaint, !.result = NoRun,
                          !.try = IF complaint = "none" THEN Len(tries') ELSE @]
  /\ UNCHANGED <<runs, visits>>

Visit ==
  /\ visits < MaxVisits
  /\ visits' = visits + 1
  /\ \E meta \in Metas : page' = FreshPage(meta)
  /\ UNCHANGED runs

\* The page is left, by "Cancel" or another link, and opened again.
Return == Visit /\ UNCHANGED tries

\* The browser loads the document anew: nothing of the page goes on.
Reload == Visit /\ tries' = [n \in DOMAIN tries |-> [tries[n] EXCEPT !.stage = "over"]]

-----------------------------------------------------------------------------
(* handleSubmit goes on with an answer; a page that is gone shows nothing of it *)

At(n, stage) == tries[n].stage = stage
Shows(n, after) == page' = IF n = Current THEN after ELSE page

\* MUTANT: the files of the form are read when they are sent.
CreatedNow(n) ==
  /\ At(n, "creating") /\ tries[n].create = "ok"
  /\ tries' = [tries EXCEPT ![n] =
       [@ EXCEPT !.stage = "uploading", !.upload = "sent",
                 !.files = IF n = Current THEN page.form.files ELSE tries[n].form.files]]
  /\ UNCHANGED <<page, runs, visits>>

Created(n) ==
  /\ At(n, "creating") /\ tries[n].create = "ok"
  /\ tries' = [tries EXCEPT ![n] =
       [@ EXCEPT !.stage = "uploading", !.upload = "sent", !.files = tries[n].form.files]]
  /\ UNCHANGED <<page, runs, visits>>

\* The id of the run takes the place of what the field holds by now.
Uploaded(n) ==
  /\ At(n, "uploading") /\ tries[n].upload = "ok"
  /\ tries' = [tries EXCEPT ![n].stage = "over"]
  /\ Shows(n, [page EXCEPT !.result = tries[n].run, !.form.id = tries[n].run])
  /\ UNCHANGED <<runs, visits>>

Failed(state) == state \in {"refused", "broken", "lost"}

\* catch and finally.
Ends(n) ==
  /\ tries' = [tries EXCEPT ![n].stage = "over"]
  /\ Shows(n, [page EXCEPT !.error = "failed"])

\* MUTANT: a run that exists is gone on with.
CreateResumes(n) ==
  /\ At(n, "creating") /\ Failed(tries[n].create)
  /\ IF tries[n].create = "refused" /\ tries[n].form.id \in DOMAIN runs
     THEN /\ tries' = [tries EXCEPT ![n] =
               [@ EXCEPT !.stage = "uploading", !.upload = "sent",
                         !.files = tries[n].form.files, !.run = tries[n].form.id]]
          /\ UNCHANGED page
     ELSE Ends(n)
  /\ UNCHANGED <<runs, visits>>

\* MUTANT: a create whose connection broke is sent again.
CreateAgain(n) ==
  /\ At(n, "creating") /\ Failed(tries[n].create)
  /\ IF tries[n].create = "refused" THEN Ends(n)
     ELSE tries' = [tries EXCEPT ![n].create = "sent"] /\ UNCHANGED page
  /\ UNCHANGED <<runs, visits>>

CreateFails(n) ==
  /\ At(n, "creating") /\ Failed(tries[n].create)
  /\ Ends(n)
  /\ UNCHANGED <<runs, visits>>

UploadFails(n) ==
  /\ At(n, "uploading") /\ Failed(tries[n].upload)
  /\ Ends(n)
  /\ UNCHANGED <<runs, visits>>

-----------------------------------------------------------------------------
(* The proxy and the server.  What a request does on the server is one step *)
(* here: RunLifecycle and Idempotency take it apart.                        *)

\* The answer reaches the page, or the proxy route answers 502 in its place.
Answers(state) == IF state = "sent" THEN {"ok", "lost"} ELSE {"lost"}
Refusal(state) == IF state = "sent" THEN "refused" ELSE "lost"

Generated == 1 + Cardinality(DOMAIN runs \ Ids)

CreateRun(n) ==
  LET form == tries[n].form
      id == IF form.id = Blank THEN Generated ELSE form.id IN
  /\ tries[n].create \in {"sent", "broken"}
  /\ IF id \in DOMAIN runs
     THEN /\ tries' = [tries EXCEPT ![n].create = Refusal(@)]
          /\ UNCHANGED runs
     ELSE /\ \E answer \in Answers(tries[n].create) :
               tries' = [tries EXCEPT ![n] = [@ EXCEPT !.create = answer, !.run = id]]
          /\ runs' = [r \in DOMAIN runs \cup {id} |->
               IF r = id THEN [by |-> n, meta |-> form.meta, files |-> NoFiles] ELSE runs[r]]
  /\ UNCHANGED <<page, visits>>

StoreArtifacts(n) ==
  /\ tries[n].upload \in {"sent", "broken"}
  /\ \E answer \in Answers(tries[n].upload) : tries' = [tries EXCEPT ![n].upload = answer]
  /\ runs' = [runs EXCEPT ![tries[n].run].files = tries[n].files]
  /\ UNCHANGED <<page, visits>>

\* 401, 413, 422, 429, 500 and the 502 of a store that fails.
Refuse(n) ==
  /\ \/ tries[n].create = "sent" /\ tries' = [tries EXCEPT ![n].create = "refused"]
     \/ tries[n].upload = "sent" /\ tries' = [tries EXCEPT ![n].upload = "refused"]
  /\ UNCHANGED <<page, runs, visits>>

\* The connection breaks while the server has yet to perform the request.
Break(n) ==
  /\ \/ tries[n].create = "sent" /\ tries' = [tries EXCEPT ![n].create = "broken"]
     \/ tries[n].upload = "sent" /\ tries' = [tries EXCEPT ![n].upload = "broken"]
  /\ UNCHANGED <<page, runs, visits>>

\* Another client publishes a run under an id.
Elsewhere(id) ==
  /\ id \notin DOMAIN runs
  /\ \E meta \in Metas :
       runs' = [r \in DOMAIN runs \cup {id} |->
         IF r = id THEN [by |-> 0, meta |-> meta,
                         files |-> [s \in Slots |-> CHOOSE file \in Contents[s] : TRUE]]
         ELSE runs[r]]
  /\ UNCHANGED <<page, tries, visits>>

StudioNext ==
  \/ EditKey
  \/ \E id \in Ids \cup {Blank} : EditId(id)
  \/ \E meta \in Metas : EditMeta(meta)
  \/ \E s \in Slots : \E file \in Contents[s] \cup {NoFile} : Attach(s, file)
  \/ Submit \/ Return \/ Reload
  \/ \E n \in 1 .. Len(tries) :
       \/ Created(n) \/ Uploaded(n) \/ CreateFails(n) \/ UploadFails(n)
       \/ CreateRun(n) \/ StoreArtifacts(n) \/ Refuse(n) \/ Break(n)
  \/ \E id \in Ids : Elsewhere(id)

StudioSpec == StudioInit /\ [][StudioNext]_studioVars

-----------------------------------------------------------------------------
\* "Run ... is now live on the leaderboard": the run the card names is on the
\* server with the metadata and every file of the submission it reports, as they
\* were when the button was pressed, whatever was edited, broke or was answered
\* late in between.
SuccessIsComplete ==
  ResultCard =>
    /\ page.result \in DOMAIN runs
    /\ runs[page.result] = [by |-> Current, meta |-> tries[Current].form.meta,
                                files |-> tries[Current].form.files]

\* Without an Idempotency-Key the server cannot tell a retry from another run: a
\* submission must not leave more than one run behind, however its requests end.
OneRunPerTry ==
  \A n \in 1 .. Len(tries) :
    Cardinality({r \in DOMAIN runs : runs[r].by = n}) <= 1

\* A run that has its artifacts is never written by the studio again: not by a
\* retry under its id, nor by a request of an earlier page that arrives late.
PublishedRunsStay ==
  [][\A r \in DOMAIN runs : runs[r].files # NoFiles => runs'[r] = runs[r]]_runs
=============================================================================
