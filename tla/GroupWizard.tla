---- MODULE GroupWizard ----
(***************************************************************************)
(* The three-step wizard of the pages groups/new and groups/[id]/edit      *)
(* (components/GroupWizard.tsx) in one browser tab.  Its state lives three *)
(* times: in the component while it is mounted, in one sessionStorage key  *)
(* that both pages share, and in the URL of the tab's current history      *)
(* entry.  The tab's history is a sequence of entries; an entry of visit 0 *)
(* is some other page.  "name" stands for all the details.                 *)
(***************************************************************************)
EXTENDS Naturals, Sequences

CONSTANTS MaxVisits,    \* bound: how often a wizard is opened
          MaxEntries,   \* bound: length of the tab's history
          MaxPending    \* bound: submissions under way

STEP_ORDER == <<"details", "members", "review">>
StepIndex == [details |-> 1, members |-> 2, review |-> 3]

\* What validateAllocation and the name and address checks tell apart.
Lists == {"none", "bad", "good"}
Names == {"", "valid"}

VARIABLES
  entries,     \* session history: [visit, step, name]; step "" = no ?step=
  at,          \* the current entry
  modes,       \* the page of each visit: "create" or "edit"
  wizard,      \* the mounted component's state, or None
  storage,     \* sessionStorage["group-wizard-state"], or None
  submitting,  \* the mounted page's isSubmitting
  pending,     \* submissions whose two seconds are not over
  trail,       \* history: of each visit, "stepwise" when it opened at details
               \* and no popstate took one step for several entries of it,
               \* or for another visit's entry; else "skipped"
  unchecked    \* history: mounted at a step of its URL that the stored state
               \* had not come to; until the wizard is at details

wizardVars == <<entries, at, modes, wizard, storage, submitting, pending,
                trail, unchecked>>

None == [step |-> "", name |-> "", members |-> "none", visit |-> 0]
Elsewhere == [visit |-> 0, step |-> "", name |-> ""]
Mounted == wizard # None
Visit == entries[at].visit

WizardInit ==
  /\ entries = <<Elsewhere>> /\ at = 1
  /\ modes = <<>> /\ trail = <<>>
  /\ wizard = None /\ storage = None
  /\ submitting = FALSE /\ pending = 0 /\ unchecked = FALSE

Or(value, default) == IF value # "" THEN value ELSE default

\* The effect after every state change: the state is saved, and the current
\* entry's URL is rewritten.  An empty name leaves the URL's name as it is.
Rewritten(history, i, state) ==
  [history EXCEPT ![i].step = state.step, ![i].name = Or(state.name, @)]

Persist(history, state) ==
  /\ wizard' = state
  /\ storage' = state
  /\ entries' = Rewritten(history, at', state)
  /\ unchecked' = (unchecked /\ state.step # "details")

\* The lazy initial state.  The edit page mounts the wizard with the group
\* it loaded; URL parameters win over that, and that over what is stored.
Restored(mode, url) ==
  LET loaded == mode = "edit"
      base == IF loaded THEN [None EXCEPT !.step = "details",
                                          !.name = "valid",
                                          !.members = "good"]
              ELSE IF storage # None THEN storage
              ELSE [None EXCEPT !.step = "details"]
  IN [base EXCEPT !.step = Or(url.step, @), !.name = Or(url.name, @),
                  !.visit = url.visit]

\* The URL's step wins over a stored state that is another visit's, none or
\* at an earlier step.
Ahead(url) ==
  /\ url.step # ""
  /\ \/ storage.visit # url.visit
     \/ StepIndex[url.step] > StepIndex[storage.step]

Mount(history, mode) ==
  LET url == history[at']
      state == Restored(mode, url)
  IN /\ wizard' = state
     /\ storage' = state
     /\ entries' = Rewritten(history, at', state)
     /\ unchecked' = /\ state.step # "details" /\ mode = "create"
                     /\ unchecked \/ Ahead(url)
     /\ submitting' = FALSE

Unmount == wizard' = None /\ submitting' = FALSE

\* pushState and router.push drop the entries after the current one.
Pushed(entry) == Append(SubSeq(entries, 1, at), entry)

\* A link to groups/new, or to a group's edit page, which has loaded.
Open(mode) ==
  /\ ~Mounted /\ Len(modes) < MaxVisits /\ at < MaxEntries
  /\ at' = at + 1
  /\ modes' = Append(modes, mode)
  /\ Mount(Pushed([Elsewhere EXCEPT !.visit = Len(modes) + 1]), mode)
  /\ trail' = Append(trail, IF wizard'.step = "details" THEN "stepwise"
                            ELSE "skipped")
  /\ UNCHANGED pending

\* A link out of the wizard.
Leave ==
  /\ Mounted /\ at < MaxEntries
  /\ at' = at + 1 /\ entries' = Pushed(Elsewhere)
  /\ Unmount
  /\ UNCHANGED <<modes, storage, pending, trail, unchecked>>

\* Mutant: popstate keeps the review step.
StepBeforeMembers(step) ==
  IF step = "members" THEN "details" ELSE step

\* The step one popstate event moves to, from either direction.
StepBefore(step) ==
  IF step = "details" THEN step ELSE STEP_ORDER[StepIndex[step] - 1]

\* The tab arrives at entry i while the component holds "state". Popstate
\* fires once, for however many entries, where the component stays: within
\* a visit, and on the same page in one document. Otherwise a page mounts.
Arrive(i, state) ==
  LET there == entries[i].visit
      left == IF state = None THEN entries ELSE Rewritten(entries, at, state)
  IN
  /\ at' = i
  /\ \/ /\ there = 0 /\ Unmount
        /\ storage' = IF state = None THEN storage ELSE state
        /\ entries' = left
        /\ UNCHANGED <<trail, unchecked>>
     \/ /\ there # 0 /\ Mounted /\ modes[there] = modes[Visit]
        /\ Persist(left, [state EXCEPT !.step = StepBefore(@), !.visit = there])
        /\ trail' = IF there = Visit /\ i >= at - 1 THEN trail
                   ELSE [trail EXCEPT ![there] = "skipped"]
        /\ UNCHANGED submitting
     \/ /\ there # 0 /\ there # Visit
        /\ Mount(left, modes[there])
        /\ UNCHANGED trail

\* Back, Forward, or a longer way through the tab's history.
Traverse(i) ==
  /\ i # at /\ Arrive(i, wizard)
  /\ UNCHANGED <<modes, pending>>

ReloadPage ==
  /\ Mounted
  /\ at' = at
  /\ Mount(entries, modes[Visit])
  /\ pending' = 0
  /\ UNCHANGED <<modes, trail>>

EditDetails(name) ==
  /\ Mounted /\ wizard.step = "details" /\ wizard.name # name
  /\ at' = at
  /\ Persist(entries, [wizard EXCEPT !.name = name])
  /\ UNCHANGED <<modes, submitting, pending, trail>>

EditMembers(list) ==
  /\ Mounted /\ wizard.step = "members" /\ ~submitting
  /\ wizard.members # list
  /\ at' = at
  /\ Persist(entries, [wizard EXCEPT !.members = list])
  /\ UNCHANGED <<modes, submitting, pending, trail>>

\* Mutant: the members step only asks for some member.
CanProceedWithSome(state) ==
  IF state.step = "details" THEN state.name # "" ELSE state.members # "none"

CanProceed(state) ==
  CASE state.step = "details" -> state.name # ""
    [] state.step = "members" -> state.members = "good"

NextStep ==
  /\ Mounted /\ wizard.step # "review" /\ ~submitting
  /\ CanProceed(wizard) /\ at < MaxEntries
  /\ at' = at + 1
  /\ LET next == STEP_ORDER[StepIndex[wizard.step] + 1] IN
     Persist(Pushed([visit |-> Visit, step |-> next, name |-> ""]),
             [wizard EXCEPT !.step = next])
  /\ UNCHANGED <<modes, submitting, pending, trail>>

\* The wizard's own Back button sets the step before and calls
\* history.back(), whose popstate then moves one more step (bound: the
\* traversal ends before the user's next click).
GoToPreviousStep ==
  /\ Mounted /\ wizard.step # "details" /\ ~submitting
  /\ at > 1
  /\ Arrive(at - 1, [wizard EXCEPT !.step = StepBefore(@)])
  /\ UNCHANGED <<modes, pending>>

\* The progress bar leads to earlier steps only.
GoToStep(step) ==
  /\ Mounted /\ ~submitting
  /\ StepIndex[step] < StepIndex[wizard.step]
  /\ at' = at
  /\ Persist(entries, [wizard EXCEPT !.step = step])
  /\ UNCHANGED <<modes, submitting, pending, trail>>

\* The pages wait two seconds in place of the call they are to make.
SubmitWizard ==
  /\ Mounted /\ wizard.step = "review" /\ ~submitting
  /\ pending < MaxPending
  /\ submitting' = TRUE /\ pending' = pending + 1
  /\ UNCHANGED <<entries, at, modes, wizard, storage, trail, unchecked>>

\* The wait is over: the router goes to the groups, or to the group, and the
\* key is removed - also when the user has moved on, unless the document of
\* the submission was unloaded (Abandon).
Finish ==
  /\ pending > 0 /\ at < MaxEntries
  /\ pending' = pending - 1
  /\ at' = at + 1 /\ entries' = Pushed(Elsewhere)
  /\ storage' = None
  /\ Unmount
  /\ UNCHANGED <<modes, trail, unchecked>>

Abandon ==
  /\ pending > 0 /\ ~submitting
  /\ pending' = pending - 1
  /\ UNCHANGED <<entries, at, modes, wizard, storage, submitting, trail,
                 unchecked>>

WizardNext ==
  \/ \E mode \in {"create", "edit"} : Open(mode)
  \/ Leave \/ ReloadPage
  \/ \E i \in DOMAIN entries : Traverse(i)
  \/ \E name \in Names : EditDetails(name)
  \/ \E list \in Lists : EditMembers(list)
  \/ NextStep \/ GoToPreviousStep
  \/ \E step \in DOMAIN StepIndex : GoToStep(step)
  \/ SubmitWizard \/ Finish \/ Abandon

WizardSpec == WizardInit /\ [][WizardNext]_wizardVars

(***************************************************************************)
(* Properties.                                                             *)
(***************************************************************************)

\* What is reviewed passed both checks, however the user came to the review
\* step: forward, back, over several entries, through a reload or from
\* storage. The one way around them is a page that mounts at a step of its
\* URL the stored state had not come to (SubmissionBlocked).
ReviewIsValid ==
  Mounted /\ wizard.step = "review" /\ ~unchecked =>
    wizard.name # "" /\ wizard.members = "good"

\* "Browser back button moves between steps instead of dumping user out"
\* (GroupWizard.tsx line 41): past the first step of a visit that opened
\* there, the entry before the current one is the wizard's too, unless one
\* popstate, which moves one step, went back over several entries.
BackStaysInside ==
  Mounted /\ wizard.step # "details" /\ trail[Visit] = "stepwise" =>
    entries[at - 1].visit = Visit

\* Claimed of the member step's allocator: its indicator "blocks submission
\* unless total is exactly 10000" (Allocator.tsx line 20).
SubmissionBlocked == submitting => wizard.members = "good"
====
