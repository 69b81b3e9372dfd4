--------------------------- MODULE NativeApproval ---------------------------
(***************************************************************************)
(* The authority of delegated children.  Every run is admitted with a      *)
(* frozen envelope, taken from the configuration of the caller or of the   *)
(* target; a child that delegates in its turn, or resumes an older session, *)
(* does so under the envelope of its own run (native_approval.py).  Who may *)
(* resume a session is not asked here: anyone may try.                     *)
(***************************************************************************)
CONSTANTS
  Homes,   \* profile homes
  Globs,   \* patterns of approvals.deny
  Grants   \* contents of command_allowlist

VARIABLES
  config,  \* the configuration of every profile
  runs     \* the runs that were admitted

vars == <<config, runs>>

Modes    == {"deny", "profile", "inherit", "yolo"}
Postures == [mode : {"manual", "smart", "off"},
             single : {"approve", "deny"}, unattended : {"approve", "deny"}]
Config   == [posture : Postures, deny : SUBSET Globs, grants : Grants]

Envelope == [effective : Modes, target : Homes, native : Config, bypass : BOOLEAN]

\* above: history, the envelopes of the runs it was delegated by, up to the operator's.
Run == [envelope : Envelope, above : SUBSET Envelope]

TypeOK ==
  /\ config \in [Homes -> Config]
  /\ runs \subseteq Run

\* The posture that deny forces; permanent grants stay.
Strict == [mode |-> "manual", single |-> "deny", unattended |-> "deny"]

Narrowed(native, mode) ==
  IF mode = "deny" THEN [native EXCEPT !.posture = Strict] ELSE native

\* validate: a deny envelope with any other authority is refused.
Valid(e) == e.effective = "deny" => ~ e.bypass /\ e.native.posture = Strict

-----------------------------------------------------------------------------
(* snapshot                                                                 *)

\* Without an ancestor: the operator's own selection.
Granted(mode, source, target, yolo) ==
  [effective |-> mode,
   target    |-> target,
   native    |-> Narrowed([source EXCEPT !.deny = @ \cup config[target].deny], mode),
   bypass    |-> /\ mode # "deny"
                 /\ \/ mode = "yolo"
                    \/ mode = "inherit" /\ yolo
                    \/ source.posture.mode = "off"]

\* Nested: deny stays deny, and anything else is inherited or denied.
Allowed(mode, a) == IF a.effective = "deny" THEN mode = "deny" ELSE mode \in {"inherit", "deny"}

Inherited(mode, a, target) ==
  [effective |-> mode,
   target    |-> target,
   native    |-> Narrowed([a.native EXCEPT !.deny = @ \cup config[target].deny], mode),
   bypass    |-> mode = "inherit" /\ a.bypass]

\* admit_resume: a frozen envelope under an ancestor it was not taken from.
Compatible(e, a) ==
  /\ Valid(e) /\ Valid(a)
  /\ a.native.deny \subseteq e.native.deny
  /\ e.native.grants = a.native.grants
  /\ \/ e.effective = "deny" /\ ~ e.bypass /\ e.native.posture = Strict
     \/ /\ e.effective = "inherit" /\ a.effective # "deny"
        /\ e.bypass = a.bypass
        /\ e.native.posture = a.native.posture

-----------------------------------------------------------------------------
Admit(e, above) == runs' = runs \cup {[envelope |-> e, above |-> above]} /\ UNCHANGED config

Below(r) == r.above \cup {r.envelope}

\* A process without an ancestor delegates, perhaps under its own frozen yolo.
Delegate(home, target, mode, yolo) ==
  Admit(Granted(mode, IF mode = "inherit" THEN config[home] ELSE config[target], target, yolo), {})

\* The child of run r delegates; the same home would contend with it.
DelegateNested(r, target, mode) ==
  /\ target # r.envelope.target
  /\ Valid(r.envelope) /\ Allowed(mode, r.envelope)
  /\ Admit(Inherited(mode, r.envelope, target), Below(r))

\* A session is resumed under its frozen envelope, whatever is configured now.
Resume(s) ==
  /\ Valid(s.envelope)
  /\ Admit(s.envelope, {})

ResumeNested(r, s) ==
  /\ s.envelope.target # r.envelope.target
  /\ Compatible(s.envelope, r.envelope)
  /\ Admit(s.envelope, Below(r))

OperatorEdits ==
  /\ config' \in [Homes -> Config]
  /\ UNCHANGED runs

Init == config \in [Homes -> Config] /\ runs = {}

Next ==
  \/ \E home, target \in Homes, mode \in Modes, yolo \in BOOLEAN : Delegate(home, target, mode, yolo)
  \/ \E r \in runs, target \in Homes, mode \in Modes : DelegateNested(r, target, mode)
  \/ \E s \in runs : Resume(s)
  \/ \E r, s \in runs : ResumeNested(r, s)
  \/ OperatorEdits

Spec == Init /\ [][Next]_vars

-----------------------------------------------------------------------------
(* Safety *)

\* e grants nothing that a does not: no bypass, no permanent grant, no lesser
\* prohibition, no easier posture; under deny there is only deny.
NoWider(e, a) ==
  /\ e.bypass => a.bypass
  /\ e.native.grants = a.native.grants
  /\ a.native.deny \subseteq e.native.deny
  /\ e.native.posture \in {a.native.posture, Strict}
  /\ a.effective = "deny" => e.effective = "deny"

\* However deep a run was delegated, and however old the session it resumes, it has
\* no authority that any of the runs above it lacks.
AuthorityNarrows == \A r \in runs : \A a \in r.above : NoWider(r.envelope, a)

\* What snapshot writes, validate accepts: no session is lost to its own envelope.
EveryEnvelopeIsValid == \A r \in runs : Valid(r.envelope)
=============================================================================
