---- MODULE ProfileEditor ----
\* The review screen of a loaded profile and its staged editor
\* (_step_profile_review, _step_profile_editor_inner), over the user data and the
\* value resolution of ValueProvenance.  Kinematics and the two thermistors are
\* edited the way a limit is.
EXTENDS ValueProvenance

VARIABLES screen, \* "wizard", "review" or "editor"
          shown,  \* the defaults and sections the review screen works on
          draft,  \* the editor's copies: user data, shown, and the keys set in them;
                  \* outside the editor, fresh ones
          before  \* the runner's snapshot from before the profile step
evars == <<vars, screen, shown, draft, before>>

Geometry == {"z_size", "z_position_max", "z_position_endstop"}
Shown == Geometry \cup {Direction}

\* The sections and defaults kept in the user data are the profile's own.
Loaded(p) == [k \in Shown |-> IF ProfileSays[p][k] # Absent THEN ProfileSays[p][k]
                              ELSE IF k \in Geometry THEN SafeDefault[k] ELSE Absent]
Draft(u, s) == [user |-> u, shown |-> s, touched |-> {}]

Blank == [k \in Shown |-> Absent]
EInit == /\ Init
         /\ screen = "wizard"
         /\ shown = Blank
         /\ draft = Draft(user, shown)
         /\ before = user

\* _step_printer_profile, and the review step that follows it.
StepProfile(p) ==
    /\ screen = "wizard" /\ LoadProfile(p)
    /\ before' = user /\ screen' = "review" /\ shown' = Loaded(p)
    /\ draft' = Draft(user', shown')

OpenEditor ==
    /\ screen = "review" /\ screen' = "editor"
    /\ UNCHANGED <<vars, shown, draft, before>>

Drafted(u, s, ks) ==
    /\ screen = "editor"
    /\ draft' = [user |-> u, shown |-> s, touched |-> draft.touched \cup ks]
    /\ UNCHANGED <<vars, screen, shown, before>>

\* A bed larger than the travel raises the travel, which is not marked as his.
EditVolume(v) ==
    LET raised == IF draft.user.value["z_position_max"] < v THEN v ELSE draft.user.value["z_position_max"]
    IN  Drafted(MarkUserOverride([draft.user EXCEPT !.value["z_size"] = v,
                                                    !.value["z_position_max"] = raised], {"z_size"}),
                [draft.shown EXCEPT !["z_size"] = v, !["z_position_max"] =
                     IF draft.user.value["z_position_max"] < v THEN v ELSE @],
                {"z_size"})

\* Mutant: a typed limit is stored but not marked as the operator's.
EditUnmarked(k, v) ==
    Drafted([draft.user EXCEPT !.value[k] = v], [draft.shown EXCEPT ![k] = v], {k})
EditLimit(k, v) ==
    Drafted(MarkUserOverride([draft.user EXCEPT !.value[k] = v], {k}),
            [draft.shown EXCEPT ![k] = v], {k})

\* Automatic takes the profile's directive out of the draft.
EditDirection(mode) ==
    LET u == draft.user
    IN  /\ mode = "auto" => InferHomingPositiveDir(u.value["z_position_endstop"],
                                                  u.value["z_position_max"]) # Absent
        /\ Drafted(ApplyHomingDirection(u, mode),
                   [draft.shown EXCEPT ![Direction] =
                        IF mode = "auto" THEN Absent ELSE IF mode = "max" THEN 1 ELSE 0],
                   {Direction})

Valid(u) == /\ 0 < u.value["z_position_max"]
            /\ u.value["z_position_endstop"] \in 0..u.value["z_position_max"]
            /\ u.value["z_size"] <= u.value["z_position_max"]

\* Mutant: the copies are committed as they are.
SaveUnchecked ==
    /\ screen = "editor" /\ screen' = "review"
    /\ user' = draft.user /\ shown' = draft.shown
    /\ edited' = edited \cup draft.touched
    /\ draft' = Draft(user', shown')
    /\ UNCHANGED <<typed, viewed, before>>
\* The user data are replaced by the copy, the profile they were loaded with included.
Save ==
    /\ screen = "editor" /\ Valid(draft.user)
    /\ screen' = "review"
    /\ user' = draft.user /\ shown' = draft.shown
    /\ edited' = edited \cup draft.touched
    /\ draft' = Draft(user', shown')
    /\ UNCHANGED <<typed, viewed, before>>

\* "Back" in the menu, and in any of the text prompts.
Discard ==
    /\ screen = "editor" /\ screen' = "review"
    /\ draft' = Draft(user, shown)
    /\ UNCHANGED <<vars, shown, before>>

Leave == /\ screen' = "wizard" /\ shown' = Blank
         /\ draft' = Draft(user', shown') /\ before' = user'
Confirm ==
    /\ screen = "review"
    /\ UNCHANGED vars
    /\ Leave

\* The profile is dropped and the runner restores the snapshot before its step.
ReviewBack ==
    /\ screen = "review" /\ user' = before /\ Leave
    /\ edited' = {k \in Keys : before.owner[k] \in {"USER_OVERRIDE", "INFERRED"}}
    /\ UNCHANGED <<typed, viewed>>

\* The later step that asks for the direction.
HomingDirections(mode) ==
    /\ screen = "wizard" /\ user.profile # NoProfile
    /\ StepHomingDirection(mode) /\ Leave

ENext ==
    \/ \E p \in Profiles : StepProfile(p)
    \/ OpenEditor
    \/ \E v \in Travels : EditVolume(v)
    \/ \E v \in Travels : EditLimit("z_position_max", v)
    \/ \E v \in Endstops : EditLimit("z_position_endstop", v)
    \/ \E mode \in {"auto", "min", "max"} : EditDirection(mode) \/ HomingDirections(mode)
    \/ Save
    \/ Discard
    \/ Confirm
    \/ ReviewBack

ESpec == EInit /\ [][ENext]_evars

----
\* What the operator typed in the editor and saved is what is generated and what
\* the review shows, also where the profile states something else.
SavedIsGenerated ==
    (screen = "review" /\ user.profile # NoProfile) =>
        \A k \in edited \cap Geometry : Resolved(user, k) = user.value[k] /\ shown[k] = user.value[k]

\* Unfinished edits never reach the user data: the editor changes them only as a
\* whole, and only to a bed and an endstop that lie inside the travel.
OnlyWholeEdits == [][(screen = "editor" /\ user' # user) => (screen' = "review" /\ Valid(user'))]_evars

\* "Safe adjustment to avoid validation errors if mechanical limits are smaller":
\* a larger bed, once saved, is not refused because the travel was smaller.
SavedBedFits ==
    "z_size" \in edited => Resolved(user, "z_size") <= Resolved(user, "z_position_max")
====
