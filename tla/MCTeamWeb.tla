------------------------------ MODULE MCTeamWeb ------------------------------
(* One instance each of what the pages of the web process read and write: the files
   of a team's tasks, the handlers that change its tasks and artifacts, its other files,
   its webhooks, the proofs of the credit system and a live room; and of the announcements
   the daemon keeps in Redis for them.  They share no state in the model, so "part" picks
   the one that runs and the others rest. *)
EXTENDS TaskIndexStore, TeamDesk, TeamFiles, WebhookDelivery, CreditStore, LiveRoom,
        AnnouncementCache, TLC

CONSTANTS task1, task2, w1, w2, p1, p2, d1

(* Two tasks, one of them in the older file. *)
OneLegacy == (task1 :> 1) @@ (task2 :> 0)

Everything == [allowed |-> Actions, rules |-> <<>>]
Strict == [allowed |-> Actions \ {"task.create", "artifact.create"},
           rules |-> [done |-> {"open"}, open |-> {"doing"}]]
TwoPolicies == {Everything, Strict}

(* Batches of two messages in the incident and the review room; the races of three
   requests of the task pages in the plan room, which has none of its own; the rest of
   the rooms only differ by kinds. *)
SomePosts == [r \in DOMAIN Kinds |-> IF r \in {"incident", "review"} THEN 2 ELSE 1]
SomeRequests == [r \in DOMAIN Kinds |-> IF r \in {"incident", "review"} THEN 2
                                        ELSE IF r = "plan" THEN 3 ELSE 1]

(* Two proofs of one day, which is old enough for the tool. *)
OneDay == [p \in Proofs |-> d1]

(* Three announcements in two channels, one of them without topics. *)
TheChannels == <<"c", "c", "d">>
TheTopics == <<{"t"}, {}, {"t", "u"}>>

VARIABLE part
webvars == <<part, vars, deskvars, filevars, hookvars, creditvars, livevars, cvars>>

Parts == {"store", "desk", "files", "hooks", "credit", "live", "cache"}
WebInit == /\ part \in Parts
           /\ Init /\ DeskInit /\ FilesInit /\ HooksInit /\ CreditInit /\ LiveInit /\ CacheInit
           \* a part that rests starts one way only
           /\ part # "desk" => room = "plan" /\ policy = Everything
           /\ part # "files" => members.form = "none"
           /\ part # "live" => ~redis

StoreRuns(A) == /\ part = "store" /\ A
                /\ UNCHANGED <<part, deskvars, filevars, hookvars, creditvars, livevars, cvars>>
DeskRuns(A) == /\ part = "desk" /\ A
               /\ UNCHANGED <<part, vars, filevars, hookvars, creditvars, livevars, cvars>>
FilesRuns(A) == /\ part = "files" /\ A
                /\ UNCHANGED <<part, vars, deskvars, hookvars, creditvars, livevars, cvars>>
HooksRuns(A) == /\ part = "hooks" /\ A
                /\ UNCHANGED <<part, vars, deskvars, filevars, creditvars, livevars, cvars>>
CreditRuns(A) == /\ part = "credit" /\ A
                 /\ UNCHANGED <<part, vars, deskvars, filevars, hookvars, livevars, cvars>>
(* With Redis, where only the types are checked, one writer runs that does not stop. *)
LiveRuns(A) == /\ part = "live" /\ A
               /\ UNCHANGED <<part, vars, deskvars, filevars, hookvars, creditvars, cvars>>
               /\ redis => liveCrashes' = 0 /\ taken'["b"] = {}
CacheRuns(A) == /\ part = "cache" /\ A
                /\ UNCHANGED <<part, vars, deskvars, filevars, hookvars, creditvars, livevars>>

WebNext == \/ StoreRuns(Next) \/ DeskRuns(DeskNext) \/ FilesRuns(FilesNext)
           \/ HooksRuns(HooksNext) \/ CreditRuns(CreditNext) \/ LiveRuns(LiveNext)
           \/ CacheRuns(CacheNext)
WebSpec == WebInit /\ [][WebNext]_webvars

=============================================================================
