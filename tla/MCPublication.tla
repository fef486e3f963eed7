---------------------------- MODULE MCPublication ----------------------------
(* Instances of Publication for TLC. *)
EXTENDS Publication, TLC

AdminSymmetry == Permutations(Admin)

\* Two documents with one version each, digested by one job each.
TwoDocuments == [v \in Version |-> IF v = "v1" THEN "d1" ELSE "d2"]
OneJobEach == [j \in Job |-> IF j = "j2" THEN "v2" ELSE "v1"]

\* Two administrators race for the first generations; or one of them works alone,
\* publishes both documents, and then either goes on to a third generation and a
\* fourth epoch, or is at work while a replica serves.
VARIABLE scene

Within(epochs, generations) == active'.epoch <= epochs /\ Cardinality(DOMAIN manifests') <= generations
OneAdmin ==
    /\ \E a \in Admin : (\A b \in Admin \ {a} : admin[b] = IdleAdmin) /\ AdminStep(a)
    /\ active.epoch = 0 => \A g \in DOMAIN manifests' : g.versions = Version

SceneInit == Init /\ scene \in {"race", "history", "serving"}
SceneNext ==
    /\ \/ scene = "race" /\ (\E a \in Admin : AdminStep(a)) /\ Within(3, 2)
       \/ scene = "history" /\ OneAdmin
       \/ scene = "serving" /\ OneAdmin /\ Within(2, 2)
       \/ scene = "serving" /\ active.epoch > 0 /\ (ServingStep \/ Fault)
    /\ UNCHANGED scene
SceneSpec == SceneInit /\ [][SceneNext]_<<vars, scene>>
=============================================================================
