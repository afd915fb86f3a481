------------------------------ MODULE MCRequests ------------------------------
(***************************************************************************)
(* Requests and mails that are handled by several sessions at a time.  An  *)
(* initial state takes one of nine parts: of Triage, the relations of      *)
(* three patches updated through one session, the same through two whose   *)
(* updates overlap, updates that overlap with the form, and the forms; the *)
(* checks of two patches; of Bundles, requests one after the other for two *)
(* bundles, and overlapping requests that place patches in one; a paged    *)
(* list; and, of Overlap, the patches of one mailing.                      *)
(***************************************************************************)
EXTENDS Triage, Checks, Bundles, Paging, Overlap, TLC

CONSTANTS p1, p2, p3, c0, k1, k2, mia, ned, bob, net, mm, ctx, new, done,
          a0, a1, a2, a3, b2, b3, s1, s2

VARIABLE part

MCProjectOf  == [s \in {p1, p2, p3, c0} |-> IF s = p3 THEN mm ELSE net]
MCMaintained == [u \in Users |-> CASE u = mia -> {net, mm}
                                   [] u = ned -> {net}
                                   [] OTHER   -> {}]
MCMaintains  == [u \in Users |-> CASE u = mia -> {p1, p2}
                                   [] u = ned -> {p1}
                                   [] OTHER   -> {}]
MCSubmittedBy == [p \in {p1, p2, p3} |-> IF p = p1 THEN bob ELSE Null]
MCCommentOn   == [k \in {k1, k2} |-> IF k = k1 THEN p1 ELSE c0]

Body(state, delegate, related) ==
  [state |-> state, delegate |-> delegate, archived |-> Null, related |-> related]

Form(state, delegate, archived) ==
  [state |-> state, delegate |-> delegate, archived |-> archived]

ListForm(state, delegate, archived, clear) ==
  [state |-> state, delegate |-> delegate, archived |-> archived, clear |-> clear]

RelationBodies ==
  {Body(Null, Null, <<>>), Body(Null, Null, <<p2, p3>>)}
    \cup {Body(done, Null, <<p>>) : p \in {p1, p2, p3}}

RaceBodies == {Body(Null, Null, list) : list \in {<<>>, <<p2>>, <<p3>>}}

UpdateBodies == {Body(done, mia, Null), Body(done, Null, <<p3>>)}

MCBodies    == RelationBodies \cup RaceBodies \cup UpdateBodies
MCForms     == {Form(new, Null, FALSE), Form(done, ned, TRUE)}
MCListForms == {ListForm(Null, Null, TRUE, TRUE), ListForm(done, ned, Null, FALSE)}
MCLists     == {<<p2, p1>>, <<p3>>}

\* For Overlap, three patches of mia's, and two of ned's and bob's for the same
\* places.
MCSender == (a0 :> mia) @@ (a1 :> mia) @@ (a2 :> mia) @@ (a3 :> mia)
              @@ (b2 :> ned) @@ (b3 :> bob)
MCNumber == (a1 :> 1) @@ (a2 :> 2) @@ (a3 :> 3) @@ (b2 :> 2) @@ (b3 :> 3)
MCRefs   == (a1 :> <<a0>>) @@ (a2 :> <<a0>>) @@ (a3 :> <<a0, a2>>)
              @@ (b2 :> <<a0>>) @@ (b3 :> <<a0, b2>>)

Parts == {"relations", "races", "updates", "forms", "checks", "bundles", "placing",
          "paging", "overlap"}

MCInit ==
  /\ part \in Parts
  /\ TriageInit /\ ChecksInit /\ BundlesInit
  /\ part # "paging" => listing = ListPatches /\ lastId = 0
  /\ PagingInit
  /\ OverlapInit
  /\ part # "overlap" => reference[Cover] = None

\* Updates by these users of these patches through the API.
Updates(sessions, users, patches, bodies) ==
  \/ \E s \in sessions, u \in users, p \in patches, body \in bodies : Load(s, u, p, body)
  \/ \E s \in sessions : UpdatePatch(s)

TriagePart ==
  \/ part = "relations" /\ Updates({s1}, {mia, ned}, {p1, p2, p3}, RelationBodies)
  \/ /\ part = "races"
     /\ Updates({s1, s2}, {mia}, {p1, p2, p3}, RaceBodies)
     /\ relations'.last <= 2
  \/ /\ part = "updates"
     /\ \/ Updates({s1, s2}, {mia, bob}, {p1, p3}, UpdateBodies)
        \/ \E u \in {mia, bob}, p \in {p1, p3} : PatchUpdate(u, p, Form(new, Null, FALSE))
     /\ relations'.last <= 1
  \/ /\ part = "forms"
     /\ \/ Web
        \/ \E u \in Users, c \in Comments, value \in BOOLEAN :
             UpdatePatchComment(u, c, value) \/ UpdateCoverComment(u, c, value)

\* Requests of bundles one after the other, and, of one bundle, overlapping.
BundlesPart ==
  \/ /\ part = "bundles" /\ BundlesNext
     /\ Placing # {} => Goes
     /\ placing'[s2] = Null
     /\ placing'[s1] # Null => /\ placing'[s1].bundle = 1
                               /\ <<placing'[s1].name, placing'[s1].public>>
                                    \in {<<Null, Null>>, <<"b", TRUE>>}
     /\ bundle'[1] # Null => bundle'[1].owner = mia
     /\ bundle'[2] # Null => bundle'[2].owner # bob /\ ~bundle'[2].public
  \/ /\ part = "placing"
     /\ \/ Goes \/ DeleteBundle(mia, 1) \/ RemovePatches(mia, 1, {p3})
        \/ CreateFromList(mia, 1, "a", net, <<p3>>)
        \/ \E s \in Sessions, list \in PatchLists :
             \/ StartAdding(s, mia, 1, list)
             \/ StartReplacing(s, mia, 1, Null, Null, list)

MCNext ==
  /\ UNCHANGED part
  /\ \/ /\ TriagePart
        /\ UNCHANGED <<checkVars, bundleVars, pageVars, overlapVars>>
     \/ /\ part = "checks" /\ ChecksNext
        /\ UNCHANGED <<triageVars, bundleVars, pageVars, overlapVars>>
     \/ /\ BundlesPart
        /\ UNCHANGED <<triageVars, checkVars, pageVars, overlapVars>>
     \/ /\ part = "paging" /\ PagingNext
        /\ ~walk.done /\ Cardinality(slipped') <= 2
        /\ UNCHANGED <<triageVars, checkVars, bundleVars, overlapVars>>
     \/ /\ part = "overlap" /\ OverlapNext
        /\ UNCHANGED <<triageVars, checkVars, bundleVars, pageVars>>

MCVars == <<part, triageVars, checkVars, bundleVars, pageVars, overlapVars>>

MCSpec == MCInit /\ [][MCNext]_MCVars
=============================================================================
