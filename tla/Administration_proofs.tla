----------------------- MODULE Administration_proofs -----------------------
(***************************************************************************)
(* Proofs about what an administrator changes.  TenantSettings: what was   *)
(* saved is stored and reaches the apps.  ResourceLimits: limits reach the *)
(* instance.  AppRegistry: a form keeps what it was not used to change, and *)
(* a deletion spares live connections.  RateLimit: how much the limiter of *)
(* these routes lets through.  ConsoleForms: what a form says of its saves, *)
(* what its page shows, and what a save changes.  AppRoleSelect: the role  *)
(* that a select shows is the one the member holds.                        *)
(***************************************************************************)
EXTENDS TenantSettings, ResourceLimits, AppRegistry, RateLimit, ConsoleForms, AppRoleSelect,
        FiniteSetTheorems, TLAPS

(***************************************************************************)
(* TenantSettings                                                          *)
(***************************************************************************)

(* What a save knows: a number that was not given yet is of no save, and the  *)
(* column that a save has read is the one there is, unless another was written*)
(* since.                                                                     *)
SaveKnows ==
  /\ \A n \in 1..MaxPatches : n > patches => At(n, "none")
  /\ \A n \in stale : At(n, "write")
  /\ \A n \in 1..MaxPatches : At(n, "write") /\ n \notin stale => patch[n].base = doc
  /\ \A s \in Sections : latest[s] <= patches
  /\ \A p \in Pages, s \in Sections :
       form[p][s].save <= patches /\ (form[p][s].save = 0 => form[p][s].says = "nothing")

(* The column has what the last save of each section wrote.                   *)
SectionKnows ==
  \A s \in Sections \ ({Prefs} \cup undone) :
    latest[s] # 0 => doc[s] = patch[latest[s]].value

(* Branding that the apps do not have yet is on its way to them.              *)
BrandKnows ==
  \A s \in BrandSections \ unpushed :
    \/ pushed[s] = doc[s] \/ marker
    \/ \E n \in 1..MaxPatches : patch[n].section = s /\ (At(n, "bust") \/ At(n, "queue"))

(* The actions of a save that has begun.                                      *)
SaveGoes(n) ==
  ReadDocument(n) \/ WriteDocument(n) \/ BustCache(n) \/ QueueSync(n) \/ LogAndAnswer(n) \/ SaveFails(n)

SettingsInv == SettingsTypeOK /\ SaveKnows /\ SectionKnows /\ BrandKnows

-----------------------------------------------------------------------------
\* The bound on saves is a natural.
LEMMA PatchBound == MaxPatches \in Nat
BY SettingsAssumption

\* A step of a save changes neither its section nor its value, and no other save.
LEMMA SaveGoesAlone ==
  ASSUME SettingsTypeOK, NEW n \in 1..MaxPatches, SaveGoes(n)
  PROVE  /\ patch' \in [1..MaxPatches -> SettingsSave]
         /\ \A m \in 1..MaxPatches :
              /\ m # n => patch'[m] = patch[m]
              /\ patch'[m].section = patch[m].section /\ patch'[m].value = patch[m].value
<1>1. /\ patch' = [patch EXCEPT ![n] = patch'[n]] /\ patch'[n] \in SettingsSave
      /\ patch'[n].section = patch[n].section /\ patch'[n].value = patch[n].value
  <2>1. NoPatch.base \in Documents
    BY SettingsAssumption DEF NoPatch, Documents
  <2>2. patch[n] \in SettingsSave /\ doc \in Documents
    BY DEF SettingsTypeOK
  <2>4. CASE ReadDocument(n)
    <3>1. patch' = [patch EXCEPT ![n] = [patch[n] EXCEPT !.step = "write", !.base = doc]]
      BY <2>4 DEF ReadDocument
    <3> QED
      BY <2>2, <3>1 DEF SettingsTypeOK, SettingsSave
  <2>5. CASE WriteDocument(n)
    <3>1. PICK step \in {"log", "bust"} :
            patch' = [patch EXCEPT ![n] = [patch[n] EXCEPT !.step = step, !.base = NoPatch.base]]
      BY <2>5 DEF WriteDocument, Writes
    <3> QED
      BY <2>1, <2>2, <3>1 DEF SettingsTypeOK, SettingsSave
  <2>6. CASE BustCache(n)
    BY <2>2, <2>6 DEF BustCache, Moves, SettingsTypeOK, SettingsSave
  <2>7. CASE QueueSync(n)
    BY <2>2, <2>7 DEF QueueSync, Moves, SettingsTypeOK, SettingsSave
  <2>8. CASE LogAndAnswer(n)
    BY <2>2, <2>8 DEF LogAndAnswer, Moves, SettingsTypeOK, SettingsSave
  <2>9. CASE SaveFails(n)
    <3>1. patch' = [patch EXCEPT ![n] = [patch[n] EXCEPT !.step = "none", !.base = NoPatch.base]]
      BY <2>9 DEF SaveFails
    <3> QED
      BY <2>1, <2>2, <3>1 DEF SettingsTypeOK, SettingsSave
  <2> QED
    BY <2>4, <2>5, <2>6, <2>7, <2>8, <2>9 DEF SaveGoes
<1> QED
  BY <1>1 DEF SettingsTypeOK

\* An answer changes what forms say, and not which save they are of.
LEMMA AnswerKeepsSaves ==
  ASSUME SettingsTypeOK, NEW n \in 1..MaxPatches, NEW what \in {"saved", "error"}, Says(n, what)
  PROVE  /\ form' \in [Pages -> [Sections -> SettingsForm]]
         /\ \A p \in Pages, s \in Sections :
              /\ form'[p][s].save = form[p][s].save
              /\ form[p][s].save = 0 => form'[p][s].says = form[p][s].says
<1> DEFINE Said(p, s) == IF form[p][s].save = n /\ form[p][s].says = "nothing"
                         THEN [form[p][s] EXCEPT !.says = what] ELSE form[p][s]
<1>1. form' = [p \in Pages |-> [s \in Sections |-> Said(p, s)]]
  BY DEF Says
<1>2. \A p \in Pages, s \in Sections :
        /\ Said(p, s) \in SettingsForm /\ Said(p, s).save = form[p][s].save
        /\ form[p][s].save = 0 => Said(p, s).says = form[p][s].says
  BY DEF SettingsTypeOK, SettingsForm
<1> HIDE DEF Said
<1>3. \A p \in Pages, s \in Sections : form'[p][s] = Said(p, s)
  BY <1>1
<1> QED
  BY <1>1, <1>2, <1>3

\* The column that is written differs from the one there was in the section of
\* the save and, if another was written since the save read it, in others.
LEMMA WriteMerges ==
  ASSUME SettingsTypeOK, SaveKnows, NEW n \in 1..MaxPatches, WriteDocument(n)
  PROVE  /\ doc' \in Documents
         /\ patch[n].section # Prefs => doc'[patch[n].section] = patch[n].value
         /\ n \notin stale => \A s \in Sections \ {patch[n].section} : doc'[s] = doc[s]
<1>1. doc' = Merged(n) /\ At(n, "write")
  BY DEF WriteDocument, Writes
<1>2. patch[n] \in SettingsSave
  BY DEF SettingsTypeOK
<1>3. n \notin stale => patch[n].base = doc
  BY <1>1 DEF SaveKnows
<1> QED
  BY <1>1, <1>2, <1>3 DEF Merged, SettingsSave, Documents

\* Every step of the settings pages keeps the types.
LEMMA SettingsTypeStep ==
  ASSUME SettingsTypeOK, SaveKnows, SettingsNext \/ UNCHANGED settingsVars
  PROVE  SettingsTypeOK'
<1> USE PatchBound DEF docHistory
<1>1. ASSUME NEW p \in Pages, NEW s \in Sections, NEW v \in Values, Save(p, s, v)
      PROVE SettingsTypeOK'
  <2>1. patches + 1 \in 1..MaxPatches
    BY <1>1 DEF Save, SettingsTypeOK
  <2>2. [NoPatch EXCEPT !.step = "read", !.section = s, !.value = v] \in SettingsSave
    BY SettingsAssumption DEF NoPatch, SettingsSave, Documents
  <2>3. patch' \in [1..MaxPatches -> SettingsSave]
    BY <1>1, <2>1, <2>2 DEF Save, SettingsTypeOK
  <2>4. [save |-> patches + 1, says |-> "nothing"] \in SettingsForm
    BY <2>1 DEF SettingsForm
  <2>5. [form[p] EXCEPT ![s] = [save |-> patches + 1, says |-> "nothing"]] \in [Sections -> SettingsForm]
    BY <2>4 DEF SettingsTypeOK
  <2>6. form' \in [Pages -> [Sections -> SettingsForm]]
    BY <1>1, <2>5 DEF Save, SettingsTypeOK
  <2> QED
    BY <1>1, <2>1, <2>3, <2>6 DEF Save, SettingsTypeOK
<1>2. ASSUME NEW n \in 1..MaxPatches, ReadDocument(n) PROVE SettingsTypeOK'
  BY <1>2, SaveGoesAlone DEF SaveGoes, ReadDocument, SettingsTypeOK
<1>3. ASSUME NEW n \in 1..MaxPatches, WriteDocument(n) PROVE SettingsTypeOK'
  <2>1. patch' \in [1..MaxPatches -> SettingsSave] /\ doc' \in Documents
    BY <1>3, SaveGoesAlone, WriteMerges DEF SaveGoes
  <2>2. patch[n].section \in Sections
    BY DEF SettingsTypeOK, SettingsSave
  <2>3. latest' \in [Sections -> 0..MaxPatches]
    BY <1>3, <2>2 DEF WriteDocument, Writes, SettingsTypeOK
  <2>4. stale' \in SUBSET (1..MaxPatches)
    BY <1>3 DEF WriteDocument, Writes
  <2>5. undone' \in SUBSET Sections /\ unpushed' \in SUBSET BrandSections
    BY <1>3 DEF WriteDocument, Writes, SettingsTypeOK
  <2> QED
    BY <1>3, <2>1, <2>3, <2>4, <2>5 DEF WriteDocument, Writes, SettingsTypeOK
<1>4. ASSUME NEW n \in 1..MaxPatches, BustCache(n) PROVE SettingsTypeOK'
  BY <1>4, SaveGoesAlone DEF SaveGoes, BustCache, SettingsTypeOK
<1>5. ASSUME NEW n \in 1..MaxPatches, QueueSync(n) PROVE SettingsTypeOK'
  BY <1>5, SaveGoesAlone DEF SaveGoes, QueueSync, SettingsTypeOK
<1>6. ASSUME NEW n \in 1..MaxPatches, LogAndAnswer(n) PROVE SettingsTypeOK'
  BY <1>6, SaveGoesAlone, AnswerKeepsSaves DEF SaveGoes, LogAndAnswer, SettingsTypeOK
<1>7. ASSUME NEW n \in 1..MaxPatches, SaveFails(n) PROVE SettingsTypeOK'
  <2>1. patch' \in [1..MaxPatches -> SettingsSave] /\ form' \in [Pages -> [Sections -> SettingsForm]]
    BY <1>7, SaveGoesAlone, AnswerKeepsSaves DEF SaveGoes, SaveFails
  <2>2. stale' \in SUBSET (1..MaxPatches) /\ unpushed' \in SUBSET BrandSections
    BY <1>7 DEF SaveFails, SettingsTypeOK
  <2> QED
    BY <1>7, <2>1, <2>2 DEF SaveFails, SettingsTypeOK
<1>8. ASSUME NEW n \in 1..MaxPatches, PageGivesUp(n) PROVE SettingsTypeOK'
  BY <1>8, AnswerKeepsSaves DEF PageGivesUp, SettingsTypeOK
<1>9. ASSUME PushBranding PROVE SettingsTypeOK'
  BY <1>9, SettingsAssumption DEF PushBranding, SettingsTypeOK, Documents
<1>10. ASSUME SkipBranding PROVE SettingsTypeOK'
  BY <1>10 DEF SkipBranding, SettingsTypeOK
<1>11. ASSUME UNCHANGED settingsVars PROVE SettingsTypeOK'
  BY <1>11 DEF settingsVars, SettingsTypeOK
<1> QED
  BY <1>1, <1>2, <1>3, <1>4, <1>5, <1>6, <1>7, <1>8, <1>9, <1>10, <1>11 DEF SettingsNext

\* A save that nobody overtook writes over the column it read.
LEMMA SaveKnowsStep ==
  ASSUME SettingsTypeOK, SettingsTypeOK', SaveKnows, SettingsNext \/ UNCHANGED settingsVars
  PROVE  SaveKnows'
<1> USE PatchBound DEF docHistory
<1>1. ASSUME NEW p \in Pages, NEW s \in Sections, NEW v \in Values, Save(p, s, v) PROVE SaveKnows'
  <2>1. patches + 1 \in 1..MaxPatches /\ patches' = patches + 1
    BY <1>1 DEF Save, SettingsTypeOK
  <2>2. /\ patch'[patches + 1].step = "read"
        /\ \A m \in 1..MaxPatches : m # patches + 1 => patch'[m] = patch[m]
    BY <1>1, <2>1 DEF Save, SettingsTypeOK, NoPatch
  <2>3. /\ \A q \in Pages, t \in Sections : q # p \/ t # s => form'[q][t] = form[q][t]
        /\ form'[p][s] = [save |-> patches + 1, says |-> "nothing"]
    BY <1>1 DEF Save, SettingsTypeOK
  <2>4. \A q \in Pages, t \in Sections :
          form'[q][t].save <= patches' /\ (form'[q][t].save = 0 => form'[q][t].says = "nothing")
    <3>1. \A q \in Pages, t \in Sections :
            /\ form[q][t].save \in 0..MaxPatches /\ form[q][t].save <= patches
            /\ form[q][t].save = 0 => form[q][t].says = "nothing"
      BY DEF SaveKnows, SettingsTypeOK, SettingsForm
    <3>2. patches \in 0..MaxPatches /\ form'[p][s].save = patches + 1
      BY <2>3 DEF SettingsTypeOK
    <3>3. ASSUME NEW q \in Pages, NEW t \in Sections, q # p \/ t # s
          PROVE  form'[q][t].save <= patches' /\ (form'[q][t].save = 0 => form'[q][t].says = "nothing")
      BY <2>1, <2>3, <3>1, <3>2, <3>3
    <3>4. form'[p][s].save <= patches' /\ (form'[p][s].save = 0 => form'[p][s].says = "nothing")
      BY <2>1, <3>2
    <3> QED
      BY <3>3, <3>4
  <2>5. UNCHANGED <<doc, stale, latest>>
    BY <1>1 DEF Save
  <2>6. patches + 1 \notin stale
    <3>1. patch[patches + 1].step = "none"
      BY <2>1 DEF SaveKnows, At, SettingsTypeOK
    <3> QED
      BY <3>1 DEF SaveKnows, At
  <2> QED
    BY <2>1, <2>2, <2>4, <2>5, <2>6 DEF SaveKnows, At, SettingsTypeOK
<1>2. ASSUME NEW n \in 1..MaxPatches, ReadDocument(n) PROVE SaveKnows'
  BY <1>2 DEF ReadDocument, At, SaveKnows
<1>3. ASSUME NEW n \in 1..MaxPatches, WriteDocument(n) PROVE SaveKnows'
  <2>1. \A m \in 1..MaxPatches : m # n => patch'[m] = patch[m]
    BY <1>3, SaveGoesAlone DEF SaveGoes
  <2>2. patch'[n].step \in {"log", "bust"} /\ n <= patches
    BY <1>3 DEF WriteDocument, Writes, At, SaveKnows, SettingsTypeOK
  <2>3. stale' = {m \in 1..MaxPatches : At(m, "write")} \ {n}
    BY <1>3 DEF WriteDocument, Writes
  <2>4. UNCHANGED <<patches, form>>
    BY <1>3 DEF WriteDocument, Writes
  <2>5. \A s \in Sections : latest'[s] = latest[s] \/ latest'[s] = n
    BY <1>3 DEF WriteDocument, Writes, SettingsTypeOK
  <2>6. \A t \in Sections : latest'[t] <= patches'
    BY <2>2, <2>4, <2>5 DEF SaveKnows
  <2>7. \A m \in 1..MaxPatches : m > patches' => At(m, "none")'
    BY <2>1, <2>2, <2>4 DEF SaveKnows, At, SettingsTypeOK
  <2>8. \A m \in 1..MaxPatches : At(m, "write")' => m \in stale'
    BY <2>1, <2>2, <2>3 DEF At
  <2>9. \A m \in stale' : At(m, "write")'
    BY <2>1, <2>3 DEF At
  <2> QED
    BY <2>4, <2>6, <2>7, <2>8, <2>9 DEF SaveKnows
<1>4. ASSUME NEW n \in 1..MaxPatches, BustCache(n) PROVE SaveKnows'
  <2>1. \A m \in 1..MaxPatches : m # n => patch'[m] = patch[m]
    BY <1>4, SaveGoesAlone DEF SaveGoes
  <2>2. patch'[n].step \in {"queue", "log"} /\ n \notin stale
    BY <1>4 DEF BustCache, Moves, At, SaveKnows, SettingsTypeOK
  <2>3. n <= patches
    BY <1>4 DEF BustCache, At, SaveKnows, SettingsTypeOK
  <2> QED
    BY <1>4, <2>1, <2>2, <2>3 DEF BustCache, SaveKnows, At, SettingsTypeOK
<1>5. ASSUME NEW n \in 1..MaxPatches, QueueSync(n) PROVE SaveKnows'
  <2>1. \A m \in 1..MaxPatches : m # n => patch'[m] = patch[m]
    BY <1>5, SaveGoesAlone DEF SaveGoes
  <2>2. patch'[n].step \in {"log"} /\ n \notin stale
    BY <1>5 DEF QueueSync, Moves, At, SaveKnows, SettingsTypeOK
  <2>3. n <= patches
    BY <1>5 DEF QueueSync, At, SaveKnows, SettingsTypeOK
  <2> QED
    BY <1>5, <2>1, <2>2, <2>3 DEF QueueSync, SaveKnows, At, SettingsTypeOK
<1>6. ASSUME NEW n \in 1..MaxPatches, LogAndAnswer(n) PROVE SaveKnows'
  <2>1. \A q \in Pages, t \in Sections :
          form'[q][t].save = form[q][t].save /\ (form[q][t].save = 0 => form'[q][t].says = form[q][t].says)
    BY <1>6, AnswerKeepsSaves DEF LogAndAnswer
  <2>2. \A m \in 1..MaxPatches : m # n => patch'[m] = patch[m]
    BY <1>6, SaveGoesAlone DEF SaveGoes
  <2>3. patch'[n].step = "none"
    BY <1>6 DEF LogAndAnswer, Moves, SettingsTypeOK, SettingsSave
  <2>4. n \notin stale'
    BY <1>6 DEF LogAndAnswer, SaveKnows, At
  <2>5. UNCHANGED <<doc, patches, latest>> /\ stale' \subseteq stale /\ stale \ {n} \subseteq stale'
    BY <1>6 DEF LogAndAnswer
  <2>6. \A m \in 1..MaxPatches : m > patches' => At(m, "none")'
    BY <2>2, <2>3, <2>5 DEF SaveKnows, At
  <2>7. \A m \in 1..MaxPatches : At(m, "write")' /\ m \notin stale' => patch'[m].base = doc'
    BY <2>2, <2>3, <2>5 DEF SaveKnows, At
  <2>8. \A m \in stale' : At(m, "write")'
    BY <2>2, <2>4, <2>5 DEF SaveKnows, At, SettingsTypeOK
  <2>9. /\ \A t \in Sections : latest'[t] <= patches'
        /\ \A q \in Pages, t \in Sections :
             form'[q][t].save <= patches' /\ (form'[q][t].save = 0 => form'[q][t].says = "nothing")
    BY <2>1, <2>5 DEF SaveKnows
  <2> QED
    BY <2>6, <2>7, <2>8, <2>9 DEF SaveKnows
<1>7. ASSUME NEW n \in 1..MaxPatches, SaveFails(n) PROVE SaveKnows'
  <2>1. \A q \in Pages, t \in Sections :
          form'[q][t].save = form[q][t].save /\ (form[q][t].save = 0 => form'[q][t].says = form[q][t].says)
    BY <1>7, AnswerKeepsSaves DEF SaveFails
  <2>2. \A m \in 1..MaxPatches : m # n => patch'[m] = patch[m]
    BY <1>7, SaveGoesAlone DEF SaveGoes
  <2>3. patch'[n].step = "none"
    BY <1>7 DEF SaveFails, SettingsTypeOK, SettingsSave
  <2>4. n \notin stale'
    BY <1>7 DEF SaveFails
  <2>5. UNCHANGED <<doc, patches, latest>> /\ stale' \subseteq stale /\ stale \ {n} \subseteq stale'
    BY <1>7 DEF SaveFails
  <2>6. \A m \in 1..MaxPatches : m > patches' => At(m, "none")'
    BY <2>2, <2>3, <2>5 DEF SaveKnows, At
  <2>7. \A m \in 1..MaxPatches : At(m, "write")' /\ m \notin stale' => patch'[m].base = doc'
    BY <2>2, <2>3, <2>5 DEF SaveKnows, At
  <2>8. \A m \in stale' : At(m, "write")'
    BY <2>2, <2>4, <2>5 DEF SaveKnows, At, SettingsTypeOK
  <2>9. /\ \A t \in Sections : latest'[t] <= patches'
        /\ \A q \in Pages, t \in Sections :
             form'[q][t].save <= patches' /\ (form'[q][t].save = 0 => form'[q][t].says = "nothing")
    BY <2>1, <2>5 DEF SaveKnows
  <2> QED
    BY <2>6, <2>7, <2>8, <2>9 DEF SaveKnows
<1>8. ASSUME NEW n \in 1..MaxPatches, PageGivesUp(n) PROVE SaveKnows'
  <2>1. \A q \in Pages, t \in Sections :
          form'[q][t].save = form[q][t].save /\ (form[q][t].save = 0 => form'[q][t].says = form[q][t].says)
    BY <1>8, AnswerKeepsSaves DEF PageGivesUp
  <2>2. UNCHANGED <<doc, patch, patches, stale, latest>>
    BY <1>8 DEF PageGivesUp
  <2> QED
    BY <2>1, <2>2 DEF SaveKnows, At
<1>9. ASSUME PushBranding PROVE SaveKnows'
  BY <1>9 DEF PushBranding, At, SaveKnows
<1>10. ASSUME SkipBranding PROVE SaveKnows'
  BY <1>10 DEF SkipBranding, At, SaveKnows
<1>11. ASSUME UNCHANGED settingsVars PROVE SaveKnows'
  BY <1>11 DEF settingsVars, At, SaveKnows
<1> QED
  BY <1>1, <1>2, <1>3, <1>4, <1>5, <1>6, <1>7, <1>8, <1>9, <1>10, <1>11 DEF SettingsNext

\* So each section keeps what its last save wrote.
LEMMA SectionKnowsStep ==
  ASSUME SettingsTypeOK, SettingsTypeOK', SaveKnows, SectionKnows,
         SettingsNext \/ UNCHANGED settingsVars
  PROVE  SectionKnows'
<1> USE PatchBound DEF docHistory
<1>1. ASSUME UNCHANGED <<doc, undone, latest>>,
             \A s \in Sections : latest[s] # 0 => patch'[latest[s]].value = patch[latest[s]].value
      PROVE  SectionKnows'
  BY <1>1 DEF SectionKnows
<1>2. ASSUME NEW p \in Pages, NEW s \in Sections, NEW v \in Values, Save(p, s, v)
      PROVE SectionKnows'
  <2>1. \A m \in 1..MaxPatches : m <= patches => patch'[m] = patch[m]
    BY <1>2 DEF Save, SettingsTypeOK
  <2> QED
    BY <1>1, <1>2, <2>1 DEF Save, SaveKnows, SettingsTypeOK
<1>3. ASSUME NEW n \in 1..MaxPatches, SaveGoes(n), ~WriteDocument(n) PROVE SectionKnows'
  <2>1. UNCHANGED <<doc, undone, latest>>
    BY <1>3 DEF SaveGoes, ReadDocument, BustCache, QueueSync, LogAndAnswer, SaveFails
  <2> QED
    BY <1>1, <1>3, <2>1, SaveGoesAlone DEF SettingsTypeOK
<1>4. ASSUME NEW n \in 1..MaxPatches, WriteDocument(n) PROVE SectionKnows'
  <2> DEFINE s == patch[n].section
  <2>1. s \in Sections
    BY DEF SettingsTypeOK, SettingsSave
  <2>2. \A m \in 1..MaxPatches : patch'[m].value = patch[m].value
    BY <1>4, SaveGoesAlone DEF SaveGoes
  <2>3. latest' = [latest EXCEPT ![s] = n]
    BY <1>4 DEF WriteDocument, Writes
  <2>4. s # Prefs => doc'[s] = patch[n].value
    BY <1>4, WriteMerges
  <2>5. \A t \in Sections \ undone' : t # s => doc'[t] = doc[t] /\ t \notin undone
    <3>1. CASE n \in stale
      BY <1>4, <3>1 DEF WriteDocument, Writes
    <3>2. CASE n \notin stale
      BY <1>4, <3>2, WriteMerges DEF WriteDocument, Writes
    <3> QED
      BY <3>1, <3>2
  <2> HIDE DEF s
  <2> QED
    BY <2>1, <2>2, <2>3, <2>4, <2>5 DEF SectionKnows, SettingsTypeOK
<1>5. ASSUME NEW n \in 1..MaxPatches, PageGivesUp(n) PROVE SectionKnows'
  BY <1>5 DEF PageGivesUp, SectionKnows
<1>6. ASSUME PushBranding \/ SkipBranding PROVE SectionKnows'
  BY <1>6 DEF PushBranding, SkipBranding, SectionKnows
<1>7. ASSUME UNCHANGED settingsVars PROVE SectionKnows'
  BY <1>7 DEF settingsVars, SectionKnows
<1> QED
  BY <1>2, <1>3, <1>4, <1>5, <1>6, <1>7 DEF SettingsNext, SaveGoes

\* Branding that changed is on its way until the apps have it.
LEMMA BrandKnowsStep ==
  ASSUME SettingsTypeOK, SettingsTypeOK', SaveKnows, BrandKnows,
         SettingsNext \/ UNCHANGED settingsVars
  PROVE  BrandKnows'
<1> USE PatchBound DEF docHistory
<1> DEFINE Coming(n) == At(n, "bust") \/ At(n, "queue")
<1>1. ASSUME NEW p \in Pages, NEW s \in Sections, NEW v \in Values, Save(p, s, v)
      PROVE BrandKnows'
  <2>1. \A m \in 1..MaxPatches : Coming(m) => patch'[m] = patch[m]
    BY <1>1 DEF Save, SaveKnows, At, SettingsTypeOK
  <2>2. UNCHANGED <<doc, marker, pushed, unpushed>>
    BY <1>1 DEF Save
  <2> QED
    BY <2>1, <2>2 DEF BrandKnows, At
<1>2. ASSUME NEW n \in 1..MaxPatches, SaveGoes(n) PROVE BrandKnows'
  <2>1. \A m \in 1..MaxPatches : m # n => patch'[m] = patch[m]
    BY <1>2, SaveGoesAlone
  <2>2. patch'[n].section = patch[n].section
    BY <1>2, SaveGoesAlone
  <2>3. CASE ReadDocument(n) \/ LogAndAnswer(n)
    <3>1. ~Coming(n) /\ UNCHANGED <<doc, pushed, marker, unpushed>>
      BY <2>3 DEF ReadDocument, LogAndAnswer, At
    <3> QED
      BY <2>1, <3>1 DEF BrandKnows, At
  <2>4. CASE WriteDocument(n)
    <3> DEFINE s == patch[n].section
    <3>1. ~Coming(n) /\ UNCHANGED <<pushed, marker>>
      BY <2>4 DEF WriteDocument, Writes, At
    <3>2. s \in BrandSections => patch'[n].step = "bust"
      BY <2>4, SettingsAssumption DEF WriteDocument, Writes, SettingsTypeOK, SettingsSave
    <3>3. \A t \in BrandSections \ unpushed' : t # s => doc'[t] = doc[t] /\ t \notin unpushed
      <4>1. CASE n \in stale
        BY <2>4, <4>1, SettingsAssumption DEF WriteDocument, Writes
      <4>2. CASE n \notin stale
        BY <2>4, <4>2, WriteMerges, SettingsAssumption DEF WriteDocument, Writes
      <4> QED
        BY <4>1, <4>2
    <3> HIDE DEF s
    <3> QED
      BY <2>1, <2>2, <3>1, <3>2, <3>3 DEF BrandKnows, At, s
  <2>5. CASE BustCache(n)
    <3>1. UNCHANGED <<doc, pushed, marker, unpushed>>
      BY <2>5 DEF BustCache
    <3>2. patch[n].section \in BrandSections => patch'[n].step = "queue"
      BY <2>5 DEF BustCache, Moves, SettingsTypeOK
    <3> QED
      BY <2>1, <2>2, <3>1, <3>2 DEF BrandKnows, At
  <2>6. CASE QueueSync(n)
    BY <2>6 DEF QueueSync, BrandKnows
  <2>7. CASE SaveFails(n)
    <3>1. UNCHANGED <<doc, pushed, marker>> /\ unpushed \subseteq unpushed'
      BY <2>7 DEF SaveFails
    <3>2. Coming(n) /\ patch[n].section \in BrandSections => patch[n].section \in unpushed'
      BY <2>7 DEF SaveFails
    <3> QED
      BY <2>1, <3>1, <3>2 DEF BrandKnows, At
  <2> QED
    BY <1>2, <2>3, <2>4, <2>5, <2>6, <2>7 DEF SaveGoes
<1>3. ASSUME NEW n \in 1..MaxPatches, PageGivesUp(n) PROVE BrandKnows'
  BY <1>3 DEF PageGivesUp, BrandKnows, At
<1>4. ASSUME PushBranding PROVE BrandKnows'
  BY <1>4 DEF PushBranding, BrandKnows
<1>5. ASSUME SkipBranding PROVE BrandKnows'
  BY <1>5 DEF SkipBranding, BrandKnows
<1>6. ASSUME UNCHANGED settingsVars PROVE BrandKnows'
  BY <1>6 DEF settingsVars, BrandKnows, At
<1> QED
  BY <1>1, <1>2, <1>3, <1>4, <1>5, <1>6 DEF SettingsNext, SaveGoes

\* The inductive invariant of the settings.
LEMMA SettingsInvariant == SettingsSpec => []SettingsInv
<1>1. SettingsInit => SettingsInv
  <2> SUFFICES ASSUME SettingsInit PROVE SettingsInv
    OBVIOUS
  <2> USE SettingsAssumption
  <2>1. doc \in Documents /\ NoPatch \in SettingsSave
    BY DEF SettingsInit, NoPatch, Documents, SettingsSave
  <2>2. patch \in [1..MaxPatches -> SettingsSave]
    BY <2>1 DEF SettingsInit
  <2>3. [save |-> 0, says |-> "nothing"] \in SettingsForm
    BY DEF SettingsForm
  <2>4. form \in [Pages -> [Sections -> SettingsForm]]
    BY <2>3 DEF SettingsInit
  <2>8. patches \in 0..MaxPatches /\ latest \in [Sections -> 0..MaxPatches]
    BY PatchBound DEF SettingsInit
  <2>5. SettingsTypeOK
    BY <2>8, <2>1, <2>2, <2>4 DEF SettingsInit, SettingsTypeOK
  <2>6. SaveKnows
    BY DEF SettingsInit, SaveKnows, At, NoPatch
  <2>7. SectionKnows /\ BrandKnows
    BY DEF SettingsInit, SectionKnows, BrandKnows
  <2> QED
    BY <2>5, <2>6, <2>7 DEF SettingsInv
<1>2. SettingsInv /\ [SettingsNext]_settingsVars => SettingsInv'
  BY SettingsTypeStep, SaveKnowsStep, SectionKnowsStep, BrandKnowsStep DEF SettingsInv
<1> QED
  BY <1>1, <1>2, PTL DEF SettingsSpec

\* Every variable of the settings keeps its type (SettingsTypeOK).
THEOREM SettingsTypeCorrect == SettingsSpec => []SettingsTypeOK
<1>1. SettingsInv => SettingsTypeOK
  BY DEF SettingsInv
<1> QED
  BY <1>1, SettingsInvariant, PTL

\* For any number of pages, sections and saves: what a form says is saved is in
\* the column until the section is saved again, unless overlapping saves put it
\* back (settings/general, branding and security).
THEOREM SavesStay == SettingsSpec => []SavedIsStored
<1>1. SettingsInv => SavedIsStored
  BY DEF SettingsInv, SavedIsStored, SaveKnows, SectionKnows
<1> QED
  BY <1>1, SettingsInvariant, PTL

\* For any number of saves and sections: branding that the apps do not have yet
\* will be given to them, unless a save was cut short or overlapped, or a drain
\* found no instance to push them to (settings/branding/route.ts).
THEOREM BrandingArrives == SettingsSpec => []BrandingIsPushed
<1>1. SettingsInv => BrandingIsPushed
  BY DEF SettingsInv, BrandingIsPushed, BrandKnows
<1> QED
  BY <1>1, SettingsInvariant, PTL

\* For any number of pages, sections and saves: what is saved stays, and reaches
\* the apps (settings/general, branding and security).
THEOREM SettingsStay == SettingsSpec => []SettingsHold
BY SavesStay, BrandingArrives, PTL DEF SettingsHold

(***************************************************************************)
(* ResourceLimits                                                          *)
(***************************************************************************)

(* A field that a push to come has, or will have, as it is, or that no marker *)
(* was written for.                                                           *)
Fresh(f) ==
  \/ f \in behind \/ due
  \/ \E d \in Passes : pass[d].step = "read" \/ (pass[d].step = "push" /\ pass[d].copy[f] = limits[f])

(* A drain that pushes what is old already is followed by another push, unless*)
(* it was outread; and a field that no push follows is the instance's.        *)
PushKnows ==
  /\ \A d \in Passes : pass[d].step = "push" /\ d \notin outread => \A f \in Fields : Fresh(f)
  /\ \A f \in Fields : Fresh(f) \/ limits[f] \in {Inherited, quota[f]}

LimitsInv == LimitsTypeOK /\ PushKnows

-----------------------------------------------------------------------------
\* Every step of the limits keeps the types.
LEMMA LimitsTypeStep ==
  ASSUME LimitsTypeOK, LimitsNext \/ UNCHANGED limitVars
  PROVE  LimitsTypeOK'
<1> USE LimitsAssumption
<1>1. ASSUME NEW p \in Panels, OpenPanel(p) PROVE LimitsTypeOK'
  BY <1>1 DEF OpenPanel, LimitsTypeOK, Limits
<1>2. ASSUME NEW p \in Panels, SaveLimits(p) PROVE LimitsTypeOK'
  BY <1>2 DEF SaveLimits, Request, LimitsTypeOK, Limits, LimitSave
<1>3. ASSUME NEW p \in Panels, NEW f \in Fields, NEW v \in Numbers \cup {Inherited}, TypeLimit(p, f, v)
      PROVE LimitsTypeOK'
  BY <1>3 DEF TypeLimit, LimitsTypeOK
<1>4. ASSUME NEW f \in Fields, SendLimits(f) PROVE LimitsTypeOK'
  BY <1>4 DEF SendLimits, Request, LimitsTypeOK, Limits, LimitSave
<1>5. ASSUME NEW n \in 1..MaxLimitSaves, WriteLimits(n) PROVE LimitsTypeOK'
  BY <1>5 DEF WriteLimits, Reaches, LimitsTypeOK, LimitSave
<1>6. ASSUME NEW n \in 1..MaxLimitSaves, LogLimits(n) PROVE LimitsTypeOK'
  BY <1>6 DEF LogLimits, Reaches, LimitsTypeOK, LimitSave
<1>7. ASSUME NEW n \in 1..MaxLimitSaves, QueueLimits(n) PROVE LimitsTypeOK'
  BY <1>7 DEF QueueLimits, Reaches, LimitsTypeOK, LimitSave
<1>8. ASSUME NEW n \in 1..MaxLimitSaves, LimitSaveFails(n) PROVE LimitsTypeOK'
  BY <1>8 DEF LimitSaveFails, Reaches, LimitsTypeOK, LimitSave
<1>9. ASSUME NEW d \in Passes, ClaimMarkers(d) PROVE LimitsTypeOK'
  BY <1>9 DEF ClaimMarkers, LimitsTypeOK, Pass
<1>10. ASSUME NEW d \in Passes, ReadLimits(d) PROVE LimitsTypeOK'
  BY <1>10 DEF ReadLimits, LimitsTypeOK, Pass
<1>11. ASSUME NEW d \in Passes, PushLimits(d) PROVE LimitsTypeOK'
  BY <1>11 DEF PushLimits, PushAs, NoLimits, LimitsTypeOK, Limits, Pass
<1>12. ASSUME NEW d \in Passes, PushFails(d) PROVE LimitsTypeOK'
  BY <1>12 DEF PushFails, NoLimits, LimitsTypeOK, Limits, Pass
<1>13. ASSUME NEW d \in Passes, SkipLimits(d) PROVE LimitsTypeOK'
  BY <1>13 DEF SkipLimits, NoLimits, LimitsTypeOK, Limits, Pass
<1>14. ASSUME UNCHANGED limitVars PROVE LimitsTypeOK'
  BY <1>14 DEF limitVars, LimitsTypeOK
<1> QED
  BY <1>1, <1>2, <1>3, <1>4, <1>5, <1>6, <1>7, <1>8, <1>9, <1>10, <1>11, <1>12,
     <1>13, <1>14 DEF LimitsNext

\* A field that changed is ahead of a push until the instance has it.
LEMMA PushKnowsStep ==
  ASSUME LimitsTypeOK, LimitsTypeOK', PushKnows, LimitsNext \/ UNCHANGED limitVars
  PROVE  PushKnows'
<1> USE LimitsAssumption
<1>1. ASSUME NEW p \in Panels, OpenPanel(p) PROVE PushKnows'
  BY <1>1 DEF OpenPanel, PushKnows, Fresh
<1>2. ASSUME NEW p \in Panels, SaveLimits(p) PROVE PushKnows'
  BY <1>2 DEF SaveLimits, Request, PushKnows, Fresh
<1>3. ASSUME NEW p \in Panels, NEW f \in Fields, NEW v \in Numbers \cup {Inherited}, TypeLimit(p, f, v)
      PROVE PushKnows'
  BY <1>3 DEF TypeLimit, PushKnows, Fresh
<1>4. ASSUME NEW f \in Fields, SendLimits(f) PROVE PushKnows'
  BY <1>4 DEF SendLimits, Request, PushKnows, Fresh
<1>5. ASSUME NEW n \in 1..MaxLimitSaves, WriteLimits(n) PROVE PushKnows'
  BY <1>5 DEF WriteLimits, Pass, PushKnows, Fresh
<1>6. ASSUME NEW n \in 1..MaxLimitSaves, LogLimits(n) PROVE PushKnows'
  BY <1>6 DEF LogLimits, PushKnows, Fresh
<1>7. ASSUME NEW n \in 1..MaxLimitSaves, QueueLimits(n) PROVE PushKnows'
  BY <1>7 DEF QueueLimits, PushKnows, Fresh
<1>8. ASSUME NEW n \in 1..MaxLimitSaves, LimitSaveFails(n) PROVE PushKnows'
  BY <1>8 DEF LimitSaveFails, PushKnows, Fresh
<1>9. ASSUME NEW d \in Passes, ClaimMarkers(d) PROVE PushKnows'
  <2>1. pass'[d].step = "read"
    BY <1>9 DEF ClaimMarkers, LimitsTypeOK
  <2>2. \A f \in Fields : Fresh(f)'
    BY <2>1 DEF Fresh
  <2> QED
    BY <2>2 DEF PushKnows
<1>10. ASSUME NEW d \in Passes, ReadLimits(d) PROVE PushKnows'
  BY <1>10 DEF ReadLimits, PushKnows, Fresh
<1>11. ASSUME NEW d \in Passes, PushLimits(d) PROVE PushKnows'
  BY <1>11 DEF PushLimits, PushAs, PushKnows, Fresh
<1>12. ASSUME NEW d \in Passes, PushFails(d) PROVE PushKnows'
  BY <1>12 DEF PushFails, PushKnows, Fresh
<1>13. ASSUME NEW d \in Passes, SkipLimits(d) PROVE PushKnows'
  <2>1. \A e \in Passes \ {d} : pass'[e] = pass[e]
    BY <1>13 DEF SkipLimits, LimitsTypeOK
  <2>2. \A e \in Passes : pass'[e].step = "push" => e \in outread'
    BY <1>13, <2>1 DEF SkipLimits, LimitsTypeOK
  <2>3. ASSUME NEW f \in Fields PROVE Fresh(f)' \/ limits[f] \in {Inherited, quota[f]}
    <3>1. CASE ~Fresh(f) \/ f \in behind \/ due
      BY <1>13, <3>1 DEF SkipLimits, PushKnows, Fresh
    <3>2. ASSUME NEW e \in Passes \ {d},
                 pass[e].step = "read" \/ (pass[e].step = "push" /\ pass[e].copy[f] = limits[f])
          PROVE  Fresh(f)'
      BY <1>13, <2>1, <3>2 DEF SkipLimits, Fresh
    <3>3. CASE pass[d].copy[f] = limits[f]
      BY <1>13, <3>3 DEF SkipLimits, Fresh
    <3> QED
      BY <1>13, <3>1, <3>2, <3>3 DEF SkipLimits, Fresh
  <2> QED
    BY <1>13, <2>2, <2>3 DEF SkipLimits, PushKnows
<1>14. ASSUME UNCHANGED limitVars PROVE PushKnows'
  BY <1>14 DEF limitVars, PushKnows, Fresh
<1> QED
  BY <1>1, <1>2, <1>3, <1>4, <1>5, <1>6, <1>7, <1>8, <1>9, <1>10, <1>11, <1>12,
     <1>13, <1>14 DEF LimitsNext

\* The inductive invariant of the limits.
LEMMA LimitsInvariant == LimitsSpec => []LimitsInv
<1>1. LimitsInit => LimitsInv
  <2> SUFFICES ASSUME LimitsInit PROVE LimitsInv
    OBVIOUS
  <2> USE LimitsAssumption
  <2>3. NoLimits \in Limits /\ NoLimits \in [Fields -> Numbers \cup {Inherited}]
    BY DEF NoLimits, Limits
  <2>4. input \in [Panels -> [Fields -> Numbers \cup {Inherited}]]
    BY <2>3 DEF LimitsInit
  <2>5. limitSave \in [1..MaxLimitSaves -> LimitSave] /\ pass \in [Passes -> Pass]
    BY <2>3 DEF LimitsInit, LimitSave, Pass
  <2>6. limitSaves \in 0..MaxLimitSaves
    BY DEF LimitsInit
  <2>1. LimitsTypeOK
    BY <2>3, <2>4, <2>5, <2>6 DEF LimitsInit, LimitsTypeOK
  <2>2. PushKnows
    BY DEF LimitsInit, PushKnows, NoLimits
  <2> QED
    BY <2>1, <2>2 DEF LimitsInv
<1>2. LimitsInv /\ [LimitsNext]_limitVars => LimitsInv'
  BY LimitsTypeStep, PushKnowsStep DEF LimitsInv
<1> QED
  BY <1>1, <1>2, PTL DEF LimitsSpec

\* Every variable of the resource limits keeps its type (LimitsTypeOK).
THEOREM LimitsTypeCorrect == LimitsSpec => []LimitsTypeOK
<1>1. LimitsInv => LimitsTypeOK
  BY DEF LimitsInv
<1> QED
  BY <1>1, LimitsInvariant, PTL

\* For any number of fields, saves and drains: a limit that is set is the
\* instance's or on its way to it, unless a save failed after its write, a drain
\* was outread, or it found no instance to push to (convergeResourceLimits).
THEOREM LimitsArrive == LimitsSpec => []LimitsArePushed
<1>1. LimitsInv => LimitsArePushed
  BY DEF LimitsInv, LimitsArePushed, PushKnows, Fresh, PushComes
<1> QED
  BY <1>1, LimitsInvariant, PTL

(***************************************************************************)
(* AppRegistry                                                             *)
(***************************************************************************)

(* What a form or its request took over unchanged is what the instance has.   *)
TakenKnows ==
  appInstance # NoInstance =>
    /\ \A p \in Forms : \A c \in asTaken[p] : scimForm[p].input[c] = appInstance.has[c]
    /\ \A n \in AppCalls : appCall[n].kind \in {"table", "hub"} =>
         \A c \in appCall[n].asTaken : appCall[n].sends[c] = appInstance.has[c]

(* A deletion that has counted, and that no new instance has overtaken, finds *)
(* no instance.                                                               *)
CountKnows ==
  \A n \in AppCalls : AtCall(n, "delete") /\ appCall[n].asTaken = Columns => appInstance = NoInstance

RegistryInv == RegistryTypeOK /\ TakenKnows /\ CountKnows

-----------------------------------------------------------------------------
\* The rows, forms and calls that the code starts from.
LEMMA RowsOfTheCode == Blank \in AppRows /\ Closed \in ScimForm /\ NoCall \in AppCall
BY RegistryAssumption DEF Blank, AppRows, Closed, ScimForm, NoCall, AppCall

\* What a write makes of the requests, and of the forms' columns.
LEMMA WritesOvertake ==
  ASSUME RegistryTypeOK, NEW n \in AppCalls \cup {0}, NEW new \in AppRows, Overtakes(n, new)
  PROVE  /\ appCall' \in [AppCalls -> AppCall]
         /\ \A m \in AppCalls :
              /\ appCall'[m].kind # "none" => appCall'[m].kind = appCall[m].kind /\ m # n
              /\ appCall'[m].kind # "none" => appCall'[m] = [appCall[m] EXCEPT !.asTaken = @ \ Differing(new)]
<1>1. \A m \in AppCalls : [appCall[m] EXCEPT !.asTaken = @ \ Differing(new)] \in AppCall
  BY DEF RegistryTypeOK, AppCall
<1>2. NoCall \in AppCall /\ NoCall.kind = "none"
  BY RowsOfTheCode DEF NoCall
<1>3. \A m \in AppCalls : \/ appCall'[m] = NoCall
                          \/ m # n /\ appCall'[m] = [appCall[m] EXCEPT !.asTaken = @ \ Differing(new)]
  BY DEF Overtakes
<1>4. appCall' \in [AppCalls -> AppCall]
  BY <1>1, <1>2 DEF Overtakes
<1>5. \A m \in AppCalls : [appCall[m] EXCEPT !.asTaken = @ \ Differing(new)].kind = appCall[m].kind
  BY DEF RegistryTypeOK, AppCall
<1> QED
  BY <1>2, <1>3, <1>4, <1>5

\* A write takes from every form and request the columns it changed.
LEMMA WritesOutdate ==
  ASSUME RegistryTypeOK, NEW new \in AppRows, Outdates(new)
  PROVE  asTaken' \in [Forms -> SUBSET Columns]
BY DEF Outdates, RegistryTypeOK

\* A request that is sent keeps the records of all.
LEMMA RequestsCount ==
  ASSUME RegistryTypeOK, NEW req \in AppCall, Ask(req)
  PROVE  appCall' \in [AppCalls -> AppCall] /\ appCalls' \in 0..MaxAppCalls
<1>1. appCalls \in 0..MaxAppCalls /\ appCalls < MaxAppCalls /\ appCalls' = appCalls + 1
  BY DEF Ask, Counts, RegistryTypeOK
<1>2. MaxAppCalls \in Nat
  BY RegistryAssumption
<1> QED
  BY <1>1, <1>2 DEF Ask, RegistryTypeOK, AppCalls

\* So does a row that is created.
LEMMA RowsCount ==
  ASSUME RegistryTypeOK, NEW new \in AppRows, NewRow(new)
  PROVE  appInstance' \in Instance /\ rowsMade' \in 0..MaxRows
<1>1. rowsMade \in 0..MaxRows /\ rowsMade < MaxRows /\ rowsMade' = rowsMade + 1
  BY DEF NewRow, RegistryTypeOK
<1>2. MaxRows \in Nat
  BY RegistryAssumption
<1> QED
  BY <1>1, <1>2 DEF NewRow, Instance

\* And a form that changes keeps the forms of the others.
LEMMA FormsBecome ==
  ASSUME RegistryTypeOK, NEW p \in Forms, NEW new \in ScimForm, Becomes(p, new)
  PROVE  RegistryTypeOK'
<1>1. scimForm' \in [Forms -> ScimForm] /\ asTaken' \in [Forms -> SUBSET Columns]
  BY DEF Becomes, RegistryTypeOK
<1>2. \A n \in AppCalls : [appCall[n] EXCEPT !.from = Nobody] \in AppCall
  BY DEF RegistryTypeOK, AppCall
<1>3. appCall' \in [AppCalls -> AppCall]
  BY <1>2 DEF Becomes, RegistryTypeOK
<1> QED
  BY <1>1, <1>3 DEF Becomes, RegistryTypeOK

\* Every step of the connected apps keeps the types.
LEMMA RegistryTypeStep ==
  ASSUME RegistryTypeOK, RegistryNext \/ UNCHANGED registryVars
  PROVE  RegistryTypeOK'
<1> USE RegistryAssumption
<1>1. ASSUME NEW p \in Forms, OpenForm(p) PROVE RegistryTypeOK'
  <2>1. [row |-> appInstance.row, props |-> appInstance.has, input |-> appInstance.has] \in ScimForm
    BY <1>1 DEF OpenForm, RegistryTypeOK, Instance, ScimForm
  <2> QED
    BY <1>1, <2>1, FormsBecome DEF OpenForm
<1>2. ASSUME NEW p \in Forms, LeaveForm(p) PROVE RegistryTypeOK'
  BY <1>2, FormsBecome, RowsOfTheCode DEF LeaveForm
<1>3. ASSUME NEW p \in Forms, RefreshForm(p) PROVE RegistryTypeOK'
  <2>1. appInstance.row \in 0..MaxRows /\ appInstance.has \in AppRows
    BY <1>3 DEF RefreshForm, RegistryTypeOK, Instance
  <2>2. [scimForm[p] EXCEPT !.row = appInstance.row, !.props = appInstance.has] \in ScimForm
    BY <2>1 DEF RegistryTypeOK, ScimForm
  <2>3. scimForm' \in [Forms -> ScimForm]
    BY <1>3, <2>2 DEF RefreshForm, RegistryTypeOK
  <2> QED
    BY <1>3, <2>3 DEF RefreshForm, RegistryTypeOK
<1>4. ASSUME NEW p \in Forms, Cancel(p) PROVE RegistryTypeOK'
  BY <1>4 DEF Cancel, CancelWith, RegistryTypeOK, ScimForm
<1>5. ASSUME NEW p \in Forms, SaveForm(p) PROVE RegistryTypeOK'
  BY <1>5 DEF SaveForm, Counts, Ask, FromForm, RegistryTypeOK, ScimForm, AppCall, AppCalls
<1>6. ASSUME NEW p \in Forms, Disconnect(p) PROVE RegistryTypeOK'
  BY <1>6 DEF Disconnect, Counts, RegistryTypeOK
<1>7. ASSUME NEW p \in Forms, NEW u \in Urls, ChangeInput(p, "url", u) PROVE RegistryTypeOK'
  <2> DEFINE changed == [scimForm[p].input EXCEPT !["url"] = u]
  <2>1. scimForm[p] \in ScimForm /\ scimForm[p].input \in AppRows
    BY DEF RegistryTypeOK, ScimForm
  <2>2. changed \in AppRows
    BY <2>1 DEF AppRows
  <2>3. [scimForm[p] EXCEPT !.input = changed] \in ScimForm
    BY <2>1, <2>2 DEF ScimForm
  <2>5. scimForm' = [scimForm EXCEPT ![p] = [scimForm[p] EXCEPT !.input = changed]]
    BY <1>7 DEF ChangeInput
  <2>6. asTaken' = [asTaken EXCEPT ![p] = asTaken[p] \ {"url"}]
    BY <1>7 DEF ChangeInput
  <2> HIDE DEF changed
  <2>4. scimForm' \in [Forms -> ScimForm] /\ asTaken' \in [Forms -> SUBSET Columns]
    BY <2>3, <2>5, <2>6 DEF RegistryTypeOK
  <2> QED
    BY <1>7, <2>4 DEF ChangeInput, RegistryTypeOK
<1>8. ASSUME NEW p \in Forms, NEW s \in {"ACTIVE", "PAUSED"}, ChangeInput(p, "status", s)
      PROVE RegistryTypeOK'
  <2> DEFINE changed == [scimForm[p].input EXCEPT !["status"] = s]
  <2>1. scimForm[p] \in ScimForm /\ scimForm[p].input \in AppRows
    BY DEF RegistryTypeOK, ScimForm
  <2>2. changed \in AppRows
    BY <2>1 DEF AppRows
  <2>3. [scimForm[p] EXCEPT !.input = changed] \in ScimForm
    BY <2>1, <2>2 DEF ScimForm
  <2>5. scimForm' = [scimForm EXCEPT ![p] = [scimForm[p] EXCEPT !.input = changed]]
    BY <1>8 DEF ChangeInput
  <2>6. asTaken' = [asTaken EXCEPT ![p] = asTaken[p] \ {"status"}]
    BY <1>8 DEF ChangeInput
  <2> HIDE DEF changed
  <2>4. scimForm' \in [Forms -> ScimForm] /\ asTaken' \in [Forms -> SUBSET Columns]
    BY <2>3, <2>5, <2>6 DEF RegistryTypeOK
  <2> QED
    BY <1>8, <2>4 DEF ChangeInput, RegistryTypeOK
<1>9. ASSUME NEW u \in Urls, Connect(u) PROVE RegistryTypeOK'
  <2> DEFINE new == [url |-> u, status |-> "ACTIVE"]
  <2>1. new \in AppRows
    BY DEF AppRows
  <2>2. NewRow(new) /\ Outdates(new) /\ Overtakes(0, new)
    BY <1>9 DEF Connect
  <2>3. appCalls' \in 0..MaxAppCalls
    <3>1. appCalls \in 0..MaxAppCalls /\ appCalls < MaxAppCalls /\ appCalls' = appCalls + 1
      BY <1>9 DEF Connect, Counts, RegistryTypeOK
    <3> QED
      BY <3>1
  <2> HIDE DEF new
  <2> QED
    BY <1>9, <2>1, <2>2, <2>3, WritesOvertake, WritesOutdate, RowsCount DEF Connect,
       RegistryTypeOK
<1>10. ASSUME DeleteApp PROVE RegistryTypeOK'
  <2>1. [NoCall EXCEPT !.kind = "delete", !.step = "load", !.asTaken = Columns] \in AppCall
    BY RowsOfTheCode DEF AppCall
  <2> QED
    BY <1>10, <2>1, RequestsCount DEF DeleteApp, Ask, RegistryTypeOK
<1>11. ASSUME NEW n \in AppCalls, FindInstance(n) PROVE RegistryTypeOK'
  <2>1. appInstance.row \in 0..MaxRows
    BY <1>11, RegistryAssumption DEF FindInstance, RegistryTypeOK, Instance
  <2>2. [appCall[n] EXCEPT !.step = "write", !.row = appInstance.row] \in AppCall
    BY <2>1 DEF RegistryTypeOK, AppCall
  <2> QED
    BY <1>11, <2>2 DEF FindInstance, Loads, RegistryTypeOK
<1>12. ASSUME NEW n \in AppCalls, CountInstances(n) PROVE RegistryTypeOK'
  <2>1. 0 \in 0..MaxRows
    BY <1>12, RegistryAssumption DEF CountInstances, RegistryTypeOK, Instance
  <2>2. [appCall[n] EXCEPT !.step = "write", !.row = 0] \in AppCall
    BY <2>1 DEF RegistryTypeOK, AppCall
  <2> QED
    BY <1>12, <2>2 DEF CountInstances, Loads, RegistryTypeOK
<1>13. ASSUME NEW n \in AppCalls, LoadRefused(n) PROVE RegistryTypeOK'
  BY <1>13 DEF LoadRefused, Over, Refused, Blank, NoCall, RegistryTypeOK, AppCall, AppRows
<1>14. ASSUME NEW n \in AppCalls, Patch(n) PROVE RegistryTypeOK'
  <2> DEFINE new == IF AtCall(n, "hub") THEN [appInstance.has EXCEPT !.url = appCall[n].sends.url]
                    ELSE appCall[n].sends
  <2>1. new \in AppRows
    BY <1>14 DEF Patch, Found, RegistryTypeOK, Instance, AppCall, AppRows
  <2>2. /\ Overtakes(n, new) /\ ByForm(n) /\ appInstance # NoInstance
        /\ appInstance' = [appInstance EXCEPT !.has = new]
        /\ UNCHANGED <<appExists, rowsMade, scimForm, appCalls>>
    BY <1>14 DEF Patch, Found
  <2>3. appInstance' \in Instance /\ appInstance'.has = new
    BY <2>1, <2>2 DEF RegistryTypeOK, Instance
  <2>4. PICK answered \in BOOLEAN :
          asTaken' = [q \in Forms |->
                       (asTaken[q] \ Differing(new)) \cup
                         (IF q = appCall[n].from /\ answered THEN Same(scimForm[q].input, new) ELSE {})]
    BY <1>14 DEF Patch
  <2>5. asTaken' \in [Forms -> SUBSET Columns]
    BY <2>4 DEF Same, RegistryTypeOK
  <2> HIDE DEF new
  <2> QED
    BY <2>1, <2>2, <2>3, <2>5, WritesOvertake DEF RegistryTypeOK
<1>15. ASSUME NEW n \in AppCalls, DeleteRow(n) PROVE RegistryTypeOK'
  BY <1>15, RowsOfTheCode DEF DeleteRow, Over, RegistryTypeOK
<1>16. ASSUME NEW n \in AppCalls, WriteRefused(n) PROVE RegistryTypeOK'
  BY <1>16 DEF WriteRefused, Over, Refused, Blank, NoCall, RegistryTypeOK, AppCall, AppRows
<1>17. ASSUME Register PROVE RegistryTypeOK'
  <2> DEFINE new == [url |-> Endpoint, status |-> "ACTIVE"]
  <2>1. new \in AppRows
    BY DEF AppRows
  <2>2. Outdates(new) /\ Overtakes(0, new)
    BY <1>17 DEF Register
  <2>3. appInstance' \in Instance /\ rowsMade' \in 0..MaxRows
    <3>1. CASE NewRow(new)
      BY <2>1, <3>1, RowsCount
    <3>2. CASE appInstance # NoInstance /\ appInstance' = [appInstance EXCEPT !.has = new] /\ UNCHANGED rowsMade
      BY <2>1, <3>2 DEF RegistryTypeOK, Instance
    <3> QED
      BY <1>17, <3>1, <3>2 DEF Register
  <2>4. appExists' = TRUE /\ UNCHANGED <<scimForm, appCalls>>
    BY <1>17 DEF Register
  <2> HIDE DEF new
  <2> QED
    BY <2>1, <2>2, <2>3, <2>4, WritesOvertake, WritesOutdate DEF RegistryTypeOK
<1>18. ASSUME Pause PROVE RegistryTypeOK'
  <2> DEFINE new == [appInstance.has EXCEPT !.status = "PAUSED"]
  <2>1. new \in AppRows
    BY <1>18 DEF Pause, RegistryTypeOK, Instance, AppRows
  <2>2. /\ Outdates(new) /\ Overtakes(0, new) /\ appInstance # NoInstance
        /\ appInstance' = [appInstance EXCEPT !.has = new]
        /\ UNCHANGED <<appExists, rowsMade, scimForm, appCalls>>
    BY <1>18 DEF Pause
  <2> HIDE DEF new
  <2>3. appInstance' \in Instance
    BY <2>1, <2>2 DEF RegistryTypeOK, Instance
  <2> QED
    BY <2>1, <2>2, <2>3, WritesOvertake, WritesOutdate DEF RegistryTypeOK
<1>19. ASSUME UNCHANGED registryVars PROVE RegistryTypeOK'
  BY <1>19 DEF registryVars, RegistryTypeOK
<1> QED
  BY <1>1, <1>2, <1>3, <1>4, <1>5, <1>6, <1>7, <1>8, <1>9, <1>10, <1>11, <1>12, <1>13, <1>14,
     <1>15, <1>16, <1>17, <1>18, <1>19 DEF RegistryNext

\* A column that a form took over, and nobody wrote since, is the row's.
LEMMA TakenKnowsStep ==
  ASSUME RegistryTypeOK, RegistryTypeOK', TakenKnows, RegistryNext \/ UNCHANGED registryVars
  PROVE  TakenKnows'
<1> USE RegistryAssumption
<1>1. ASSUME NEW p \in Forms, OpenForm(p) PROVE TakenKnows'
  BY <1>1 DEF OpenForm, Becomes, RegistryTypeOK, TakenKnows
<1>2. ASSUME NEW p \in Forms, LeaveForm(p) PROVE TakenKnows'
  BY <1>2 DEF LeaveForm, Becomes, RegistryTypeOK, TakenKnows
<1>3. ASSUME NEW p \in Forms, RefreshForm(p) PROVE TakenKnows'
  BY <1>3 DEF RefreshForm, TakenKnows
<1>4. ASSUME NEW p \in Forms, Cancel(p) PROVE TakenKnows'
  BY <1>4 DEF Cancel, CancelWith, Same, Differing, RegistryTypeOK, TakenKnows
<1>5. ASSUME NEW p \in Forms, SaveForm(p) PROVE TakenKnows'
  BY <1>5 DEF SaveForm, Ask, FromForm, TakenKnows
<1>6. ASSUME NEW p \in Forms, Disconnect(p) PROVE TakenKnows'
  BY <1>6 DEF Disconnect, TakenKnows
<1>7. ASSUME NEW p \in Forms, NEW u \in Urls, ChangeInput(p, "url", u) PROVE TakenKnows'
  <2>1. /\ \A q \in Forms \ {p} : scimForm'[q] = scimForm[q] /\ asTaken'[q] = asTaken[q]
        /\ asTaken'[p] = asTaken[p] \ {"url"}
        /\ UNCHANGED <<appInstance, appCall>>
    BY <1>7 DEF ChangeInput, RegistryTypeOK
  <2>2. scimForm'[p].input = [scimForm[p].input EXCEPT !["url"] = u]
    <3>1. scimForm' = [scimForm EXCEPT ![p] = [scimForm[p] EXCEPT !.input = [scimForm[p].input EXCEPT !["url"] = u]]]
      BY <1>7 DEF ChangeInput
    <3>2. scimForm[p] \in ScimForm
      BY DEF RegistryTypeOK
    <3> QED
      BY <3>1, <3>2 DEF RegistryTypeOK, ScimForm
  <2>3. \A c \in Columns \ {"url"} : scimForm'[p].input[c] = scimForm[p].input[c]
    BY <2>2 DEF RegistryTypeOK, ScimForm, AppRows, Columns
  <2>4. \A c \in asTaken'[p] : c \in Columns \ {"url"} /\ c \in asTaken[p]
    BY <2>1 DEF RegistryTypeOK
  <2> QED
    BY <2>1, <2>3, <2>4 DEF TakenKnows
<1>8. ASSUME NEW p \in Forms, NEW s \in {"ACTIVE", "PAUSED"}, ChangeInput(p, "status", s)
      PROVE TakenKnows'
  <2>1. /\ \A q \in Forms \ {p} : scimForm'[q] = scimForm[q] /\ asTaken'[q] = asTaken[q]
        /\ asTaken'[p] = asTaken[p] \ {"status"}
        /\ UNCHANGED <<appInstance, appCall>>
    BY <1>8 DEF ChangeInput, RegistryTypeOK
  <2>2. scimForm'[p].input = [scimForm[p].input EXCEPT !["status"] = s]
    <3>1. scimForm' = [scimForm EXCEPT ![p] = [scimForm[p] EXCEPT !.input = [scimForm[p].input EXCEPT !["status"] = s]]]
      BY <1>8 DEF ChangeInput
    <3>2. scimForm[p] \in ScimForm
      BY DEF RegistryTypeOK
    <3> QED
      BY <3>1, <3>2 DEF RegistryTypeOK, ScimForm
  <2>3. \A c \in Columns \ {"status"} : scimForm'[p].input[c] = scimForm[p].input[c]
    BY <2>2 DEF RegistryTypeOK, ScimForm, AppRows, Columns
  <2>4. \A c \in asTaken'[p] : c \in Columns \ {"status"} /\ c \in asTaken[p]
    BY <2>1 DEF RegistryTypeOK
  <2> QED
    BY <2>1, <2>3, <2>4 DEF TakenKnows
<1>9. ASSUME NEW u \in Urls, Connect(u) PROVE TakenKnows'
  BY <1>9 DEF Connect, Overtakes, Outdates, Differing, NoCall, RegistryTypeOK, AppCall, TakenKnows
<1>10. ASSUME DeleteApp PROVE TakenKnows'
  BY <1>10 DEF DeleteApp, Ask, TakenKnows
<1>11. ASSUME NEW n \in AppCalls, FindInstance(n) PROVE TakenKnows'
  BY <1>11 DEF FindInstance, Loads, TakenKnows
<1>12. ASSUME NEW n \in AppCalls, CountInstances(n) PROVE TakenKnows'
  BY <1>12 DEF CountInstances, Loads, TakenKnows
<1>13. ASSUME NEW n \in AppCalls, LoadRefused(n) PROVE TakenKnows'
  BY <1>13 DEF LoadRefused, Over, Refused, NoCall, TakenKnows
<1>14. ASSUME NEW n \in AppCalls, Patch(n) PROVE TakenKnows'
  <2> DEFINE new == IF AtCall(n, "hub") THEN [appInstance.has EXCEPT !.url = appCall[n].sends.url]
                    ELSE appCall[n].sends
  <2>1. new \in AppRows
    BY <1>14 DEF Patch, Found, RegistryTypeOK, Instance, AppCall, AppRows
  <2>2. /\ Overtakes(n, new) /\ ByForm(n) /\ appInstance # NoInstance
        /\ appInstance' = [appInstance EXCEPT !.has = new]
        /\ UNCHANGED <<appExists, rowsMade, scimForm, appCalls>>
    BY <1>14 DEF Patch, Found
  <2>3. appInstance' \in Instance /\ appInstance'.has = new
    BY <2>1, <2>2 DEF RegistryTypeOK, Instance
  <2>4. PICK answered \in BOOLEAN :
          asTaken' = [q \in Forms |->
                       (asTaken[q] \ Differing(new)) \cup
                         (IF q = appCall[n].from /\ answered THEN Same(scimForm[q].input, new) ELSE {})]
    BY <1>14 DEF Patch
  <2> HIDE DEF new
  <2>5. Differing(new) = Columns \ Same(appInstance.has, new)
    BY <2>2 DEF Differing
  <2>6. \A p \in Forms : \A c \in asTaken'[p] : scimForm[p].input[c] = new[c]
    BY <2>2, <2>4, <2>5 DEF TakenKnows, Same, RegistryTypeOK
  <2>7. \A m \in AppCalls : appCall'[m].kind \in {"table", "hub"} =>
          /\ appCall[m].kind = appCall'[m].kind
          /\ appCall'[m].sends = appCall[m].sends /\ appCall'[m].asTaken = appCall[m].asTaken \ Differing(new)
    BY <2>1, <2>2, WritesOvertake DEF RegistryTypeOK, AppCall
  <2>8. \A m \in AppCalls : appCall'[m].kind \in {"table", "hub"} =>
          \A c \in appCall'[m].asTaken : appCall'[m].sends[c] = new[c]
    BY <2>2, <2>5, <2>7 DEF TakenKnows, Same, RegistryTypeOK, AppCall
  <2> QED
    BY <2>2, <2>3, <2>6, <2>8 DEF TakenKnows
<1>15. ASSUME NEW n \in AppCalls, DeleteRow(n) PROVE TakenKnows'
  BY <1>15 DEF DeleteRow, TakenKnows
<1>16. ASSUME NEW n \in AppCalls, WriteRefused(n) PROVE TakenKnows'
  BY <1>16 DEF WriteRefused, Over, Refused, NoCall, TakenKnows
<1>17. ASSUME Register PROVE TakenKnows'
  BY <1>17 DEF Register, Overtakes, Outdates, Same, Differing, NoCall, RegistryTypeOK, Instance,
     AppCall, TakenKnows
<1>18. ASSUME Pause PROVE TakenKnows'
  BY <1>18 DEF Pause, Overtakes, Outdates, Same, Differing, NoCall, RegistryTypeOK, AppCall,
     TakenKnows
<1>19. ASSUME UNCHANGED registryVars PROVE TakenKnows'
  BY <1>19 DEF registryVars, TakenKnows
<1> QED
  BY <1>1, <1>2, <1>3, <1>4, <1>5, <1>6, <1>7, <1>8, <1>9, <1>10, <1>11, <1>12, <1>13, <1>14,
     <1>15, <1>16, <1>17, <1>18, <1>19 DEF RegistryNext

\* A deletion that counted none finds none, unless one was created since.
LEMMA CountKnowsStep ==
  ASSUME RegistryTypeOK, RegistryTypeOK', CountKnows, RegistryNext \/ UNCHANGED registryVars
  PROVE  CountKnows'
<1> USE RegistryAssumption
<1>1. ASSUME NEW p \in Forms, OpenForm(p) PROVE CountKnows'
  BY <1>1 DEF OpenForm, Becomes, AtCall, CountKnows
<1>2. ASSUME NEW p \in Forms, LeaveForm(p) PROVE CountKnows'
  BY <1>2 DEF LeaveForm, Becomes, AtCall, CountKnows
<1>3. ASSUME NEW p \in Forms, RefreshForm(p) PROVE CountKnows'
  BY <1>3 DEF RefreshForm, AtCall, CountKnows
<1>4. ASSUME NEW p \in Forms, Cancel(p) PROVE CountKnows'
  BY <1>4 DEF Cancel, CancelWith, AtCall, CountKnows
<1>5. ASSUME NEW p \in Forms, SaveForm(p) PROVE CountKnows'
  BY <1>5 DEF SaveForm, Ask, FromForm, AtCall, CountKnows
<1>6. ASSUME NEW p \in Forms, Disconnect(p) PROVE CountKnows'
  BY <1>6 DEF Disconnect, CountKnows
<1>7. ASSUME NEW p \in Forms, NEW u \in Urls, ChangeInput(p, "url", u) PROVE CountKnows'
  BY <1>7 DEF ChangeInput, AtCall, CountKnows
<1>8. ASSUME NEW p \in Forms, NEW s \in {"ACTIVE", "PAUSED"}, ChangeInput(p, "status", s)
      PROVE CountKnows'
  BY <1>8 DEF ChangeInput, AtCall, CountKnows
<1>9. ASSUME NEW u \in Urls, Connect(u) PROVE CountKnows'
  <2> DEFINE new == [url |-> u, status |-> "ACTIVE"]
  <2>1. new \in AppRows
    BY DEF AppRows
  <2>2. Overtakes(0, new) /\ Differing(new) = Columns
    BY <1>9 DEF Connect, Differing
  <2> HIDE DEF new
  <2>3. \A m \in AppCalls : appCall'[m].kind # "none" => appCall'[m].asTaken \cap Columns = {}
    <3>1. \A m \in AppCalls : appCall'[m].kind # "none" =>
            appCall'[m] = [appCall[m] EXCEPT !.asTaken = @ \ Columns]
      BY <2>1, <2>2, WritesOvertake
    <3>2. \A m \in AppCalls : [appCall[m] EXCEPT !.asTaken = @ \ Columns].asTaken = appCall[m].asTaken \ Columns
      BY DEF RegistryTypeOK, AppCall
    <3> QED
      BY <3>1, <3>2
  <2> QED
    BY <2>3 DEF CountKnows, AtCall, Columns
<1>10. ASSUME DeleteApp PROVE CountKnows'
  BY <1>10 DEF DeleteApp, Ask, AtCall, CountKnows
<1>11. ASSUME NEW n \in AppCalls, FindInstance(n) PROVE CountKnows'
  BY <1>11 DEF FindInstance, Loads, AtCall, CountKnows
<1>12. ASSUME NEW n \in AppCalls, CountInstances(n) PROVE CountKnows'
  BY <1>12 DEF CountInstances, Loads, CountKnows
<1>13. ASSUME NEW n \in AppCalls, LoadRefused(n) PROVE CountKnows'
  BY <1>13 DEF LoadRefused, Over, Refused, AtCall, NoCall, CountKnows
<1>14. ASSUME NEW n \in AppCalls, Patch(n) PROVE CountKnows'
  <2> DEFINE new == IF AtCall(n, "hub") THEN [appInstance.has EXCEPT !.url = appCall[n].sends.url]
                    ELSE appCall[n].sends
  <2>1. new \in AppRows
    BY <1>14 DEF Patch, Found, RegistryTypeOK, Instance, AppCall, AppRows
  <2>2. /\ Overtakes(n, new) /\ ByForm(n) /\ appInstance # NoInstance
        /\ appInstance' = [appInstance EXCEPT !.has = new]
        /\ UNCHANGED <<appExists, rowsMade, scimForm, appCalls>>
    BY <1>14 DEF Patch, Found
  <2>3. appInstance' \in Instance /\ appInstance'.has = new
    BY <2>1, <2>2 DEF RegistryTypeOK, Instance
  <2>4. PICK answered \in BOOLEAN :
          asTaken' = [q \in Forms |->
                       (asTaken[q] \ Differing(new)) \cup
                         (IF q = appCall[n].from /\ answered THEN Same(scimForm[q].input, new) ELSE {})]
    BY <1>14 DEF Patch
  <2> HIDE DEF new
  <2>5. \A m \in AppCalls : appCall'[m].kind = "delete" =>
          /\ appCall[m].kind = "delete" /\ appCall'[m].step = appCall[m].step
          /\ appCall'[m].asTaken \subseteq appCall[m].asTaken
    BY <2>1, <2>2, WritesOvertake DEF RegistryTypeOK, AppCall
  <2>6. \A m \in AppCalls : appCall[m].asTaken \subseteq Columns
    BY DEF RegistryTypeOK, AppCall
  <2>7. \A m \in AppCalls : appCall'[m].asTaken = Columns => appCall'[m].kind # "delete" \/ appCall[m].asTaken = Columns
    BY <2>5, <2>6
  <2> QED
    BY <2>2, <2>5, <2>7 DEF CountKnows, AtCall
<1>15. ASSUME NEW n \in AppCalls, DeleteRow(n) PROVE CountKnows'
  BY <1>15 DEF DeleteRow, CountKnows
<1>16. ASSUME NEW n \in AppCalls, WriteRefused(n) PROVE CountKnows'
  BY <1>16 DEF WriteRefused, Over, Refused, AtCall, NoCall, CountKnows
<1>17. ASSUME Register PROVE CountKnows'
  BY <1>17 DEF Register, AtCall, Overtakes, Same, Differing, NoCall, Columns, CountKnows
<1>18. ASSUME Pause PROVE CountKnows'
  BY <1>18 DEF Pause, AtCall, Overtakes, Differing, NoCall, Columns, AppCall, AppRows, AppCalls,
     CountKnows
<1>19. ASSUME UNCHANGED registryVars PROVE CountKnows'
  BY <1>19 DEF registryVars, AtCall, CountKnows
<1> QED
  BY <1>1, <1>2, <1>3, <1>4, <1>5, <1>6, <1>7, <1>8, <1>9, <1>10, <1>11, <1>12, <1>13, <1>14,
     <1>15, <1>16, <1>17, <1>18, <1>19 DEF RegistryNext

\* The inductive invariant of the connected apps.
LEMMA RegistryInvariant == RegistrySpec => []RegistryInv
<1>1. RegistryInit => RegistryInv
  <2> SUFFICES ASSUME RegistryInit PROVE RegistryInv
    OBVIOUS
  <2> USE RegistryAssumption
  <2>1. Blank \in AppRows
    BY DEF Blank, AppRows
  <2>2. Closed \in ScimForm /\ NoCall \in AppCall
    BY <2>1 DEF Closed, ScimForm, NoCall, AppCall
  <2>3. RegistryTypeOK
    BY <2>2 DEF RegistryInit, RegistryTypeOK
  <2>4. TakenKnows /\ CountKnows
    BY DEF RegistryInit, TakenKnows, CountKnows
  <2> QED
    BY <2>3, <2>4 DEF RegistryInv
<1>2. RegistryInv /\ [RegistryNext]_registryVars => RegistryInv'
  BY RegistryTypeStep, TakenKnowsStep, CountKnowsStep DEF RegistryInv
<1> QED
  BY <1>1, <1>2, PTL DEF RegistrySpec

\* Every variable of the registry keeps its type (RegistryTypeOK).
THEOREM RegistryTypeCorrect == RegistrySpec => []RegistryTypeOK
<1>1. RegistryInv => RegistryTypeOK
  BY DEF RegistryInv
<1> QED
  BY <1>1, RegistryInvariant, PTL

\* For any number of forms and requests: a save changes only the columns that its
\* admin changed, unless someone else has changed one meanwhile.
THEOREM FormsKeepTheRest == RegistrySpec => SaveKeepsRest
<1>1. ASSUME RegistryInv, NEW n \in AppCalls, ByForm(n) /\ Patch(n)
      PROVE \A c \in appCall[n].asTaken : appInstance'.has[c] = appInstance.has[c]
  BY <1>1 DEF RegistryInv, TakenKnows, Patch, ByForm, AtCall, Found, RegistryTypeOK, Instance,
     AppCall, AppRows, Columns
<1>2. RegistryInv =>
        (\A n \in AppCalls : ByForm(n) /\ Patch(n) => \A c \in appCall[n].asTaken : appInstance'.has[c] = appInstance.has[c])
  BY <1>1
<1> QED
  BY <1>2, RegistryInvariant, PTL DEF SaveKeepsRest

\* For any number of requests: a deletion of the app takes no instance with it
\* that was there when it counted (connected-apps/[id]/route.ts).
THEOREM DeletesAreCounted == RegistrySpec => DeleteSparesLive
<1>1. ASSUME RegistryInv, NEW n \in AppCalls, AtCall(n, "delete") /\ DeleteRow(n)
      PROVE appInstance = NoInstance \/ appCall[n].asTaken # Columns
  BY <1>1 DEF RegistryInv, CountKnows
<1>2. RegistryInv =>
        (\A n \in AppCalls : AtCall(n, "delete") /\ DeleteRow(n) => appInstance = NoInstance \/ appCall[n].asTaken # Columns)
  BY <1>1
<1> QED
  BY <1>2, RegistryInvariant, PTL DEF DeleteSparesLive

(***************************************************************************)
(* RateLimit                                                               *)
(***************************************************************************)

(* A request is under way for at most Delay. *)
UnderWay ==
  \A r \in Requesters : asked[r] # NoMember =>
    asked[r].at <= clock /\ clock <= asked[r].at + Delay

(* What was let through and is no longer in the set left the window. *)
Forgotten ==
  /\ scores \subseteq admitted
  /\ \A m \in admitted : m.at <= clock
  /\ \A m \in admitted \ scores : m.at <= clock - Window

(* The set expires after everything in it left the window. *)
ExpiresLate == \A m \in scores : m.at + Window <= expiry

Finite == IsFiniteSet(admitted) /\ Cardinality(scores) <= Limit

LimiterInv == UnderWay /\ Forgotten /\ ExpiresLate /\ Finite

-------------------------------------------------------------------------------
\* A set below the limit is at most at the limit with one more.
LEMMA AtMostLimit ==
  ASSUME NEW S, IsFiniteSet(S), Cardinality(S) < Limit, NEW e
  PROVE  Cardinality(S \cup {e}) <= Limit
<1>1. Cardinality(S) \in Nat
  BY FS_CardinalityType
<1>2. Cardinality(S \cup {e}) = Cardinality(S) \/ Cardinality(S \cup {e}) = Cardinality(S) + 1
  BY Zenon, FS_AddElement
<1> QED
  BY <1>1, <1>2, RateLimitAssumption

\* Every step of the limiter keeps the types.
LEMMA LimiterTypeStep ==
  ASSUME LimiterTypeOK, [LimiterNext]_limiterVars
  PROVE  LimiterTypeOK'
<1> USE RateLimitAssumption DEF LimiterTypeOK, Members, NoMember
<1>1. ASSUME NEW r \in Requesters, AskLimiter(r) PROVE LimiterTypeOK'
  BY <1>1 DEF AskLimiter
<1>2. ASSUME NEW r \in Requesters, Admit(r) PROVE LimiterTypeOK'
  <2>1. asked[r] \in Members
    BY <1>2 DEF Admit
  <2>2. Inside(asked[r].at) \subseteq scores
    BY DEF Inside, Held
  <2>3. scores' \in SUBSET Members /\ admitted' \in SUBSET Members
    BY <1>2, <2>1, <2>2 DEF Admit
  <2>4. asked' \in [Requesters -> Members \cup {NoMember}] /\ outages' \in 0..MaxOutages
    BY <1>2 DEF Admit, Replied
  <2> QED
    BY <1>2, <2>3, <2>4 DEF Admit
<1>3. ASSUME NEW r \in Requesters, Refuse(r) PROVE LimiterTypeOK'
  <2>1. Inside(asked[r].at) \subseteq scores
    BY DEF Inside, Held
  <2>2. scores' \in SUBSET Members
    BY <1>3, <2>1 DEF Refuse
  <2>3. refusal' \in [reset : Nat, admitted : SUBSET Members]
    BY <1>3, <2>1 DEF Refuse
  <2>4. asked' \in [Requesters -> Members \cup {NoMember}] /\ outages' \in 0..MaxOutages
    BY <1>3 DEF Refuse, Replied
  <2> QED
    BY <1>3, <2>2, <2>3, <2>4 DEF Refuse
<1>4. ASSUME NEW r \in Requesters, LetThrough(r) PROVE LimiterTypeOK'
  BY <1>4 DEF LetThrough
<1>5. CASE PassTime
  BY <1>5 DEF PassTime
<1>6. CASE UNCHANGED limiterVars
  BY <1>6 DEF limiterVars
<1> QED
  BY <1>1, <1>2, <1>3, <1>4, <1>5, <1>6 DEF LimiterNext

(* A member that left the window, or was dropped with the set, did so by the clock. *)
LEMMA OutsideIsOld ==
  ASSUME LimiterTypeOK, LimiterInv, NEW now \in Nat, now <= clock,
         NEW m \in admitted, m \notin Inside(now)
  PROVE  m.at <= clock - Window
<1> USE RateLimitAssumption DEF LimiterTypeOK, Members
<1>1. CASE m \notin scores
  BY <1>1 DEF LimiterInv, Forgotten
<1>2. CASE m \in scores /\ clock >= expiry
  BY <1>2 DEF LimiterInv, ExpiresLate
<1>3. CASE m \in scores /\ ~ clock >= expiry
  BY <1>3 DEF Inside, Held
<1> QED
  BY <1>1, <1>2, <1>3

\* What is in the window is part of the finite set that Redis keeps.
LEMMA InsideIsFinite ==
  ASSUME LimiterTypeOK, LimiterInv, NEW now
  PROVE  /\ IsFiniteSet(scores) /\ IsFiniteSet(Inside(now))
         /\ Cardinality(Inside(now)) <= Cardinality(scores)
         /\ Cardinality(Inside(now)) \in Nat /\ Cardinality(scores) \in Nat
<1>1. IsFiniteSet(scores)
  BY FS_Subset DEF LimiterInv, Forgotten, Finite
<1>2. Inside(now) \in SUBSET scores
  BY DEF Inside, Held
<1> QED
  BY <1>1, <1>2, FS_Subset, FS_CardinalityType

\* Redis forgets only what has left the window.
LEMMA LimiterInvStep ==
  ASSUME LimiterTypeOK, LimiterInv, [LimiterNext]_limiterVars
  PROVE  LimiterInv'
<1> USE RateLimitAssumption
<1>1. ASSUME NEW r \in Requesters, AskLimiter(r) PROVE LimiterInv'
  BY <1>1 DEF AskLimiter, LimiterTypeOK, LimiterInv, UnderWay, Forgotten, ExpiresLate, Finite
<1>2. ASSUME NEW r \in Requesters, Admit(r) PROVE LimiterInv'
  <2> DEFINE a == asked[r]
  <2>1. a \in Members /\ a.at \in Nat /\ a.at <= clock /\ clock \in Nat
    BY <1>2 DEF Admit, LimiterTypeOK, LimiterInv, UnderWay, Members
  <2>2. UnderWay'
    BY <1>2 DEF Admit, Replied, LimiterTypeOK, LimiterInv, UnderWay
  <2>3. /\ scores' = Inside(a.at) \cup {a} /\ admitted' = admitted \cup {a}
        /\ clock' = clock /\ expiry' = clock + Window
    BY <1>2 DEF Admit
  <2>4. Inside(a.at) \subseteq scores
    BY DEF Inside, Held
  <2>5. Forgotten'
    <3>1. scores' \subseteq admitted'
      BY <2>3, <2>4 DEF LimiterInv, Forgotten
    <3>2. \A m \in admitted' : m.at <= clock'
      BY <2>1, <2>3 DEF LimiterInv, Forgotten
    <3>3. ASSUME NEW m \in admitted', m \notin scores' PROVE m.at <= clock' - Window
      <4>1. m \in admitted /\ m \notin Inside(a.at)
        BY <2>3, <3>3
      <4> QED
        BY <2>1, <2>3, <4>1, OutsideIsOld
    <3> QED
      BY <3>1, <3>2, <3>3 DEF Forgotten
  <2>6. ExpiresLate'
    <3>1. ASSUME NEW m \in scores' PROVE m.at + Window <= expiry'
      <4>1. m.at <= clock /\ m.at \in Nat
        BY <2>1, <2>3, <2>4 DEF LimiterInv, Forgotten, LimiterTypeOK, Members
      <4> QED
        BY <2>1, <2>3, <4>1
    <3> QED
      BY <3>1 DEF ExpiresLate
  <2>7. Finite'
    <3>1. IsFiniteSet(admitted')
      BY <2>3, FS_AddElement DEF LimiterInv, Finite
    <3>2. IsFiniteSet(Inside(a.at)) /\ Cardinality(Inside(a.at)) \in Nat
      BY InsideIsFinite
    <3>3. Cardinality(Inside(a.at)) < Limit
      BY <1>2 DEF Admit, HasRoom
    <3>4. Cardinality(scores') <= Limit
      BY <2>3, <3>2, <3>3, AtMostLimit
    <3> QED
      BY <3>1, <3>4 DEF Finite
  <2> QED
    BY <2>2, <2>5, <2>6, <2>7 DEF LimiterInv
<1>3. ASSUME NEW r \in Requesters, Refuse(r) PROVE LimiterInv'
  <2> DEFINE a == asked[r]
  <2>1. a.at \in Nat /\ a.at <= clock /\ clock \in Nat
    BY <1>3 DEF Refuse, LimiterTypeOK, LimiterInv, UnderWay, Members
  <2>2. UnderWay'
    BY <1>3 DEF Refuse, Replied, LimiterTypeOK, LimiterInv, UnderWay
  <2>3. /\ scores' = Inside(a.at) /\ admitted' = admitted
        /\ clock' = clock /\ expiry' = expiry
    BY <1>3 DEF Refuse
  <2>4. Inside(a.at) \subseteq scores
    BY DEF Inside, Held
  <2>5. Forgotten'
    <3>1. ASSUME NEW m \in admitted', m \notin scores' PROVE m.at <= clock' - Window
      BY <2>1, <2>3, <3>1, OutsideIsOld
    <3> QED
      BY <2>3, <2>4, <3>1 DEF LimiterInv, Forgotten
  <2>6. ExpiresLate'
    BY <2>3, <2>4 DEF LimiterInv, ExpiresLate
  <2>7. Finite'
    <3>1. Cardinality(Inside(a.at)) <= Cardinality(scores)
          /\ Cardinality(Inside(a.at)) \in Nat /\ Cardinality(scores) \in Nat
      BY InsideIsFinite
    <3>2. Cardinality(scores) <= Limit
      BY DEF LimiterInv, Finite
    <3>3. Cardinality(scores') <= Limit
      BY <2>3, <3>1, <3>2
    <3> QED
      BY <2>3, <3>3 DEF LimiterInv, Finite
  <2> QED
    BY <2>2, <2>5, <2>6, <2>7 DEF LimiterInv
<1>4. ASSUME NEW r \in Requesters, LetThrough(r) PROVE LimiterInv'
  BY <1>4 DEF LetThrough, LimiterInv, UnderWay, Forgotten, ExpiresLate, Finite
<1>5. CASE PassTime
  <2>1. UnderWay'
    BY <1>5 DEF PassTime, LimiterTypeOK, LimiterInv, UnderWay, Members
  <2>2. Forgotten'
    <3>1. clock' = clock + 1 /\ clock \in Nat /\ admitted' = admitted /\ scores' = scores
      BY <1>5 DEF PassTime, LimiterTypeOK
    <3>2. \A m \in admitted : m.at \in Nat
      BY DEF LimiterTypeOK, Members
    <3> QED
      BY <3>1, <3>2 DEF LimiterInv, Forgotten
  <2> QED
    BY <1>5, <2>1, <2>2 DEF PassTime, LimiterInv, ExpiresLate, Finite
<1>6. CASE UNCHANGED limiterVars
  BY <1>6 DEF limiterVars, LimiterInv, UnderWay, Forgotten, ExpiresLate, Finite
<1> QED
  BY <1>1, <1>2, <1>3, <1>4, <1>5, <1>6 DEF LimiterNext

-------------------------------------------------------------------------------
\* An empty limiter keeps all of this.
LEMMA LimiterInvStart ==
  ASSUME LimiterInit
  PROVE  LimiterTypeOK /\ LimiterInv
<1> USE RateLimitAssumption DEF LimiterInit
<1>1. LimiterTypeOK
  BY DEF LimiterTypeOK, NoMember
<1>2. Finite
  BY FS_EmptySet DEF Finite
<1> QED
  BY <1>1, <1>2 DEF LimiterInv, UnderWay, Forgotten, ExpiresLate

(* Every variable keeps its type. *)
THEOREM LimiterTypeCorrect == LimiterSpec => [](LimiterTypeOK /\ LimiterInv)
<1>1. LimiterInit => LimiterTypeOK /\ LimiterInv
  BY LimiterInvStart
<1>2. LimiterTypeOK /\ LimiterInv /\ [LimiterNext]_limiterVars => (LimiterTypeOK /\ LimiterInv)'
  BY LimiterTypeStep, LimiterInvStep
<1> QED
  BY <1>1, <1>2, PTL DEF LimiterSpec

-------------------------------------------------------------------------------
\* What was let through in a stretch of time is finite.
LEMMA StretchIsFinite ==
  ASSUME LimiterInv, NEW t
  PROVE  IsFiniteSet(Stretch(t)) /\ Cardinality(Stretch(t)) \in Nat
<1>1. Stretch(t) \in SUBSET admitted
  BY DEF Stretch
<1> QED
  BY <1>1, FS_Subset, FS_CardinalityType DEF LimiterInv, Finite

\* A request that is let through found the window below the limit.
LEMMA BoundStep ==
  ASSUME LimiterTypeOK, LimiterInv, WindowBounded, [LimiterNext]_limiterVars
  PROVE  WindowBounded'
<1> USE RateLimitAssumption
<1>1. CASE UNCHANGED admitted
  BY <1>1 DEF WindowBounded, Stretch
<1>2. ASSUME NEW r \in Requesters, Admit(r) PROVE WindowBounded'
  <2> DEFINE a == asked[r]
  <2>1. /\ a.at \in Nat /\ a.at <= clock /\ clock <= a.at + Delay /\ clock \in Nat
    BY <1>2 DEF Admit, LimiterTypeOK, LimiterInv, UnderWay, Members
  <2>2. admitted' = admitted \cup {a}
    BY <1>2 DEF Admit
  <2> SUFFICES ASSUME NEW t \in 0..LastTime PROVE Cardinality(Stretch(t)') <= Limit
    BY DEF WindowBounded
  <2>3. CASE ~ (t <= a.at /\ a.at < t + Window - Delay)
    <3>1. Stretch(t)' = Stretch(t)
      BY <2>2, <2>3 DEF Stretch
    <3> QED
      BY <3>1 DEF WindowBounded
  <2>4. CASE t <= a.at /\ a.at < t + Window - Delay
    <3>1. Stretch(t)' = Stretch(t) \cup {a}
      BY <2>2, <2>4 DEF Stretch
    <3>2. Stretch(t) \subseteq Inside(a.at)
      <4> SUFFICES ASSUME NEW m \in Stretch(t), m \notin Inside(a.at) PROVE FALSE
        OBVIOUS
      <4>1. m \in admitted /\ t <= m.at /\ m.at \in Nat
        BY DEF Stretch, LimiterTypeOK, Members
      <4>2. m.at <= clock - Window
        BY <2>1, <4>1, OutsideIsOld
      <4> QED
        BY <2>1, <2>4, <4>1, <4>2
    <3>3. IsFiniteSet(Inside(a.at)) /\ Cardinality(Inside(a.at)) \in Nat
      BY InsideIsFinite
    <3>4. Cardinality(Stretch(t)) <= Cardinality(Inside(a.at))
      BY <3>2, <3>3, FS_Subset
    <3>5. Cardinality(Inside(a.at)) < Limit
      BY <1>2 DEF Admit, HasRoom
    <3>6. IsFiniteSet(Stretch(t)) /\ Cardinality(Stretch(t)) \in Nat
      BY StretchIsFinite
    <3>7. Cardinality(Stretch(t)) < Limit
      BY <3>3, <3>4, <3>5, <3>6, RateLimitAssumption
    <3>8. Cardinality(Stretch(t) \cup {a}) <= Limit
      BY <3>6, <3>7, AtMostLimit
    <3> QED
      BY <3>1, <3>8
  <2> QED
    BY <2>3, <2>4
<1>3. ASSUME ~ UNCHANGED admitted PROVE \E r \in Requesters : Admit(r)
  BY <1>3 DEF LimiterNext, AskLimiter, Refuse, LetThrough, PassTime, limiterVars
<1> QED
  BY <1>1, <1>2, <1>3

(* However late requests reach Redis, whatever is sent twice and although the
   set expires, at most Limit requests are let through in any stretch of
   Window - Delay. *)
THEOREM WindowIsBounded == LimiterSpec => []WindowBounded
<1>1. LimiterInit => WindowBounded
  <2>1. ASSUME LimiterInit, NEW t \in 0..LastTime PROVE Cardinality(Stretch(t)) <= Limit
    <3>1. Stretch(t) = {}
      BY <2>1 DEF LimiterInit, Stretch
    <3> QED
      BY <3>1, FS_EmptySet, RateLimitAssumption
  <2> QED
    BY <2>1 DEF WindowBounded
<1>2. LimiterTypeOK /\ LimiterInv /\ WindowBounded /\ [LimiterNext]_limiterVars => WindowBounded'
  BY BoundStep
<1> QED
  BY <1>1, <1>2, LimiterTypeCorrect, PTL DEF LimiterSpec

-------------------------------------------------------------------------------
(* As long as nothing is let through, the members inside any window become fewer. *)
LEMMA InsideShrinks ==
  ASSUME LimiterTypeOK, LimiterInv, [LimiterNext]_limiterVars, admitted' = admitted, NEW now \in Nat
  PROVE  Inside(now)' \subseteq Inside(now)
<1> USE RateLimitAssumption
<1>1. ASSUME NEW r \in Requesters, Admit(r) PROVE Inside(now)' \subseteq Inside(now)
  <2> DEFINE a == asked[r]
  <2>1. /\ a.at \in Nat /\ clock <= a.at + Delay /\ clock \in Nat /\ a.at <= clock
    BY <1>1 DEF Admit, LimiterTypeOK, LimiterInv, UnderWay, Members
  <2>2. a \in admitted
    BY <1>1 DEF Admit
  <2>3. a \in Inside(a.at)
    <3>1. ASSUME a \notin Inside(a.at) PROVE FALSE
      <4>1. a.at <= clock - Window
        BY <2>1, <2>2, <3>1, OutsideIsOld
      <4> QED
        BY <2>1, <4>1
    <3> QED
      BY <3>1
  <2>4. scores' \subseteq Inside(a.at)
    BY <1>1, <2>3 DEF Admit
  <2>5. Inside(a.at) \subseteq Held
    BY DEF Inside
  <2> QED
    BY <2>4, <2>5 DEF Inside, Held
<1>2. ASSUME NEW r \in Requesters, Refuse(r) PROVE Inside(now)' \subseteq Inside(now)
  BY <1>2 DEF Refuse, Inside, Held
<1>3. CASE PassTime
  BY <1>3 DEF PassTime, Inside, Held, LimiterTypeOK
<1>4. ASSUME NEW r \in Requesters, AskLimiter(r) \/ LetThrough(r)
      PROVE Inside(now)' \subseteq Inside(now)
  BY <1>4 DEF AskLimiter, LetThrough, Inside, Held
<1>5. CASE UNCHANGED limiterVars
  BY <1>5 DEF limiterVars, Inside, Held
<1> QED
  BY <1>1, <1>2, <1>3, <1>4, <1>5 DEF LimiterNext

(* The refused request's own window is full, and its oldest member is out of
   the window that ends at the reset time. *)
LEMMA RefusalLeavesRoom ==
  ASSUME LimiterTypeOK, LimiterInv, NEW r \in Requesters, Refuse(r)
  PROVE  HasRoom(refusal.reset)'
<1> USE RateLimitAssumption
<1> DEFINE S == Inside(asked[r].at)
<1>1. PICK oldest \in S : refusal'.reset = oldest.at + Window
  BY DEF Refuse
<1>2. S \subseteq Members
  BY DEF Inside, Held, LimiterTypeOK
<1>3. oldest.at \in Nat
  BY <1>1, <1>2 DEF Members
<1>4. scores' = S
  BY DEF Refuse
<1>5. Inside(refusal.reset)' \subseteq S \ {oldest}
  <2> SUFFICES ASSUME NEW m \in Inside(refusal.reset)' PROVE m \in S /\ m # oldest
    OBVIOUS
  <2>1. m \in scores' /\ m.at > refusal'.reset - Window
    BY DEF Inside, Held
  <2> QED
    BY <1>1, <1>3, <1>4, <2>1
<1>6. IsFiniteSet(S) /\ Cardinality(S) \in Nat /\ Cardinality(S) <= Limit
  <2>1. Cardinality(scores) <= Limit
    BY DEF LimiterInv, Finite
  <2>2. /\ IsFiniteSet(S) /\ Cardinality(S) \in Nat
        /\ Cardinality(S) <= Cardinality(scores) /\ Cardinality(scores) \in Nat
    BY InsideIsFinite
  <2> QED
    BY <2>1, <2>2
<1> HIDE DEF S
<1>7. IsFiniteSet(S \ {oldest}) /\ Cardinality(S \ {oldest}) = Cardinality(S) - 1
  BY Zenon, <1>1, <1>6, FS_RemoveElement
<1>8. Cardinality(Inside(refusal.reset)') <= Cardinality(S \ {oldest})
      /\ IsFiniteSet(Inside(refusal.reset)')
  BY <1>5, <1>7, FS_Subset
<1>9. Cardinality(Inside(refusal.reset)') \in Nat
  BY <1>8, FS_CardinalityType
<1>10. Cardinality(Inside(refusal.reset)') < Limit
  BY <1>6, <1>7, <1>8, <1>9
<1> QED
  BY <1>10 DEF HasRoom

\* What a refused caller was told to wait for does leave the window.
LEMMA ResetStep ==
  ASSUME LimiterTypeOK, LimiterInv, refusal.admitted \subseteq admitted, ResetHasRoom,
         [LimiterNext]_limiterVars
  PROVE  refusal'.admitted \subseteq admitted' /\ ResetHasRoom'
<1> USE RateLimitAssumption
<1>1. ASSUME NEW r \in Requesters, Refuse(r)
      PROVE  refusal'.admitted \subseteq admitted' /\ ResetHasRoom'
  <2>1. refusal'.admitted \subseteq admitted'
    BY <1>1 DEF Refuse
  <2> QED
    BY <1>1, <2>1, RefusalLeavesRoom DEF ResetHasRoom
<1>2. ASSUME UNCHANGED refusal, admitted \subseteq admitted'
      PROVE  refusal'.admitted \subseteq admitted' /\ ResetHasRoom'
  <2> SUFFICES ASSUME refusal.reset > 0, refusal.admitted = admitted'
               PROVE  HasRoom(refusal.reset)'
    BY <1>2 DEF ResetHasRoom
  <2>1. admitted' = admitted
    BY <1>2
  <2>2. refusal.reset \in Nat
    BY DEF LimiterTypeOK
  <2>3. Inside(refusal.reset)' \subseteq Inside(refusal.reset)
    <3> DEFINE now == refusal.reset
    <3> HIDE DEF now
    <3>1. Inside(now)' \subseteq Inside(now)
      BY <1>2, <2>1, <2>2, InsideShrinks DEF now
    <3> QED
      BY <1>2, <3>1 DEF now
  <2>4. /\ IsFiniteSet(Inside(refusal.reset)) /\ Cardinality(Inside(refusal.reset)) \in Nat
    BY InsideIsFinite
  <2>5. Cardinality(Inside(refusal.reset)) < Limit
    BY <2>1 DEF ResetHasRoom, HasRoom
  <2>6. IsFiniteSet(Inside(refusal.reset)')
        /\ Cardinality(Inside(refusal.reset)') <= Cardinality(Inside(refusal.reset))
    BY <2>3, <2>4, FS_Subset
  <2>7. Cardinality(Inside(refusal.reset)') \in Nat
    BY <2>6, FS_CardinalityType
  <2>8. Cardinality(Inside(refusal.reset)') < Limit
    BY <2>4, <2>5, <2>6, <2>7
  <2> QED
    BY <2>8 DEF HasRoom
<1>3. (\E r \in Requesters : Refuse(r)) \/ (UNCHANGED refusal /\ admitted \subseteq admitted')
  BY DEF LimiterNext, AskLimiter, Admit, LetThrough, PassTime, limiterVars
<1> QED
  BY <1>1, <1>2, <1>3

(* A refused caller that comes back at the reset time, nothing having been let
   through since, finds room. *)
THEOREM ResetIsEnough == LimiterSpec => []ResetHasRoom
<1> DEFINE Inv == refusal.admitted \subseteq admitted /\ ResetHasRoom
<1>1. LimiterInit => Inv
  BY DEF LimiterInit, ResetHasRoom
<1>2. LimiterTypeOK /\ LimiterInv /\ Inv /\ [LimiterNext]_limiterVars => Inv'
  BY ResetStep
<1>3. Inv => ResetHasRoom
  OBVIOUS
<1> HIDE DEF Inv
<1> QED
  BY <1>1, <1>2, <1>3, LimiterTypeCorrect, PTL DEF LimiterSpec

(***************************************************************************)
(* ConsoleForms                                                            *)
(***************************************************************************)

\* The forms are among the forms, and the two facts about their traits that the
\* proofs need: a success is told only by those that look at the status, and what is
\* sent at once is not in a form that shuts.
LEMMA KindsAreForms ==
  /\ Kinds \subseteq Form
  /\ \A k \in Kinds : (k.says => k.judges) /\ (k.instant => ~k.shuts)
<1> DEFINE Good(k) == k \in Form /\ (k.says => k.judges) /\ (k.instant => ~k.shuts)
<1>1. Good(Company) /\ Good(AppConfig) /\ Good(Preferences) /\ Good(Sso) /\ Good(SessionPolicy)
  BY DEF Form, Plain, Defaulted, Company, AppConfig, Preferences, Sso, SessionPolicy
<1>2. Good(Colors) /\ Good(Logos) /\ Good(LoginPage) /\ Good(EmailLook) /\ Good(PlanLimits)
  BY DEF Form, Plain, Defaulted, BrandingTab, Colors, Logos, LoginPage, EmailLook, PlanLimits
<1>3. Good(StripeSetup) /\ Good(RolePermissions) /\ Good(StatusButton) /\ Good(DeleteButton)
  BY DEF Form, Plain, StripeSetup, RolePermissions, StatusButton, DeleteButton
<1>4. Good(Avatar) /\ Good(DisplayName) /\ Good(InstanceRow) /\ Good(ScimPanel) /\ Good(ChangeRoleDialog)
  BY DEF Form, Plain, Avatar, DisplayName, InstanceRow, ScimPanel, ChangeRoleDialog
<1> HIDE DEF Good
<1>5. \A k \in Kinds : Good(k)
  BY <1>1, <1>2, <1>3, <1>4 DEF Kinds
<1> QED BY <1>5 DEF Good

\* A form that is mounted is of the type.
LEMMA MountedType ==
  ASSUME kind \in Form, NEW r \in Rows PROVE Mounted(r) \in View
<1>1. \A f \in Inputs : Taken(kind, f, r[f]) \in Contents
  BY FormAssumption DEF Taken, Rows, Contents
<1>2. [f \in Inputs |-> Taken(kind, f, r[f])] \in Rows /\ Start \in Rows
  BY <1>1 DEF Rows, Start, Contents
<1>3. (IF kind.fromRow THEN [f \in Inputs |-> Taken(kind, f, r[f])] ELSE Start) \in Rows
  BY <1>2
<1> QED BY <1>3 DEF Mounted, View, Form

\* The first state is of its type.
LEMMA FormInitTypeOK == FormInit => FormTypeOK
<1> SUFFICES ASSUME FormInit PROVE FormTypeOK
  OBVIOUS
<1>0. Special \in Contents /\ 1 \in Contents
  BY FormAssumption DEF Special, Contents
<1>1. stored \in Rows /\ Start \in Rows
  BY <1>0 DEF FormInit, Rows, Start, Contents
<1>2. Mounted(stored) \in View /\ Unmoved \in Note
  BY <1>1, MountedType, KindsAreForms DEF FormInit, Unmoved, Note
<1> QED BY <1>1, <1>2, FormAssumption DEF FormInit, FormTypeOK, FormCall, Contents

\* A page, or its history, is replaced as a whole.
LEMMA RendersType ==
  ASSUME FormTypeOK, NEW p \in Views, NEW v \in View, Renders(p, v)
  PROVE view' \in [Views -> View] /\ view'[p] = v /\ \A q \in Views \ {p} : view'[q] = view[q]
BY DEF FormTypeOK, Renders

\* So is a page's history when it is replaced.
LEMMA NotesType ==
  ASSUME FormTypeOK, NEW p \in Views, NEW k \in Note, Notes(p, k)
  PROVE note' \in [Views -> Note] /\ note'[p] = k /\ \A q \in Views \ {p} : note'[q] = note[q]
BY DEF FormTypeOK, Notes

\* A call that is sent keeps the type.
LEMMA SendType ==
  ASSUME FormTypeOK, NEW p \in Views, NEW part \in SUBSET Inputs, NEW ins \in Rows,
         NEW tch \in SUBSET Inputs, Send(p, part, ins, tch), edits' \in 0..MaxEdits
  PROVE FormTypeOK' /\ callCount' \in Sends /\ SentOf(part, ins) \subseteq part
<1> USE FormAssumption
<1>1. callCount' \in Sends /\ callCount' \in 0..MaxSends
  BY DEF Send, FormTypeOK, Sends
<1>2. SentOf(part, ins) \subseteq part
  BY DEF SentOf
<1> DEFINE v == [view[p] EXCEPT !.inputs = ins, !.touched = tch, !.said = "nothing",
                              !.about = SentOf(part, ins), !.dirty = @ \ part, !.own = @ \cup {callCount'}]
           k == [note[p] EXCEPT !.undone = {}, !.overlapped = Awaited(p) # {}, !.unsure = FALSE,
                              !.before = stored]
<1>3. view[p] \in View /\ note[p] \in Note /\ stored \in Rows
  BY DEF FormTypeOK
<1>4. v \in View
  BY <1>1, <1>2, <1>3 DEF View
<1>5. k \in Note
  BY <1>3 DEF Note
<1>6. view' \in [Views -> View] /\ note' \in [Views -> Note]
  BY <1>4, <1>5, RendersType, NotesType DEF Send
<1>7. call' \in [Sends -> FormCall]
  <2>1. [by |-> p, of |-> SentOf(part, ins), to |-> ins, was |-> view[p].inputs, stage |-> "sent",
         touched |-> tch, moved |-> note[p].moved] \in FormCall
    BY <1>2, <1>3 DEF FormCall, View, Note
  <2> QED BY <1>1, <2>1 DEF Send, FormTypeOK
<1> QED BY <1>1, <1>2, <1>6, <1>7 DEF Send, FormTypeOK

\* What a call that is sent changes.
SendShown(p, part, ins, tch) ==
  /\ view'[p].said = "nothing" /\ view'[p].inputs = ins /\ view'[p].touched = tch
  /\ view'[p].about = SentOf(part, ins) /\ view'[p].dirty = view[p].dirty \ part
  /\ view'[p].own = view[p].own \cup {callCount'}
  /\ view'[p].asks = view[p].asks /\ view'[p].shown = view[p].shown
  /\ note'[p].undone = {} /\ note'[p].overlapped = (Awaited(p) # {}) /\ note'[p].before = stored
  /\ note'[p].moved = note[p].moved /\ note'[p].behind = note[p].behind
  /\ note'[p].crossed = note[p].crossed
  /\ \A q \in Views \ {p} : view'[q] = view[q] /\ note'[q] = note[q]
  /\ call'[callCount'] = [by |-> p, of |-> SentOf(part, ins), to |-> ins, was |-> view[p].inputs,
                     stage |-> "sent", touched |-> tch, moved |-> note[p].moved]
  /\ \A n \in Sends \ {callCount'} : call'[n] = call[n]

\* What sending changes, of the page and of the calls.
LEMMA SendShows ==
  ASSUME FormTypeOK, NEW p \in Views, NEW part, NEW ins, NEW tch, Send(p, part, ins, tch), callCount' \in Sends
  PROVE SendShown(p, part, ins, tch)
<1>1. view[p] \in View /\ note[p] \in Note
  BY DEF FormTypeOK
<1> DEFINE v == [view[p] EXCEPT !.inputs = ins, !.touched = tch, !.said = "nothing",
                              !.about = SentOf(part, ins), !.dirty = @ \ part, !.own = @ \cup {callCount'}]
           over == Awaited(p) # {}
           k == [note[p] EXCEPT !.undone = {}, !.overlapped = over, !.unsure = FALSE, !.before = stored]
<1>2. view' = [view EXCEPT ![p] = v] /\ note' = [note EXCEPT ![p] = k]
  BY DEF Send, Renders, Notes
<1>3. view'[p] = v /\ note'[p] = k /\ \A q \in Views \ {p} : view'[q] = view[q] /\ note'[q] = note[q]
  BY <1>2 DEF FormTypeOK
<1>4. v.said = "nothing" /\ v.inputs = ins /\ v.touched = tch /\ v.about = SentOf(part, ins)
      /\ v.dirty = view[p].dirty \ part /\ v.own = view[p].own \cup {callCount'} /\ v.asks = view[p].asks
      /\ v.shown = view[p].shown
  BY <1>1 DEF View
<1> HIDE DEF over
<1>5. k.undone = {} /\ k.overlapped = over /\ k.before = stored /\ k.moved = note[p].moved
      /\ k.behind = note[p].behind /\ k.crossed = note[p].crossed
  BY <1>1 DEF Note
<1>6. /\ call'[callCount'] = [by |-> p, of |-> SentOf(part, ins), to |-> ins, was |-> view[p].inputs,
                         stage |-> "sent", touched |-> tch, moved |-> note[p].moved]
      /\ \A n \in Sends \ {callCount'} : call'[n] = call[n]
  BY DEF Send, FormTypeOK
<1> HIDE DEF v, k
<1> QED BY <1>3, <1>4, <1>5, <1>6 DEF over, SendShown

\* A button sends inputs of the type ...
LEMMA SaveSends ==
  ASSUME FormTypeOK, NEW p \in Views, NEW part \in Parts, SaveInputs(p, part)
  PROVE part \in SUBSET Inputs /\ view[p].inputs \in Rows /\ view[p].touched \in SUBSET Inputs
        /\ Send(p, part, view[p].inputs, view[p].touched) /\ edits' \in 0..MaxEdits
BY FormAssumption DEF SaveInputs, Parts, FormTypeOK, View

\* ... and so does a choice.
LEMMA ChooseSends ==
  ASSUME FormTypeOK, NEW p \in Views, NEW f \in Inputs, Choose(p, f)
  PROVE [view[p].inputs EXCEPT ![f] = edits'] \in Rows /\ view[p].touched \cup {f} \in SUBSET Inputs
        /\ Send(p, {f}, [view[p].inputs EXCEPT ![f] = edits'], view[p].touched \cup {f})
        /\ edits' \in 0..MaxEdits
<1>1. edits' \in 0..MaxEdits /\ edits' \in Contents /\ view[p].inputs \in Rows /\ view[p].touched \subseteq Inputs
  BY FormAssumption DEF Choose, FormTypeOK, Contents, View
<1> QED BY <1>1 DEF Choose, Rows

\* A write keeps the type.
LEMMA WriteType ==
  ASSUME FormTypeOK, NEW n \in Sends, NEW new \in Rows, Write(n, new)
  PROVE FormTypeOK'
<1>1. Altered(new) \subseteq Inputs
  BY DEF Altered
<1>2. call' \in [Sends -> FormCall]
  <2>1. \A m \in Sends : [call[m] EXCEPT !.moved = @ \cup Altered(new),
                                         !.stage = IF m = n THEN "done" ELSE @] \in FormCall
    BY <1>1 DEF FormTypeOK, FormCall
  <2> QED BY <2>1 DEF Write
<1>3. note' \in [Views -> Note]
  <2>1. \A p \in Views : [note[p] EXCEPT
       !.moved = @ \cup Altered(new), !.behind = @ \cup Altered(new),
       !.crossed = IF n \in Waits(p) THEN @ ELSE @ \cup Altered(new),
       !.undone = IF n \in Awaited(p) THEN @ ELSE @ \cup Altered(new)] \in Note
    BY <1>1 DEF FormTypeOK, Note
  <2> QED BY <2>1 DEF Write
<1> QED BY <1>2, <1>3 DEF Write, FormTypeOK

\* What a write changes.
Written(n, new) ==
  /\ \A m \in Sends :
       /\ call'[m].stage = IF m = n THEN "done" ELSE call[m].stage
       /\ call'[m].moved = call[m].moved \cup Altered(new)
       /\ call'[m].by = call[m].by /\ call'[m].of = call[m].of /\ call'[m].to = call[m].to
       /\ call'[m].was = call[m].was /\ call'[m].touched = call[m].touched
  /\ \A p \in Views :
       /\ note'[p].moved = note[p].moved \cup Altered(new)
       /\ note'[p].behind = note[p].behind \cup Altered(new)
       /\ note'[p].undone = IF n \in Awaited(p) THEN note[p].undone
                           ELSE note[p].undone \cup Altered(new)
       /\ note'[p].overlapped = note[p].overlapped /\ note'[p].unsure = note[p].unsure
       /\ note'[p].before = note[p].before
       /\ Waits(p)' = Waits(p) /\ Awaited(p)' = Awaited(p)
  /\ stored' = new /\ view' = view /\ kind' = kind

\* A write changes what Written says.
LEMMA WriteNotes ==
  ASSUME FormTypeOK, NEW n \in Sends, NEW new \in Rows, Write(n, new)
  PROVE Written(n, new)
<1>1. \A m \in Sends : call[m] \in FormCall
  BY DEF FormTypeOK
<1>2. \A m \in Sends : call'[m] = [call[m] EXCEPT !.moved = @ \cup Altered(new),
                                              !.stage = IF m = n THEN "done" ELSE @]
  BY DEF Write
<1>3. ASSUME NEW m \in Sends
      PROVE /\ call'[m].stage = IF m = n THEN "done" ELSE call[m].stage
            /\ call'[m].moved = call[m].moved \cup Altered(new)
            /\ call'[m].by = call[m].by /\ call'[m].of = call[m].of /\ call'[m].to = call[m].to
            /\ call'[m].was = call[m].was /\ call'[m].touched = call[m].touched
  <2> DEFINE stage == IF m = n THEN "done" ELSE call[m].stage
             more == call[m].moved \cup Altered(new)
  <2>1. call'[m] = [call[m] EXCEPT !.moved = more, !.stage = stage]
    BY <1>2
  <2> HIDE DEF stage, more
  <2>2. call'[m].stage = stage /\ call'[m].moved = more
        /\ call'[m].by = call[m].by /\ call'[m].of = call[m].of /\ call'[m].to = call[m].to
        /\ call'[m].was = call[m].was /\ call'[m].touched = call[m].touched
    BY <1>1, <2>1 DEF FormCall
  <2> QED BY <2>2 DEF stage, more
<1>4. \A p \in Views : note[p] \in Note
  BY DEF FormTypeOK
<1>5. \A p \in Views : note'[p] = [note[p] EXCEPT
       !.moved = @ \cup Altered(new), !.behind = @ \cup Altered(new),
       !.crossed = IF n \in Waits(p) THEN @ ELSE @ \cup Altered(new),
       !.undone = IF n \in Awaited(p) THEN @ ELSE @ \cup Altered(new)]
  BY DEF Write
<1>6. \A p \in Views :
        /\ note'[p].moved = note[p].moved \cup Altered(new)
        /\ note'[p].behind = note[p].behind \cup Altered(new)
        /\ note'[p].undone = IF n \in Awaited(p) THEN note[p].undone
                            ELSE note[p].undone \cup Altered(new)
        /\ note'[p].overlapped = note[p].overlapped /\ note'[p].unsure = note[p].unsure
        /\ note'[p].before = note[p].before
  BY <1>4, <1>5 DEF Note
<1>7. stored' = new /\ view' = view /\ kind' = kind
  BY DEF Write
<1>8. \A p \in Views : Waits(p)' = Waits(p) /\ Awaited(p)' = Awaited(p)
  BY <1>3, <1>7 DEF Waits, Awaited
<1> QED BY <1>3, <1>6, <1>7, <1>8 DEF Written

\* What a save writes is a row.
LEMMA CommitWrites ==
  ASSUME FormTypeOK, NEW n \in Sends, Commit(n)
  PROVE [f \in Inputs |-> IF kind.kept /\ f \in call[n].of THEN call[n].to[f] ELSE stored[f]] \in Rows
<1>1. stored \in Rows /\ call[n].to \in Rows
  BY DEF FormTypeOK, FormCall
<1> QED BY <1>1 DEF Rows

\* An answer keeps the type of the calls.
LEMMA HearsType ==
  ASSUME FormTypeOK, NEW n \in Sends, HearsNoMore(n)
  PROVE /\ call' \in [Sends -> FormCall] /\ call'[n] = [call[n] EXCEPT !.by = NoPage]
        /\ \A m \in Sends \ {n} : call'[m] = call[m]
<1>1. [call[n] EXCEPT !.by = NoPage] \in FormCall
  BY DEF FormTypeOK, FormCall
<1>2. call' = [call EXCEPT ![n] = [call[n] EXCEPT !.by = NoPage]]
  BY DEF HearsNoMore
<1> QED BY <1>1, <1>2 DEF FormTypeOK

\* A success that is told keeps the type ...
LEMMA SuccessType ==
  ASSUME FormTypeOK, kind \in Form, NEW p \in Views, NEW n \in Sends, TellSuccess(p, n)
  PROVE view' \in [Views -> View]
<1>1. [view[p] EXCEPT !.said = IF kind.says /\ n \in view[p].own THEN "saved" ELSE @,
                      !.open = @ /\ ~kind.shuts, !.asks = @ \/ kind.refreshes] \in View
  <2>1. view[p] \in View
    BY DEF FormTypeOK
  <2> DEFINE said == IF kind.says /\ n \in view[p].own THEN "saved" ELSE view[p].said
             open == view[p].open /\ ~kind.shuts
             asks == view[p].asks \/ kind.refreshes
  <2>2. said \in {"nothing", "saved", "failed"} /\ open \in BOOLEAN /\ asks \in BOOLEAN
    BY <2>1 DEF View
  <2> HIDE DEF said, open, asks
  <2>3. [view[p] EXCEPT !.said = said, !.open = open, !.asks = asks] \in View
    BY <2>1, <2>2 DEF View
  <2> QED BY <2>3 DEF said, open, asks
<1> QED BY <1>1, RendersType DEF TellSuccess

\* ... and so does a failure.
LEMMA FailureType ==
  ASSUME FormTypeOK, NEW p \in Views, NEW n \in Sends, TellFailure(p, n) PROVE view' \in [Views -> View]
<1>1. Fallback(p, n) \in Rows
  <2>1. call[n].was \in Rows /\ view[p].inputs \in Rows
    BY DEF FormTypeOK, FormCall, View
  <2> QED BY <2>1 DEF Fallback, Rows
<1>2. [view[p] EXCEPT !.said = "failed", !.asks = @ \/ kind.anyway,
                      !.inputs = IF kind.instant THEN Fallback(p, n) ELSE @] \in View
  BY <1>1 DEF FormTypeOK, View
<1>3. view[p] \in View
  BY DEF FormTypeOK
<1> QED BY <1>2, <1>3, RendersType DEF TellFailure

\* An answer changes only who waits.
LEMMA HearsSame ==
  ASSUME FormTypeOK, NEW n \in Sends, HearsNoMore(n)
  PROVE /\ \A m \in Sends : call'[m].stage = call[m].stage /\ (m # n => call'[m] = call[m])
        /\ call'[n].by = NoPage
        /\ \A p \in Views : Waits(p)' = Waits(p) \ {n}
<1>1. call[n] \in FormCall
  BY DEF FormTypeOK
<1>2. call'[n].by = NoPage /\ call'[n].stage = call[n].stage
  BY <1>1, HearsType DEF FormCall
<1>3. \A m \in Sends \ {n} : call'[m] = call[m]
  BY HearsType
<1> QED BY <1>2, <1>3, FormAssumption DEF Waits

\* What a success changes of the page.
LEMMA SuccessShown ==
  ASSUME FormTypeOK, kind \in Form, NEW p \in Views, NEW n \in Sends, TellSuccess(p, n)
  PROVE /\ view'[p].said = IF kind.says /\ n \in view[p].own THEN "saved" ELSE view[p].said
        /\ view'[p].asks = (view[p].asks \/ kind.refreshes)
        /\ view'[p].inputs = view[p].inputs /\ view'[p].shown = view[p].shown
        /\ view'[p].about = view[p].about /\ view'[p].touched = view[p].touched
        /\ view'[p].dirty = view[p].dirty /\ view'[p].own = view[p].own
        /\ \A q \in Views \ {p} : view'[q] = view[q]
<1> DEFINE said == IF kind.says /\ n \in view[p].own THEN "saved" ELSE view[p].said
           open == view[p].open /\ ~kind.shuts
           asks == view[p].asks \/ kind.refreshes
           v == [view[p] EXCEPT !.said = said, !.open = open, !.asks = asks]
<1>1. view[p] \in View
  BY DEF FormTypeOK
<1>2. view' = [view EXCEPT ![p] = v]
  BY DEF TellSuccess, Renders
<1>3. view'[p] = v /\ \A q \in Views \ {p} : view'[q] = view[q]
  BY <1>2 DEF FormTypeOK
<1> HIDE DEF said, open, asks
<1>4. v.said = said /\ v.asks = asks /\ v.inputs = view[p].inputs /\ v.shown = view[p].shown
      /\ v.about = view[p].about /\ v.touched = view[p].touched /\ v.dirty = view[p].dirty
      /\ v.own = view[p].own
  BY <1>1 DEF View
<1> QED BY <1>3, <1>4 DEF said, asks

\* What a failure changes of the page.
LEMMA FailureShown ==
  ASSUME FormTypeOK, NEW p \in Views, NEW n \in Sends, TellFailure(p, n)
  PROVE /\ view'[p].said = IF n \in view[p].own THEN "failed" ELSE view[p].said
        /\ view'[p].inputs = IF n \in view[p].own /\ kind.instant THEN Fallback(p, n) ELSE view[p].inputs
        /\ (view[p].asks => view'[p].asks) /\ view'[p].shown = view[p].shown
        /\ view'[p].about = view[p].about /\ view'[p].touched = view[p].touched
        /\ view'[p].dirty = view[p].dirty /\ view'[p].own = view[p].own
        /\ \A q \in Views \ {p} : view'[q] = view[q]
<1>1. view[p] \in View
  BY DEF FormTypeOK
<1> DEFINE ins == IF kind.instant THEN Fallback(p, n) ELSE view[p].inputs
           v == [view[p] EXCEPT !.said = "failed", !.asks = @ \/ kind.anyway, !.inputs = ins]
<1>2. view' = [view EXCEPT ![p] = IF n \in view[p].own THEN v ELSE view[p]]
  BY DEF TellFailure, Renders
<1>3. view'[p] = (IF n \in view[p].own THEN v ELSE view[p]) /\ \A q \in Views \ {p} : view'[q] = view[q]
  BY <1>2 DEF FormTypeOK
<1> HIDE DEF ins
<1>4. v.said = "failed" /\ (view[p].asks => v.asks) /\ v.inputs = ins /\ v.shown = view[p].shown
      /\ v.about = view[p].about /\ v.touched = view[p].touched /\ v.dirty = view[p].dirty
      /\ v.own = view[p].own
  BY <1>1 DEF View
<1> HIDE DEF v
<1>5. CASE n \in view[p].own
  BY <1>3, <1>4, <1>5 DEF ins
<1>6. CASE n \notin view[p].own
  BY <1>3, <1>6
<1> QED BY <1>5, <1>6

\* What a page that cannot know notes.
LEMMA UnsureNotes ==
  ASSUME FormTypeOK, NEW p \in Views, Unsure(p)
  PROVE /\ note'[p].unsure = TRUE /\ note'[p].crossed = note[p].crossed \cup note[p].behind
        /\ note'[p].moved = note[p].moved /\ note'[p].behind = note[p].behind
        /\ note'[p].undone = note[p].undone /\ note'[p].overlapped = note[p].overlapped
        /\ note'[p].before = note[p].before
        /\ \A q \in Views \ {p} : note'[q] = note[q]
BY DEF FormTypeOK, Note, Unsure, Notes

\* It keeps the type.
LEMMA UnsureType ==
  ASSUME FormTypeOK, NEW p \in Views, Unsure(p) PROVE note' \in [Views -> Note]
<1>1. [note[p] EXCEPT !.unsure = TRUE, !.crossed = @ \cup note[p].behind] \in Note
  BY DEF FormTypeOK, Note
<1> QED BY <1>1, NotesType DEF Unsure

\* Every step keeps the type.
LEMMA FormNextTypeOK == FormTypeOK /\ [FormNext]_formVars => FormTypeOK'
<1> SUFFICES ASSUME FormTypeOK, [FormNext]_formVars PROVE FormTypeOK'
  OBVIOUS
<1> USE FormAssumption
<1>k. kind \in Form
  BY KindsAreForms DEF FormTypeOK
<1>n. Unmoved \in Note /\ stored \in Rows
  BY DEF FormTypeOK, Unmoved, Note, Rows, Start, Contents
<1>u. CASE UNCHANGED formVars
  BY <1>u DEF formVars, FormTypeOK
<1>l. ASSUME NEW p \in Views, Load(p) PROVE FormTypeOK'
  <2>1. view' \in [Views -> View] /\ note' \in [Views -> Note]
    BY <1>l, <1>k, <1>n, MountedType, RendersType, NotesType DEF Load
  <2>2. call' \in [Sends -> FormCall]
    <3>1. \A n \in Sends : [call[n] EXCEPT !.by = NoPage] \in FormCall /\ call[n] \in FormCall
      BY DEF FormTypeOK, FormCall
    <3> QED BY <1>l, <3>1 DEF Load
  <2> QED BY <1>l, <2>1, <2>2 DEF Load, FormTypeOK
<1>e. ASSUME NEW p \in Views, NEW f \in Inputs, EditInput(p, f) PROVE FormTypeOK'
  <2>0. PICK w \in {edits', 0} :
          Renders(p, [view[p] EXCEPT !.inputs[f] = w, !.touched = @ \cup {f}, !.dirty = @ \cup {f}])
    BY <1>e DEF EditInput
  <2>1. edits' \in 0..MaxEdits /\ w \in Contents /\ view[p].inputs \in Rows
    BY <1>e, <2>0 DEF EditInput, FormTypeOK, Contents, View
  <2>2. [view[p].inputs EXCEPT ![f] = w] \in Rows
    BY <2>1 DEF Rows
  <2>3. [view[p] EXCEPT !.inputs[f] = w, !.touched = @ \cup {f}, !.dirty = @ \cup {f}] \in View
    BY <2>2 DEF FormTypeOK, View
  <2>4. view' \in [Views -> View]
    BY <2>0, <2>3, RendersType
  <2> QED BY <1>e, <2>1, <2>4 DEF EditInput, FormTypeOK
<1>v. ASSUME NEW p \in Views, NEW part \in Parts, SaveInputs(p, part) PROVE FormTypeOK'
  BY <1>v, SaveSends, SendType
<1>h. ASSUME NEW p \in Views, NEW f \in Inputs, Choose(p, f) PROVE FormTypeOK'
  BY <1>h, ChooseSends, SendType
<1>m. ASSUME NEW n \in Sends, Commit(n) PROVE FormTypeOK'
  BY <1>m, CommitWrites, WriteType DEF Commit
<1>r. ASSUME NEW n \in Sends, TurnDown(n) PROVE FormTypeOK'
  <2>1. call' \in [Sends -> FormCall]
    BY <1>r DEF TurnDown, FormTypeOK, FormCall
  <2> QED BY <1>r, <2>1 DEF TurnDown, FormTypeOK
<1>a. ASSUME NEW p \in Views, NEW n \in Waits(p), Answer(p, n) PROVE FormTypeOK'
  <2>1. n \in Sends
    BY DEF Waits
  <2>2. view' \in [Views -> View]
    BY <1>a, <1>k, <2>1, SuccessType, FailureType DEF Answer
  <2>3. note' \in [Views -> Note]
    BY <1>a, UnsureType DEF Answer, FormTypeOK
  <2> QED BY <1>a, HearsType, <2>1, <2>2, <2>3 DEF Answer, FormTypeOK
<1>b. ASSUME NEW p \in Views, NEW n \in Waits(p), LoseAnswer(p, n) PROVE FormTypeOK'
  <2>1. n \in Sends /\ view[p].shown \in Rows /\ note[p] \in Note
    BY DEF Waits, FormTypeOK, View
  <2>2. Mounted(view[p].shown) \in View
    BY <1>k, <2>1, MountedType
  <2>3. [Retaken(p) EXCEPT !.crossed = @ \cup note[p].behind] \in Note
    BY <2>1 DEF Retaken, Note
  <2>4. view' \in [Views -> View]
    BY <1>b, <2>1, <2>2, FailureType, RendersType DEF LoseAnswer, FormTypeOK
  <2>5. note' \in [Views -> Note]
    BY <1>b, <2>3, UnsureType, NotesType DEF LoseAnswer
  <2> QED BY <1>b, HearsType, <2>1, <2>4, <2>5 DEF LoseAnswer, FormTypeOK
<1>f. ASSUME NEW p \in Views, Refresh(p) PROVE FormTypeOK'
  <2>1. [view[p] EXCEPT !.shown = stored, !.asks = FALSE] \in View
    BY <1>n DEF FormTypeOK, View
  <2>2. [note[p] EXCEPT !.behind = {}, !.crossed = {}] \in Note
    BY DEF FormTypeOK, Note
  <2>3. view' \in [Views -> View] /\ note' \in [Views -> Note]
    BY <1>f, <2>1, <2>2, RendersType, NotesType DEF Refresh
  <2> QED BY <1>f, <2>3 DEF Refresh, FormTypeOK
<1>t. ASSUME NEW p \in Views, NEW open \in BOOLEAN, Retake(p, open) PROVE FormTypeOK'
  <2>1. view[p] \in View /\ note[p] \in Note
    BY DEF FormTypeOK
  <2>2. Mounted(view[p].shown) \in View
    BY <1>k, <2>1, MountedType DEF View
  <2>3. [Mounted(view[p].shown) EXCEPT !.open = open, !.asks = view[p].asks,
                                       !.own = IF kind.retakes THEN {} ELSE view[p].own] \in View
    BY <2>1, <2>2 DEF View
  <2>4. Retaken(p) \in Note
    BY <2>1 DEF Retaken, Note
  <2>5. view' \in [Views -> View] /\ note' \in [Views -> Note]
    BY <1>t, <2>3, <2>4, RendersType, NotesType DEF Retake
  <2> QED BY <1>t, <2>5 DEF Retake, FormTypeOK
<1>p. ASSUME NEW p \in Views, Reopen(p) PROVE FormTypeOK'
  <2>1. CASE ~kind.retakes
    <3>1. [view[p] EXCEPT !.open = TRUE] \in View
      BY DEF FormTypeOK, View
    <3>2. view' \in [Views -> View]
      BY <1>p, <2>1, <3>1, RendersType DEF Reopen
    <3> QED BY <1>p, <2>1, <3>2 DEF Reopen, FormTypeOK
  <2> QED BY <1>p, <1>t, <2>1 DEF Reopen
<1> QED BY <1>u, <1>l, <1>e, <1>v, <1>h, <1>m, <1>r, <1>a, <1>b, <1>f, <1>t, <1>p
     DEF FormNext, CancelForm

\* For any number of pages, inputs and calls the forms' state is of its type
\* (settings-form.tsx and the other forms).
THEOREM FormTypeCorrect == FormSpec => []FormTypeOK
BY FormInitTypeOK, FormNextTypeOK, PTL DEF FormSpec

-------------------------------------------------------------------------------

\* A call that was not sent yet is nobody's.
SendsKnow ==
  \A n \in Sends : n > callCount => call[n].by = NoPage /\ call[n].stage = "none"
                               /\ \A p \in Views : n \notin view[p].own

\* A call that was not sent yet is nobody's and of no page, and has no stage
\* (calls are numbered as they are sent).
LEMMA SendsKept ==
  ASSUME FormTypeOK, SendsKnow, [FormNext]_formVars PROVE SendsKnow'
<1> USE FormAssumption DEF Renders
<1>1. callCount \in Nat /\ Sends \subseteq Nat /\ view \in [Views -> View] /\ call \in [Sends -> FormCall]
  BY DEF FormTypeOK, Sends
<1>u. CASE UNCHANGED formVars
  BY <1>u DEF formVars, SendsKnow
<1>l. ASSUME NEW p \in Views, Load(p) PROVE SendsKnow'
  BY <1>l, <1>1 DEF Load, SendsKnow, Mounted, FormCall
<1>e. ASSUME NEW p \in Views, NEW f \in Inputs, EditInput(p, f) PROVE SendsKnow'
  BY <1>e, <1>1 DEF EditInput, SendsKnow, View
<1>s. ASSUME NEW p \in Views, NEW part, NEW ins, NEW tch, Send(p, part, ins, tch) PROVE SendsKnow'
  <2>1. callCount' = callCount + 1 /\ \A n \in Sends : n > callCount' => n > callCount /\ n # callCount'
    BY <1>s, <1>1 DEF Send
  <2>2. \A n \in Sends \ {callCount'} : call'[n] = call[n]
    BY <1>s, <1>1 DEF Send
  <2>3. \A q \in Views : view'[q].own \subseteq view[q].own \cup {callCount'}
    BY <1>s, <1>1 DEF Send, View
  <2> QED BY <2>1, <2>2, <2>3 DEF SendsKnow
<1>w. ASSUME NEW n \in Sends, NEW new, call[n].stage # "none", Write(n, new)
      PROVE SendsKnow'
  BY <1>w, <1>1 DEF Write, SendsKnow, FormCall
<1>c. ASSUME NEW n \in Sends, Commit(n) PROVE SendsKnow'
  BY <1>c, <1>w DEF Commit
<1>r. ASSUME NEW n \in Sends, TurnDown(n) PROVE SendsKnow'
  BY <1>r, <1>1 DEF TurnDown, SendsKnow, FormCall
<1>x. ASSUME NEW p \in Views, NEW n \in Sends, HearsNoMore(n), callCount' = callCount,
             \A q \in Views : view'[q].own \subseteq view[q].own
      PROVE SendsKnow'
  BY <1>x, HearsSame DEF SendsKnow
<1>y. ASSUME NEW p \in Views, NEW n \in Sends, TellSuccess(p, n) \/ TellFailure(p, n)
      PROVE \A q \in Views : view'[q].own \subseteq view[q].own
  <2>1. kind \in Form
    BY KindsAreForms DEF FormTypeOK
  <2> QED BY <1>y, <2>1, SuccessShown, FailureShown
<1>a. ASSUME NEW p \in Views, NEW n \in Waits(p), Answer(p, n) PROVE SendsKnow'
  BY <1>a, <1>x, <1>y DEF Answer, Waits
<1>b. ASSUME NEW p \in Views, NEW n \in Waits(p), LoseAnswer(p, n) PROVE SendsKnow'
  <2>1. \A q \in Views : view'[q].own \subseteq view[q].own
    BY <1>b, <1>1, <1>y DEF LoseAnswer, Waits, Mounted
  <2> QED BY <1>b, <1>x, <2>1 DEF LoseAnswer, Waits
<1>f. ASSUME NEW p \in Views, Refresh(p) PROVE SendsKnow'
  BY <1>f, <1>1 DEF Refresh, SendsKnow, View
<1>t. ASSUME NEW p \in Views, NEW open \in BOOLEAN, Retake(p, open) PROVE SendsKnow'
  BY <1>t, <1>1 DEF Retake, SendsKnow, Mounted
<1>p. ASSUME NEW p \in Views, Reopen(p) PROVE SendsKnow'
  <2>1. CASE kind.retakes
    BY <1>p, <1>t, <2>1 DEF Reopen
  <2>2. CASE ~kind.retakes
    BY <1>p, <1>1, <2>2 DEF Reopen, SendsKnow, View
  <2> QED BY <2>1, <2>2
<1>v. ASSUME NEW p \in Views, NEW part, SaveInputs(p, part) PROVE SendsKnow'
  BY <1>v, <1>s DEF SaveInputs
<1>h. ASSUME NEW p \in Views, NEW f, Choose(p, f) PROVE SendsKnow'
  BY <1>h, <1>s DEF Choose
<1> QED BY <1>u, <1>l, <1>e, <1>v, <1>h, <1>c, <1>r, <1>a, <1>b, <1>f, <1>t, <1>p
     DEF FormNext, CancelForm

\* What a page does not show of the row was written since the page read it, by
\* a call that it waits for, or it has asked for the row; or it is crossed.
ShownKnows ==
  \A p \in Views : \A f \in Inputs :
    /\ view[p].shown[f] = stored[f] \/ f \in note[p].behind
    /\ kind.refreshes /\ f \in note[p].behind =>
         \/ f \in note[p].crossed \/ view[p].asks
         \/ \E n \in Waits(p) : call[n].stage \in {"done", "half"}

\* What a page shows lags behind only by what is noted, or is asked for.
LEMMA ShownKept ==
  ASSUME FormTypeOK, SendsKnow, ShownKnows, [FormNext]_formVars PROVE ShownKnows'
<1> USE FormAssumption DEF Renders, Notes
<1>0. FormTypeOK' /\ kind \in Form
  BY FormNextTypeOK, KindsAreForms DEF FormTypeOK
<1>1. view \in [Views -> View] /\ call \in [Sends -> FormCall] /\ note \in [Views -> Note]
  BY DEF FormTypeOK
<1>u. CASE UNCHANGED formVars
  BY <1>u DEF formVars, ShownKnows, Waits
<1>l. ASSUME NEW p \in Views, Load(p) PROVE ShownKnows'
  <2>1. ASSUME NEW q \in Views, q # p PROVE Waits(q)' = Waits(q) /\ \A n \in Waits(q) : call'[n] = call[n]
    BY <1>l, <2>1 DEF Load, Waits, FormTypeOK, FormCall
  <2>2. view'[p].shown = stored /\ stored' = stored /\ kind' = kind
    <3>1. view'[p] = Mounted(stored) /\ Mounted(stored).shown = stored
      BY <1>l, <1>1 DEF Load, Renders, Mounted
    <3> QED BY <1>l, <3>1 DEF Load
  <2> QED BY <1>l, <2>1, <2>2 DEF Load, FormTypeOK, ShownKnows, Unmoved
<1>x. ASSUME NEW p \in Views, view'[p].shown = view[p].shown, view'[p].asks = view[p].asks,
             note'[p].behind = note[p].behind, note'[p].crossed = note[p].crossed,
             \A q \in Views \ {p} : view'[q] = view[q] /\ note'[q] = note[q],
             \A n \in Sends : /\ call[n].by # NoPage => call'[n].by = call[n].by
                              /\ call[n].stage \in {"done", "half"} =>
                                   call'[n].stage \in {"done", "half"},
             stored' = stored, kind' = kind
      PROVE ShownKnows'
  BY <1>x DEF ShownKnows, Waits
<1>e. ASSUME NEW p \in Views, NEW f \in Inputs, EditInput(p, f) PROVE ShownKnows'
  BY <1>e, <1>x DEF EditInput, FormTypeOK, View
<1>s. ASSUME NEW p \in Views, NEW part \in SUBSET Inputs, NEW ins, NEW tch, callCount' \in Sends,
             Send(p, part, ins, tch)
      PROVE ShownKnows'
  <2>1. call[callCount'].by = NoPage /\ call[callCount'].stage = "none"
    BY <1>s DEF Send, SendsKnow, FormTypeOK
  <2>2. \A n \in Sends : /\ call[n].by # NoPage => call'[n].by = call[n].by
                         /\ call[n].stage \in {"done", "half"} =>
                              call'[n].stage \in {"done", "half"}
    BY <1>s, <1>1, <2>1 DEF Send
  <2>3. stored' = stored /\ kind' = kind
    BY <1>s DEF Send
  <2>4. SendShown(p, part, ins, tch)
    BY <1>s, SendShows
  <2> QED BY <1>x, <2>2, <2>3, <2>4 DEF SendShown
<1>v. ASSUME NEW p \in Views, NEW part \in Parts, SaveInputs(p, part) PROVE ShownKnows'
  <2>1. part \in SUBSET Inputs /\ view[p].inputs \in Rows /\ view[p].touched \in SUBSET Inputs
        /\ Send(p, part, view[p].inputs, view[p].touched) /\ edits' \in 0..MaxEdits
    BY <1>v, SaveSends
  <2> QED BY <1>s, <2>1, SendType
<1>h. ASSUME NEW p \in Views, NEW f \in Inputs, Choose(p, f) PROVE ShownKnows'
  <2> DEFINE ins == [view[p].inputs EXCEPT ![f] = edits']
             tch == view[p].touched \cup {f}
  <2>1. {f} \in SUBSET Inputs /\ ins \in Rows /\ tch \in SUBSET Inputs /\ Send(p, {f}, ins, tch)
        /\ edits' \in 0..MaxEdits
    BY <1>h, ChooseSends
  <2> HIDE DEF ins, tch
  <2> QED BY <1>s, <2>1, SendType
<1>w. ASSUME NEW n \in Sends, NEW new \in Rows, Write(n, new)
      PROVE ShownKnows'
  <2> SUFFICES ASSUME NEW p \in Views, NEW f \in Inputs
               PROVE /\ view'[p].shown[f] = stored'[f] \/ f \in note'[p].behind
                     /\ kind'.refreshes /\ f \in note'[p].behind =>
                          \/ f \in note'[p].crossed \/ view'[p].asks
                          \/ \E m \in Waits(p)' : call'[m].stage \in {"done", "half"}
    BY DEF ShownKnows
  <2>1. /\ view' = view /\ kind' = kind /\ stored' = new
        /\ note'[p].behind = note[p].behind \cup Altered(new)
        /\ note'[p].crossed = IF n \in Waits(p) THEN note[p].crossed ELSE note[p].crossed \cup Altered(new)
    BY <1>w, <1>1 DEF Write, Note
  <2>2. Waits(p)' = Waits(p) /\ call'[n].stage = "done" /\ \A m \in Sends \ {n} : call'[m].stage = call[m].stage
    BY <1>w, <1>1 DEF Write, Waits, FormCall
  <2>3. Waits(p) \subseteq Sends
    BY DEF Waits
  <2>4. ASSUME f \in Altered(new) PROVE f \in note'[p].crossed \/ n \in Waits(p)'
    BY <2>1, <2>2, <2>4
  <2>5. ASSUME f \notin Altered(new) PROVE stored'[f] = stored[f]
    BY <2>1, <2>5 DEF Altered
  <2>6. note[p].crossed \subseteq note'[p].crossed
    BY <2>1
  <2>7. \A m \in Waits(p) : call[m].stage \in {"done", "half"} =>
           m \in Waits(p)' /\ call'[m].stage \in {"done", "half"}
    BY <2>2, <2>3
  <2>8. CASE f \in Altered(new)
    BY <2>1, <2>2, <2>4, <2>8
  <2>9. CASE f \notin Altered(new)
    BY <2>1, <2>5, <2>6, <2>7, <2>9 DEF ShownKnows
  <2> QED BY <2>8, <2>9
<1>m. ASSUME NEW n \in Sends, Commit(n) PROVE ShownKnows'
  BY <1>m, <1>w, CommitWrites DEF Commit
<1>r. ASSUME NEW n \in Sends, TurnDown(n) PROVE ShownKnows'
  <2>1. \A m \in Sends : /\ call'[m].by = call[m].by
                         /\ call[m].stage \in {"done", "half"} =>
                              call'[m].stage \in {"done", "half"}
    BY <1>r, <1>1 DEF TurnDown, FormCall
  <2> QED BY <1>r, <2>1 DEF TurnDown, ShownKnows, Waits
<1>y. ASSUME NEW p \in Views, NEW n \in Waits(p), HearsNoMore(n), stored' = stored, kind' = kind,
             \A q \in Views \ {p} : view'[q] = view[q] /\ note'[q] = note[q],
             view'[p].shown = view[p].shown, note'[p].behind = note[p].behind,
             note[p].crossed \subseteq note'[p].crossed,
             view[p].asks /\ kind.refreshes => view'[p].asks \/ note[p].behind \subseteq note'[p].crossed,
             \/ call[n].stage \notin {"done", "half"}
             \/ kind.refreshes => view'[p].asks
             \/ note[p].behind \subseteq note'[p].crossed
      PROVE ShownKnows'
  <2>1. n \in Sends /\ \A q \in Views : Waits(q)' = Waits(q) \ {n}
    BY <1>y, HearsSame DEF Waits
  <2>2. \A m \in Sends \ {n} : call'[m] = call[m]
    BY <1>y, <2>1, HearsSame
  <2>3. \A q \in Views \ {p} : n \notin Waits(q)
    BY DEF Waits
  <2>4. \A q \in Views : Waits(q) \subseteq Sends
    BY DEF Waits
  <2> QED BY <1>y, <2>1, <2>2, <2>3, <2>4 DEF ShownKnows
<1>z. ASSUME NEW p \in Views, NEW n \in Sends, TellFailure(p, n)
      PROVE view'[p].shown = view[p].shown /\ (view[p].asks => view'[p].asks)
            /\ \A q \in Views \ {p} : view'[q] = view[q]
  BY <1>z, FailureShown
<1>o. ASSUME NEW p \in Views, NEW n \in Sends, TellSuccess(p, n)
      PROVE view'[p].shown = view[p].shown /\ view'[p].asks = (view[p].asks \/ kind.refreshes)
            /\ \A q \in Views \ {p} : view'[q] = view[q]
  BY <1>o, <1>0, SuccessShown
<1>i. ASSUME NEW p \in Views, Unsure(p)
      PROVE /\ note'[p].behind = note[p].behind /\ note'[p].crossed = note[p].crossed \cup note[p].behind
            /\ \A q \in Views \ {p} : note'[q] = note[q]
  BY <1>i, UnsureNotes
<1>a. ASSUME NEW p \in Views, NEW n \in Waits(p), Answer(p, n) PROVE ShownKnows'
  <2>1. n \in Sends
    BY DEF Waits
  <2>2. CASE call[n].stage = "done"
    BY <1>a, <1>o, <1>y, <2>1, <2>2 DEF Answer
  <2>3. CASE call[n].stage = "refused"
    BY <1>a, <1>o, <1>z, <1>y, <2>1, <2>3 DEF Answer
  <2>4. CASE call[n].stage = "half"
    BY <1>a, <1>o, <1>z, <1>i, <1>y, <2>1, <2>4 DEF Answer
  <2> QED BY <1>a, <2>2, <2>3, <2>4 DEF Answer
<1>b. ASSUME NEW p \in Views, NEW n \in Waits(p), LoseAnswer(p, n) PROVE ShownKnows'
  <2>1. n \in Sends
    BY DEF Waits
  <2>2. CASE kind.loss = "told"
    BY <1>b, <1>z, <1>i, <1>y, <2>1, <2>2 DEF LoseAnswer
  <2>3. CASE kind.loss = "untold"
    BY <1>b, <1>i, <1>y, <2>1, <2>3 DEF LoseAnswer
  <2>4. CASE kind.loss = "page"
    <3>1. view'[p] = Mounted(view[p].shown) /\ \A q \in Views \ {p} : view'[q] = view[q]
      BY <1>b, <1>1, <2>4 DEF LoseAnswer
    <3>2. /\ note'[p].behind = note[p].behind /\ note'[p].crossed = note[p].crossed \cup note[p].behind
          /\ \A q \in Views \ {p} : note'[q] = note[q]
      <4> DEFINE k == [Retaken(p) EXCEPT !.crossed = @ \cup note[p].behind]
      <4>1. note[p] \in Note
        BY <1>1
      <4>2. k.behind = note[p].behind /\ k.crossed = note[p].crossed \cup note[p].behind
        BY <4>1 DEF Retaken, Note
      <4>3. note' = [note EXCEPT ![p] = k]
        BY <1>b, <2>4 DEF LoseAnswer
      <4> QED BY <1>1, <4>2, <4>3
    <3>3. view'[p].shown = view[p].shown
      BY <3>1 DEF Mounted
    <3> QED BY <1>b, <1>y, <3>1, <3>2, <3>3 DEF LoseAnswer
  <2> QED BY <1>b, <2>2, <2>3, <2>4 DEF LoseAnswer
<1>f. ASSUME NEW p \in Views, Refresh(p) PROVE ShownKnows'
  BY <1>f, <1>1 DEF Refresh, ShownKnows, Waits, View, Note
<1>t. ASSUME NEW p \in Views, NEW open \in BOOLEAN, Retake(p, open) PROVE ShownKnows'
  <2>1. view'[p].shown = view[p].shown /\ view'[p].asks = view[p].asks
    BY <1>t, <1>1 DEF Retake, Mounted
  <2>2. note'[p].behind = note[p].behind /\ note'[p].crossed = note[p].crossed
    BY <1>t, <1>1 DEF Retake, Retaken, Note
  <2> QED BY <1>t, <1>x, <1>1, <2>1, <2>2 DEF Retake
<1>p. ASSUME NEW p \in Views, Reopen(p) PROVE ShownKnows'
  <2>1. CASE kind.retakes
    BY <1>p, <1>t, <2>1 DEF Reopen
  <2>2. CASE ~kind.retakes
    <3>1. view' = [view EXCEPT ![p] = [view[p] EXCEPT !.open = TRUE]]
          /\ stored' = stored /\ kind' = kind /\ call' = call /\ note' = note
      BY <1>p, <2>2 DEF Reopen, Retake
    <3>2. view'[p].shown = view[p].shown /\ view'[p].asks = view[p].asks
          /\ \A q \in Views \ {p} : view'[q] = view[q]
      BY <1>1, <3>1 DEF View
    <3> QED BY <1>x, <3>1, <3>2
  <2> QED BY <2>1, <2>2
<1> QED BY <1>u, <1>l, <1>e, <1>v, <1>h, <1>m, <1>r, <1>a, <1>b, <1>f, <1>t, <1>p
     DEF FormNext, CancelForm

-------------------------------------------------------------------------------

\* What a form has not edited is the row's, as long as nobody moved it; and so
\* is what a call of it is about to write.
InputsKnow ==
  /\ kind.fromRow => \A p \in Views : \A f \in Inputs \ view[p].touched :
                       view[p].inputs[f] = Taken(kind, f, stored[f]) \/ f \in note[p].moved
  /\ kind.fromRow => \A n \in Sends : call[n].stage = "sent" =>
                       \A f \in Inputs \ call[n].touched : call[n].to[f] = Taken(kind, f, stored[f]) \/ f \in call[n].moved
  /\ kind.instant => \A p \in Views : \A n \in Awaited(p) : call[n].of \subseteq view[p].touched

\* Inputs that were not edited are the row's, but for what moved since; so are the
\* calls that carry them.
LEMMA InputsKept ==
  ASSUME FormTypeOK, SendsKnow, ShownKnows, InputsKnow, [FormNext]_formVars PROVE InputsKnow'
<1> USE FormAssumption
<1>0. kind \in Form /\ (kind.instant => ~kind.shuts)
  BY KindsAreForms DEF FormTypeOK
<1>1. view \in [Views -> View] /\ call \in [Sends -> FormCall] /\ note \in [Views -> Note]
  BY DEF FormTypeOK
<1> DEFINE
     Own(p) == kind.fromRow => \A f \in Inputs \ view[p].touched :
                  view[p].inputs[f] = Taken(kind, f, stored[f]) \/ f \in note[p].moved
     Sent(n) == kind.fromRow /\ call[n].stage = "sent" =>
                  \A f \in Inputs \ call[n].touched : call[n].to[f] = Taken(kind, f, stored[f]) \/ f \in call[n].moved
     Back(p) == kind.instant => \A n \in Awaited(p) : call[n].of \subseteq view[p].touched
<1>2. \A p \in Views : Own(p) /\ Back(p)
  BY DEF InputsKnow
<1>3. \A n \in Sends : Sent(n)
  BY DEF InputsKnow
<1>4. (\A p \in Views : Own(p)' /\ Back(p)') /\ (\A n \in Sends : Sent(n)') => InputsKnow'
  BY DEF InputsKnow
<1>u. CASE UNCHANGED formVars
  BY <1>u DEF formVars, InputsKnow, Awaited, Waits
\* Nothing of the row or of what the calls carry changes.
<1>x. ASSUME NEW p \in Views, stored' = stored, kind' = kind,
             \A q \in Views \ {p} : view'[q] = view[q] /\ note'[q] = note[q],
             \A n \in Sends : /\ call'[n].by \in {call[n].by, NoPage}
                              /\ call'[n].stage = "sent" => call[n].stage = "sent"
                              /\ call'[n].of = call[n].of /\ call'[n].to = call[n].to
                              /\ call'[n].touched = call[n].touched /\ call'[n].moved = call[n].moved,
             Own(p)', Back(p)'
      PROVE InputsKnow'
  <2>1. \A q \in Views : Waits(q)' \subseteq Waits(q)
    BY <1>x DEF Waits
  <2>2. \A q \in Views \ {p} : Own(q)' /\ Back(q)'
    BY <1>x, <1>2, <2>1 DEF Awaited, Waits
  <2>3. \A n \in Sends : Sent(n)'
    BY <1>x, <1>3
  <2> QED BY <1>x, <1>4, <2>2, <2>3
\* The inputs are mounted from a row that the page has.
<1>z. ASSUME NEW p \in Views, NEW r \in Rows, kind' = kind, stored' = stored,
             view'[p].inputs = Mounted(r).inputs,
             \A f \in Inputs : r[f] = stored[f] \/ f \in note'[p].moved
      PROVE Own(p)'
  BY <1>z DEF Mounted
<1>l. ASSUME NEW p \in Views, Load(p) PROVE InputsKnow'
  <2>1. view'[p] = Mounted(stored) /\ (\A q \in Views \ {p} : view'[q] = view[q] /\ note'[q] = note[q])
        /\ stored' = stored /\ kind' = kind
    BY <1>l, <1>1 DEF Load, Renders, Notes
  <2>2. \A n \in Sends : /\ call'[n].by \in {call[n].by, NoPage} /\ call'[n].stage = call[n].stage
                         /\ call'[n].of = call[n].of /\ call'[n].to = call[n].to
                         /\ call'[n].touched = call[n].touched /\ call'[n].moved = call[n].moved
    BY <1>l, <1>1 DEF Load, FormCall
  <2>3. Own(p)' /\ Back(p)'
    BY <2>1, <1>z DEF Mounted, Awaited, FormTypeOK
  <2> QED BY <1>x, <2>1, <2>2, <2>3
<1>e. ASSUME NEW p \in Views, NEW f \in Inputs, EditInput(p, f) PROVE InputsKnow'
  <2>0. PICK w \in {edits', 0} :
          Renders(p, [view[p] EXCEPT !.inputs[f] = w, !.touched = @ \cup {f}, !.dirty = @ \cup {f}])
    BY <1>e DEF EditInput
  <2> DEFINE v == [view[p] EXCEPT !.inputs[f] = w, !.touched = @ \cup {f}, !.dirty = @ \cup {f}]
  <2>1. view' = [view EXCEPT ![p] = v] /\ stored' = stored /\ kind' = kind /\ call' = call /\ note' = note
        /\ ~kind.instant
    BY <1>e, <2>0 DEF EditInput, Renders
  <2>2. view[p] \in View /\ view[p].inputs \in Rows
    BY <1>1 DEF View
  <2>3. v.touched = view[p].touched \cup {f} /\ \A g \in Inputs \ {f} : v.inputs[g] = view[p].inputs[g]
    BY <2>2 DEF View, Rows
  <2>4. view'[p] = v /\ \A q \in Views \ {p} : view'[q] = view[q]
    BY <1>1, <2>1
  <2> HIDE DEF v
  <2>5. Own(p)' /\ Back(p)'
    BY <1>2, <2>1, <2>3, <2>4
  <2> QED BY <1>x, <2>1, <2>4, <2>5, <1>1 DEF FormCall
<1>s. ASSUME NEW p \in Views, NEW part \in SUBSET Inputs, NEW ins, NEW tch \in SUBSET Inputs,
             callCount' \in Sends,
             Send(p, part, ins, tch), SentOf(part, ins) \subseteq part,
             kind.fromRow => \A f \in Inputs \ tch : ins[f] = Taken(kind, f, stored[f]) \/ f \in note[p].moved,
             kind.instant => part \cup view[p].touched \subseteq tch
      PROVE InputsKnow'
  <2>1. stored' = stored /\ kind' = kind
    BY <1>s DEF Send
  <2>0. SendShown(p, part, ins, tch)
    BY <1>s, SendShows
  <2>2. PICK m \in Sends : m = callCount'
    BY <1>s
  <2>3. call[m].by = NoPage /\ \A q \in Views : m \notin view[q].own
    BY <1>s, <2>2 DEF Send, SendsKnow, FormTypeOK
  <2>4. /\ call'[m].by = p /\ call'[m].of = SentOf(part, ins) /\ call'[m].to = ins
        /\ call'[m].touched = tch /\ call'[m].moved = note[p].moved
        /\ \A n \in Sends \ {m} : call'[n] = call[n]
    BY <2>0, <2>2 DEF SendShown
  <2>5. /\ view'[p].inputs = ins /\ view'[p].touched = tch /\ view'[p].own = view[p].own \cup {m}
        /\ note'[p].moved = note[p].moved
        /\ \A q \in Views \ {p} : view'[q] = view[q] /\ note'[q] = note[q]
    BY <2>0, <2>2 DEF SendShown
  <2>6. Sent(m)'
    BY <1>s, <2>1, <2>4
  <2>7. \A n \in Sends \ {m} : Sent(n)'
    BY <1>3, <2>1, <2>4
  <2>8. Own(p)' /\ \A q \in Views \ {p} : Own(q)'
    BY <1>s, <2>1, <1>2, <2>5
  <2>9. Awaited(p)' \subseteq Awaited(p) \cup {m} /\ \A q \in Views \ {p} : Awaited(q)' \subseteq Awaited(q)
    BY <2>3, <2>4, <2>5 DEF Awaited, Waits
  <2>10. \A q \in Views : Awaited(q) \subseteq Sends \ {m}
    BY <2>3 DEF Awaited, Waits
  <2>11. Back(p)'
    <3> SUFFICES ASSUME kind.instant, NEW n \in Awaited(p)' PROVE call'[n].of \subseteq tch
      BY <2>1, <2>5
    <3>1. CASE n = m
      BY <1>s, <2>4, <3>1
    <3>2. CASE n # m
      <4>1. n \in Awaited(p) /\ n \in Sends \ {m}
        BY <2>9, <2>10, <3>2
      <4>2. call[n].of \subseteq view[p].touched
        BY <1>2, <4>1
      <4> QED BY <1>s, <2>4, <4>1, <4>2
    <3> QED BY <3>1, <3>2
  <2>12. \A q \in Views \ {p} : Back(q)'
    BY <1>2, <2>1, <2>4, <2>5, <2>9, <2>10
  <2> QED BY <1>4, <2>6, <2>7, <2>8, <2>11, <2>12
<1>v. ASSUME NEW p \in Views, NEW part \in Parts, SaveInputs(p, part) PROVE InputsKnow'
  <2>1. ~kind.instant
    BY <1>v DEF SaveInputs
  <2>2. part \in SUBSET Inputs /\ Send(p, part, view[p].inputs, view[p].touched)
        /\ view[p].touched \in SUBSET Inputs
    BY <1>v, SaveSends
  <2>3. callCount' \in Sends /\ SentOf(part, view[p].inputs) \subseteq part
    <3>1. view[p].inputs \in Rows /\ edits' \in 0..MaxEdits
      BY <1>v, SaveSends
    <3> QED BY <2>2, <3>1, SendType
  <2>4. kind.fromRow => \A f \in Inputs \ view[p].touched : view[p].inputs[f] = Taken(kind, f, stored[f]) \/ f \in note[p].moved
    BY <1>2
  <2> QED BY <1>s, <2>1, <2>2, <2>3, <2>4
<1>h. ASSUME NEW p \in Views, NEW f \in Inputs, Choose(p, f) PROVE InputsKnow'
  <2>1. view[p].inputs \in Rows
    BY <1>1 DEF View
  <2>2. \A g \in Inputs \ {f} : [view[p].inputs EXCEPT ![f] = edits'][g] = view[p].inputs[g]
    BY <2>1 DEF Rows
  <2> DEFINE ins == [view[p].inputs EXCEPT ![f] = edits']
             tch == view[p].touched \cup {f}
  <2>3. Send(p, {f}, ins, tch) /\ tch \in SUBSET Inputs
    BY <1>h, ChooseSends
  <2>4. callCount' \in Sends /\ SentOf({f}, ins) \subseteq {f}
    BY <2>3 DEF Send, SentOf, FormTypeOK, Sends
  <2>5. kind.fromRow => \A g \in Inputs \ tch : ins[g] = Taken(kind, g, stored[g]) \/ g \in note[p].moved
    BY <1>2, <2>2
  <2>6. {f} \cup view[p].touched \subseteq tch
    OBVIOUS
  <2> HIDE DEF ins, tch
  <2> QED BY <1>s, <2>3, <2>4, <2>5, <2>6
<1>w. ASSUME NEW n \in Sends, NEW new \in Rows, Write(n, new)
      PROVE InputsKnow'
  <2>0. Written(n, new)
    BY <1>w, WriteNotes
  <2>1. \A f \in Inputs : f \notin Altered(new) => stored'[f] = stored[f]
    BY <2>0 DEF Altered, Written
  <2>2. ASSUME NEW p \in Views PROVE Own(p)'
    <3>1. view' = view /\ kind' = kind /\ note'[p].moved = note[p].moved \cup Altered(new)
      BY <2>0 DEF Written
    <3> QED BY <1>2, <2>1, <3>1
  <2>3. \A p \in Views : Back(p)'
    BY <2>0, <1>2 DEF Awaited, Waits, Written
  <2>4. \A m \in Sends : Sent(m)'
    BY <1>w, <2>0, <1>3, <2>1 DEF Written
  <2> QED BY <1>4, <2>2, <2>3, <2>4
<1>m. ASSUME NEW n \in Sends, Commit(n) PROVE InputsKnow'
  BY <1>m, <1>w, CommitWrites DEF Commit
<1>r. ASSUME NEW n \in Sends, TurnDown(n) PROVE InputsKnow'
  <2>1. \A m \in Sends : /\ call'[m].by = call[m].by
                         /\ call'[m].stage = "sent" => call[m].stage = "sent"
                         /\ call'[m].of = call[m].of /\ call'[m].to = call[m].to
                         /\ call'[m].touched = call[m].touched /\ call'[m].moved = call[m].moved
    BY <1>r, <1>1 DEF TurnDown, FormCall
  <2>2. stored' = stored /\ kind' = kind /\ view' = view /\ note' = note
    BY <1>r DEF TurnDown
  <2>3. \A p \in Views : Own(p)' /\ Back(p)'
    BY <2>1, <2>2, <1>2 DEF Awaited, Waits
  <2>4. \A m \in Sends : Sent(m)'
    BY <2>1, <2>2, <1>3
  <2> QED BY <1>4, <2>3, <2>4
<1>y. ASSUME NEW p \in Views, NEW n \in Sends, HearsNoMore(n), stored' = stored, kind' = kind,
             \A q \in Views \ {p} : view'[q] = view[q] /\ note'[q] = note[q],
             Own(p)', Back(p)'
      PROVE InputsKnow'
  <2>1. \A m \in Sends : /\ call'[m].by \in {call[m].by, NoPage} /\ call'[m].stage = call[m].stage
                         /\ call'[m].of = call[m].of /\ call'[m].to = call[m].to
                         /\ call'[m].touched = call[m].touched /\ call'[m].moved = call[m].moved
    BY <1>y, <1>1 DEF HearsNoMore, FormCall
  <2> QED BY <1>x, <1>y, <2>1
\* What an answer does to the inputs.
<1>i. ASSUME NEW p \in Views, NEW n \in Waits(p), n \in Sends, HearsNoMore(n), stored' = stored, kind' = kind,
             TellSuccess(p, n) \/ TellFailure(p, n) \/ view' = view, note'[p].moved = note[p].moved
      PROVE Own(p)' /\ Back(p)' /\ \A q \in Views \ {p} : view'[q] = view[q]
  <2>1. /\ view'[p].touched = view[p].touched /\ view'[p].own = view[p].own
        /\ \A q \in Views \ {p} : view'[q] = view[q]
    BY <1>i, <1>0, SuccessShown, FailureShown
  <2>2. \A f \in Inputs \ view[p].touched : view'[p].inputs[f] = view[p].inputs[f]
    <3>1. CASE ~TellFailure(p, n)
      BY <1>i, <1>0, <3>1, SuccessShown
    <3>2. CASE TellFailure(p, n) /\ n \in view[p].own /\ kind.instant
      <4>1. call[n].of \subseteq view[p].touched
        BY <1>i, <1>2, <3>2 DEF Awaited
      <4>2. view'[p].inputs = Fallback(p, n)
        BY <1>i, <3>2, FailureShown
      <4> QED BY <4>1, <4>2 DEF Fallback
    <3>3. CASE TellFailure(p, n) /\ ~(n \in view[p].own /\ kind.instant)
      BY <1>i, <3>3, FailureShown
    <3> QED BY <3>1, <3>2, <3>3
  <2>3. Awaited(p)' \subseteq Awaited(p) /\ Awaited(p) \subseteq Sends
    BY <1>i, <2>1, HearsSame DEF Awaited, Waits
  <2>4. \A m \in Sends : call'[m].of = call[m].of
    BY <1>i, <1>1 DEF HearsNoMore, FormCall
  <2> QED BY <1>i, <1>2, <2>1, <2>2, <2>3, <2>4
<1>a. ASSUME NEW p \in Views, NEW n \in Waits(p), Answer(p, n) PROVE InputsKnow'
  <2>1. n \in Sends
    BY DEF Waits
  <2>2. note'[p].moved = note[p].moved /\ \A q \in Views \ {p} : note'[q] = note[q]
    BY <1>a, UnsureNotes DEF Answer
  <2> QED BY <1>a, <1>i, <1>y, <2>1, <2>2 DEF Answer
<1>b. ASSUME NEW p \in Views, NEW n \in Waits(p), LoseAnswer(p, n) PROVE InputsKnow'
  <2>1. n \in Sends /\ stored' = stored /\ kind' = kind /\ HearsNoMore(n)
    BY <1>b DEF Waits, LoseAnswer
  <2>2. CASE kind.loss # "page"
    <3>1. note'[p].moved = note[p].moved /\ \A q \in Views \ {p} : note'[q] = note[q]
      BY <1>b, <2>2, UnsureNotes DEF LoseAnswer
    <3> QED BY <1>b, <1>i, <1>y, <2>1, <2>2, <3>1 DEF LoseAnswer
  <2>3. CASE kind.loss = "page"
    <3>1. view'[p] = Mounted(view[p].shown) /\ \A q \in Views \ {p} : view'[q] = view[q]
      BY <1>b, <1>1, <2>3 DEF LoseAnswer, Renders
    <3>2. note'[p].moved = note[p].behind /\ \A q \in Views \ {p} : note'[q] = note[q]
      <4> DEFINE k == [Retaken(p) EXCEPT !.crossed = @ \cup note[p].behind]
      <4>1. note[p] \in Note
        BY <1>1
      <4>2. k.moved = note[p].behind
        BY <4>1 DEF Retaken, Note
      <4>3. note' = [note EXCEPT ![p] = k]
        BY <1>b, <2>3 DEF LoseAnswer, Notes
      <4> QED BY <1>1, <4>2, <4>3
    <3>3. view[p].shown \in Rows
      BY <1>1 DEF View
    <3>4. Own(p)'
      BY <1>z, <2>1, <3>1, <3>2, <3>3 DEF ShownKnows
    <3>5. Back(p)'
      BY <3>1 DEF Mounted, Awaited
    <3> QED BY <1>y, <2>1, <3>1, <3>2, <3>4, <3>5
  <2> QED BY <2>2, <2>3
<1>f. ASSUME NEW p \in Views, Refresh(p) PROVE InputsKnow'
  <2> DEFINE v == [view[p] EXCEPT !.shown = stored, !.asks = FALSE]
             k == [note[p] EXCEPT !.behind = {}, !.crossed = {}]
  <2>1. view' = [view EXCEPT ![p] = v] /\ note' = [note EXCEPT ![p] = k] /\ stored' = stored
        /\ kind' = kind /\ call' = call
    BY <1>f DEF Refresh, Renders, Notes
  <2>2. view'[p] = v /\ note'[p] = k /\ \A q \in Views \ {p} : view'[q] = view[q] /\ note'[q] = note[q]
    BY <1>1, <2>1
  <2>3. v.inputs = view[p].inputs /\ v.touched = view[p].touched /\ v.own = view[p].own
        /\ k.moved = note[p].moved
    BY <1>1 DEF View, Note
  <2> HIDE DEF v, k
  <2>4. Own(p)' /\ Back(p)'
    BY <1>2, <2>1, <2>2, <2>3 DEF Awaited, Waits
  <2> QED BY <1>x, <1>1, <2>1, <2>2, <2>4 DEF FormCall
<1>t. ASSUME NEW p \in Views, NEW open \in BOOLEAN, Retake(p, open), kind.shuts PROVE InputsKnow'
  <2> DEFINE own == IF kind.retakes THEN {} ELSE view[p].own
             v == [Mounted(view[p].shown) EXCEPT !.open = open, !.asks = view[p].asks, !.own = own]
             k == [note[p] EXCEPT !.moved = note[p].behind]
  <2>1. view' = [view EXCEPT ![p] = v] /\ note' = [note EXCEPT ![p] = k] /\ stored' = stored
        /\ kind' = kind /\ call' = call
    BY <1>t DEF Retake, Retaken, Renders, Notes
  <2>2. view'[p] = v /\ note'[p] = k /\ \A q \in Views \ {p} : view'[q] = view[q] /\ note'[q] = note[q]
    BY <1>1, <2>1
  <2>3. v.inputs = Mounted(view[p].shown).inputs /\ k.moved = note[p].behind
    BY <1>1 DEF Mounted, Note
  <2> HIDE DEF v, k
  <2>4. view[p].shown \in Rows
    BY <1>1 DEF View
  <2>5. Own(p)'
    BY <1>z, <2>1, <2>2, <2>3, <2>4 DEF ShownKnows
  <2>6. Back(p)'
    BY <1>t, <1>0, <2>1
  <2> QED BY <1>x, <1>1, <2>1, <2>2, <2>5, <2>6 DEF FormCall
<1>p. ASSUME NEW p \in Views, Reopen(p) PROVE InputsKnow'
  <2>1. CASE kind.retakes
    BY <1>p, <1>t, <2>1 DEF Reopen
  <2>2. CASE ~kind.retakes
    <3> DEFINE v == [view[p] EXCEPT !.open = TRUE]
    <3>1. view' = [view EXCEPT ![p] = v] /\ stored' = stored /\ kind' = kind /\ call' = call /\ note' = note
      BY <1>p, <2>2 DEF Reopen, Renders
    <3>2. view'[p] = v /\ \A q \in Views \ {p} : view'[q] = view[q]
      BY <1>1, <3>1
    <3>3. v.inputs = view[p].inputs /\ v.touched = view[p].touched /\ v.own = view[p].own
      BY <1>1 DEF View
    <3> HIDE DEF v
    <3>4. Own(p)' /\ Back(p)'
      BY <1>2, <3>1, <3>2, <3>3 DEF Awaited, Waits
    <3> QED BY <1>x, <1>1, <3>1, <3>2, <3>4 DEF FormCall
  <2> QED BY <2>1, <2>2
<1>d. ASSUME NEW p \in Views, CancelForm(p) PROVE InputsKnow'
  BY <1>d, <1>t DEF CancelForm
<1> QED BY <1>u, <1>l, <1>e, <1>v, <1>h, <1>m, <1>r, <1>a, <1>b, <1>f, <1>d, <1>p DEF FormNext

\* A form that waits has one call, and until the form is told what became of
\* it, the row is as it was or has what the call sent.
PageKnows(p) ==
  kind.guarded \/ ~note[p].overlapped =>
    /\ \A m, n \in Awaited(p) : m = n
    /\ \A n \in Awaited(p) :
         /\ view[p].said = "nothing" /\ view[p].about \subseteq call[n].of
         /\ \A f \in view[p].about \ view[p].dirty : view[p].inputs[f] = call[n].to[f]
         /\ kind.kept /\ call[n].stage = "done" =>
              \A f \in view[p].about \ note[p].undone : stored[f] = call[n].to[f]
         /\ call[n].stage \in {"sent", "refused"} =>
              \A f \in view[p].about \ note[p].undone : stored[f] = note[p].before[f]
    /\ kind.kept /\ view[p].said = "saved" =>
         \A f \in view[p].about \ (view[p].dirty \cup note[p].undone) : stored[f] = view[p].inputs[f]
    /\ kind.kept /\ view[p].said = "failed" /\ ~note[p].unsure =>
         \A f \in view[p].about \ note[p].undone : stored[f] = note[p].before[f]

OutcomeKnows == \A p \in Views : PageKnows(p)

\* What a page knows of its call stays true of the row.
LEMMA OutcomeKept ==
  ASSUME FormTypeOK, SendsKnow, OutcomeKnows, [FormNext]_formVars PROVE OutcomeKnows'
<1> USE FormAssumption
<1>0. kind \in Form /\ (kind.says => kind.judges) /\ (kind.instant => ~kind.shuts)
  BY KindsAreForms DEF FormTypeOK
<1>1. view \in [Views -> View] /\ call \in [Sends -> FormCall] /\ note \in [Views -> Note]
  BY DEF FormTypeOK
<1>2. \A p \in Views : PageKnows(p) /\ Waits(p) \subseteq Sends /\ Awaited(p) \subseteq Sends
  BY DEF OutcomeKnows, Waits, Awaited
<1>3. (\A p \in Views : PageKnows(p)') => OutcomeKnows'
  BY DEF OutcomeKnows
<1>u. CASE UNCHANGED formVars
  BY <1>u DEF formVars, OutcomeKnows, PageKnows, Awaited, Waits
\* A page of which nothing here changes.
<1>x. ASSUME NEW p \in Views, stored' = stored, kind' = kind,
             /\ view'[p].said = view[p].said /\ view'[p].about = view[p].about
             /\ view'[p].dirty = view[p].dirty /\ view'[p].inputs = view[p].inputs,
             /\ note'[p].undone = note[p].undone /\ note'[p].before = note[p].before
             /\ note'[p].overlapped = note[p].overlapped
             /\ note[p].unsure => note'[p].unsure,
             Awaited(p)' \subseteq Awaited(p),
             \A n \in Awaited(p) :
               /\ call'[n].of = call[n].of /\ call'[n].to = call[n].to
               /\ call'[n].stage = "done" => call[n].stage = "done"
               /\ call'[n].stage \in {"sent", "refused"} => call[n].stage \in {"sent", "refused"}
      PROVE PageKnows(p)'
  BY <1>x, <1>2 DEF PageKnows
\* A page that is at nothing.
<1>z. ASSUME NEW p \in Views, view'[p].said = "nothing", view'[p].about = {},
             Awaited(p)' \subseteq Awaited(p),
             kind' = kind, note'[p].overlapped = note[p].overlapped \/ Awaited(p)' = {}
      PROVE PageKnows(p)'
  BY <1>z, <1>2 DEF PageKnows
\* Other pages, when one of them acts.
<1>q. ASSUME NEW p \in Views, NEW q \in Views, q # p, stored' = stored, kind' = kind,
             view'[q] = view[q], note'[q] = note[q], Awaited(q)' \subseteq Awaited(q),
             \A n \in Awaited(q) : call'[n].of = call[n].of /\ call'[n].to = call[n].to
                                  /\ call'[n].stage = call[n].stage
      PROVE PageKnows(q)'
  BY <1>q, <1>x
<1>l. ASSUME NEW p \in Views, Load(p) PROVE OutcomeKnows'
  <2>1. view'[p] = Mounted(stored) /\ (\A q \in Views \ {p} : view'[q] = view[q] /\ note'[q] = note[q])
        /\ stored' = stored /\ kind' = kind
    BY <1>l, <1>1 DEF Load, Renders, Notes
  <2>2. \A n \in Sends : /\ call'[n].by \in {call[n].by, NoPage} /\ call'[n].stage = call[n].stage
                         /\ call'[n].of = call[n].of /\ call'[n].to = call[n].to
    BY <1>l, <1>1 DEF Load, FormCall
  <2>3. PageKnows(p)'
    <3>1. Awaited(p)' = {}
      BY <2>1 DEF Mounted, Awaited
    <3> QED BY <1>z, <2>1, <3>1 DEF Mounted
  <2>4. ASSUME NEW q \in Views, q # p PROVE PageKnows(q)'
    <3>1. Awaited(q)' \subseteq Awaited(q)
      BY <2>1, <2>2, <2>4 DEF Awaited, Waits
    <3> QED BY <1>q, <1>2, <2>1, <2>2, <2>4, <3>1
  <2> QED BY <1>3, <2>3, <2>4
<1>e. ASSUME NEW p \in Views, NEW f \in Inputs, EditInput(p, f) PROVE OutcomeKnows'
  <2>0. PICK w \in {edits', 0} :
          Renders(p, [view[p] EXCEPT !.inputs[f] = w, !.touched = @ \cup {f}, !.dirty = @ \cup {f}])
    BY <1>e DEF EditInput
  <2> DEFINE v == [view[p] EXCEPT !.inputs[f] = w, !.touched = @ \cup {f}, !.dirty = @ \cup {f}]
  <2>1. view' = [view EXCEPT ![p] = v] /\ stored' = stored /\ kind' = kind /\ call' = call /\ note' = note
    BY <1>e, <2>0 DEF EditInput, Renders
  <2>2. view[p] \in View /\ view[p].inputs \in Rows
    BY <1>1 DEF View
  <2>3. /\ v.said = view[p].said /\ v.about = view[p].about /\ v.own = view[p].own
        /\ v.dirty = view[p].dirty \cup {f}
        /\ \A g \in Inputs \ {f} : v.inputs[g] = view[p].inputs[g]
    BY <2>2 DEF View, Rows
  <2>4. view'[p] = v /\ \A q \in Views \ {p} : view'[q] = view[q]
    BY <1>1, <2>1
  <2> HIDE DEF v
  <2>5. Awaited(p)' = Awaited(p) /\ view[p].about \subseteq Inputs
    BY <1>1, <2>1, <2>3, <2>4 DEF Awaited, Waits, View
  <2>6. PageKnows(p)'
    BY <1>2, <2>1, <2>3, <2>4, <2>5 DEF PageKnows
  <2>7. ASSUME NEW q \in Views, q # p PROVE PageKnows(q)'
    BY <1>q, <2>1, <2>4, <2>7 DEF Awaited, Waits
  <2> QED BY <1>3, <2>6, <2>7
<1>s. ASSUME NEW p \in Views, NEW part, NEW ins, NEW tch, callCount' \in Sends, Send(p, part, ins, tch)
      PROVE OutcomeKnows'
  <2>0. SendShown(p, part, ins, tch)
    BY <1>s, SendShows
  <2>1. stored' = stored /\ kind' = kind /\ (kind.guarded => Awaited(p) = {})
    BY <1>s DEF Send, MaySend
  <2>2. PICK m \in Sends : m = callCount'
    BY <1>s
  <2>3. call[m].by = NoPage /\ \A q \in Views : m \notin view[q].own
    BY <1>s, <2>2 DEF Send, SendsKnow, FormTypeOK
  <2>4. /\ call'[m].by = p /\ call'[m].of = SentOf(part, ins) /\ call'[m].to = ins /\ call'[m].stage = "sent"
        /\ \A n \in Sends \ {m} : call'[n] = call[n]
    BY <2>0, <2>2 DEF SendShown
  <2>5. /\ view'[p].said = "nothing" /\ view'[p].inputs = ins /\ view'[p].own = view[p].own \cup {m}
        /\ view'[p].about = SentOf(part, ins)
        /\ note'[p].overlapped = (Awaited(p) # {}) /\ note'[p].before = stored
        /\ \A q \in Views \ {p} : view'[q] = view[q] /\ note'[q] = note[q]
    BY <2>0, <2>2 DEF SendShown
  <2>6. Awaited(p)' \subseteq Awaited(p) \cup {m} /\ \A q \in Views \ {p} : Awaited(q)' \subseteq Awaited(q)
    BY <2>3, <2>4, <2>5 DEF Awaited, Waits
  <2>7. \A q \in Views : Awaited(q) \subseteq Sends \ {m}
    BY <2>3 DEF Awaited, Waits
  <2>8. PageKnows(p)'
    <3>1. kind.guarded \/ ~note'[p].overlapped => Awaited(p)' \subseteq {m}
      BY <2>1, <2>5, <2>6
    <3> QED BY <2>1, <2>4, <2>5, <3>1 DEF PageKnows
  <2>9. ASSUME NEW q \in Views, q # p PROVE PageKnows(q)'
    BY <1>q, <2>1, <2>4, <2>5, <2>6, <2>7, <2>9
  <2> QED BY <1>3, <2>8, <2>9
<1>v. ASSUME NEW p \in Views, NEW part \in Parts, SaveInputs(p, part) PROVE OutcomeKnows'
  <2>1. Send(p, part, view[p].inputs, view[p].touched)
    BY <1>v DEF SaveInputs
  <2>2. callCount' \in Sends
    BY <2>1 DEF Send, FormTypeOK, Sends
  <2> QED BY <1>s, <2>1, <2>2
<1>h. ASSUME NEW p \in Views, NEW f \in Inputs, Choose(p, f) PROVE OutcomeKnows'
  <2> DEFINE ins == [view[p].inputs EXCEPT ![f] = edits']
  <2>1. Send(p, {f}, ins, view[p].touched \cup {f})
    BY <1>h DEF Choose
  <2>2. callCount' \in Sends
    BY <2>1 DEF Send, FormTypeOK, Sends
  <2> HIDE DEF ins
  <2> QED BY <1>s, <2>1, <2>2
\* A write is one of the page's own call, or leaves the outcome open.
<1>w. ASSUME NEW n \in Sends, NEW new \in Rows, Write(n, new),
             kind.kept => \A f \in call[n].of : new[f] = call[n].to[f]
      PROVE OutcomeKnows'
  <2>0. Written(n, new)
    BY <1>w, WriteNotes
  <2>1. stored' = new /\ view' = view /\ kind' = kind
    BY <2>0 DEF Written
  <2>2. \A f \in Inputs : f \notin Altered(new) => stored'[f] = stored[f]
    BY <2>1 DEF Altered
  <2> SUFFICES ASSUME NEW p \in Views PROVE PageKnows(p)'
    BY <1>3
  <2>3. /\ note'[p].overlapped = note[p].overlapped /\ note'[p].unsure = note[p].unsure
        /\ note'[p].before = note[p].before /\ Awaited(p)' = Awaited(p)
        /\ note'[p].undone = IF n \in Awaited(p) THEN note[p].undone ELSE note[p].undone \cup Altered(new)
    BY <2>0 DEF Written
  <2>4. \A m \in Sends : /\ call'[m].stage = IF m = n THEN "done" ELSE call[m].stage
                         /\ call'[m].of = call[m].of /\ call'[m].to = call[m].to
    BY <2>0 DEF Written
  <2>5. view[p].about \subseteq Inputs
    BY <1>1 DEF View
  <2>6. CASE n \in Awaited(p)
    <3> SUFFICES ASSUME kind.guarded \/ ~note[p].overlapped PROVE PageKnows(p)'
      BY <2>1, <2>3 DEF PageKnows
    <3>1. Awaited(p) = {n} /\ view[p].said = "nothing" /\ view[p].about \subseteq call[n].of
          /\ \A f \in view[p].about \ view[p].dirty : view[p].inputs[f] = call[n].to[f]
      BY <1>2, <2>6 DEF PageKnows
    <3>2. call'[n].stage = "done" /\ call'[n].of = call[n].of /\ call'[n].to = call[n].to
      BY <2>4
    <3>3. kind.kept => \A f \in view[p].about : stored'[f] = call[n].to[f]
      BY <1>w, <2>1, <3>1
    <3> QED BY <2>1, <2>3, <3>1, <3>2, <3>3 DEF PageKnows
  <2>7. CASE n \notin Awaited(p)
    <3>1. \A f \in view[p].about \ note'[p].undone : f \notin note[p].undone /\ stored'[f] = stored[f]
      BY <2>2, <2>3, <2>5, <2>7
    <3>2. \A m \in Awaited(p) : call'[m].stage = call[m].stage
      BY <1>2, <2>4, <2>7
    <3>3. \A m \in Awaited(p) : call'[m].of = call[m].of /\ call'[m].to = call[m].to
      BY <1>2, <2>4
    <3> QED BY <1>2, <2>1, <2>3, <3>1, <3>2, <3>3 DEF PageKnows
  <2> QED BY <2>6, <2>7
<1>m. ASSUME NEW n \in Sends, Commit(n) PROVE OutcomeKnows'
  <2> DEFINE new == [f \in Inputs |-> IF kind.kept /\ f \in call[n].of THEN call[n].to[f] ELSE stored[f]]
  <2>1. Write(n, new) /\ new \in Rows
    BY <1>m, CommitWrites DEF Commit
  <2>2. call[n].of \subseteq Inputs
    BY <1>1 DEF FormCall
  <2>3. kind.kept => \A f \in call[n].of : new[f] = call[n].to[f]
    BY <2>2
  <2> HIDE DEF new
  <2> QED BY <1>w, <2>1, <2>3
<1>r. ASSUME NEW n \in Sends, TurnDown(n) PROVE OutcomeKnows'
  <2>1. stored' = stored /\ kind' = kind /\ view' = view /\ note' = note
    BY <1>r DEF TurnDown
  <2>2. \A m \in Sends : /\ call'[m].by = call[m].by /\ call'[m].of = call[m].of /\ call'[m].to = call[m].to
                         /\ call'[m].stage = "done" => call[m].stage = "done"
                         /\ call'[m].stage \in {"sent", "refused"} => call[m].stage \in {"sent", "refused"}
    BY <1>r, <1>1 DEF TurnDown, FormCall
  <2>3. \A p \in Views : Awaited(p)' = Awaited(p)
    BY <2>1, <2>2 DEF Awaited, Waits
  <2>4. ASSUME NEW p \in Views PROVE PageKnows(p)'
    <3>1. \A m \in Awaited(p) :
            /\ call'[m].of = call[m].of /\ call'[m].to = call[m].to
            /\ call'[m].stage = "done" => call[m].stage = "done"
            /\ call'[m].stage \in {"sent", "refused"} => call[m].stage \in {"sent", "refused"}
      BY <1>2, <2>2
    <3>2. /\ view'[p].said = view[p].said /\ view'[p].about = view[p].about
          /\ view'[p].dirty = view[p].dirty /\ view'[p].inputs = view[p].inputs
          /\ note'[p].undone = note[p].undone /\ note'[p].before = note[p].before
          /\ note'[p].overlapped = note[p].overlapped /\ note'[p].unsure = note[p].unsure
      BY <2>1
    <3>3. Awaited(p)' \subseteq Awaited(p)
      BY <2>3
    <3> QED BY <1>x, <2>1, <3>1, <3>2, <3>3
  <2> QED BY <1>3, <2>4
\* The other pages, when one hears of a call.
<1>y. ASSUME NEW p \in Views, NEW n \in Sends, HearsNoMore(n), stored' = stored, kind' = kind,
             \A q \in Views \ {p} : view'[q] = view[q] /\ note'[q] = note[q],
             PageKnows(p)'
      PROVE OutcomeKnows'
  <2>1. \A m \in Sends : /\ call'[m].by \in {call[m].by, NoPage} /\ call'[m].stage = call[m].stage
                         /\ call'[m].of = call[m].of /\ call'[m].to = call[m].to
    BY <1>y, <1>1 DEF HearsNoMore, FormCall
  <2>2. ASSUME NEW q \in Views, q # p PROVE PageKnows(q)'
    <3>1. Awaited(q)' \subseteq Awaited(q)
      BY <1>y, <2>1, <2>2 DEF Awaited, Waits
    <3> QED BY <1>q, <1>y, <1>2, <2>1, <2>2, <3>1
  <2> QED BY <1>3, <1>y, <2>2
\* What the page makes of an answer.
<1>i. ASSUME NEW p \in Views, NEW n \in Waits(p), n \in Sends, HearsNoMore(n), stored' = stored, kind' = kind,
             \/ TellSuccess(p, n) /\ (kind.judges => call[n].stage = "done")
             \/ TellFailure(p, n) /\ (call[n].stage = "refused" \/ note'[p].unsure)
             \/ view' = view,
             /\ note'[p].undone = note[p].undone /\ note'[p].before = note[p].before
             /\ note'[p].overlapped = note[p].overlapped
             /\ note[p].unsure => note'[p].unsure
      PROVE PageKnows(p)' /\ \A q \in Views \ {p} : view'[q] = view[q]
  <2>0. \A q \in Views \ {p} : view'[q] = view[q]
    BY <1>i, <1>0, SuccessShown, FailureShown
  <2>1. view'[p].own = view[p].own /\ view'[p].about = view[p].about /\ view'[p].dirty = view[p].dirty
    BY <1>i, <1>0, SuccessShown, FailureShown
  <2>2. Awaited(p)' = Awaited(p) \ {n}
    BY <1>i, <2>1, HearsSame DEF Awaited
  <2>3. \A m \in Awaited(p) : /\ call'[m].of = call[m].of /\ call'[m].to = call[m].to
                              /\ call'[m].stage = call[m].stage
    BY <1>i, <1>1, <1>2 DEF HearsNoMore, FormCall
  <2>a. stored' = stored /\ kind' = kind
    BY <1>i
  <2>b. /\ note'[p].undone = note[p].undone /\ note'[p].before = note[p].before
        /\ note'[p].overlapped = note[p].overlapped
        /\ note[p].unsure => note'[p].unsure
    BY <1>i
  <2>s. SUFFICES PageKnows(p)'
    BY <2>0
  <2>4. CASE view'[p].said = view[p].said /\ view'[p].inputs = view[p].inputs
    <3>1. Awaited(p)' \subseteq Awaited(p)
      BY <2>2
    <3>2. \A m \in Awaited(p) :
            /\ call'[m].of = call[m].of /\ call'[m].to = call[m].to
            /\ call'[m].stage = "done" => call[m].stage = "done"
            /\ call'[m].stage \in {"sent", "refused"} => call[m].stage \in {"sent", "refused"}
      BY <2>3
    <3> QED BY <1>x, <2>a, <2>b, <2>1, <2>4, <3>1, <3>2
  <2>5. CASE ~(view'[p].said = view[p].said /\ view'[p].inputs = view[p].inputs)
    <3> SUFFICES ASSUME kind.guarded \/ ~note[p].overlapped PROVE PageKnows(p)'
      BY <2>a, <2>b DEF PageKnows
    <3>1. n \in Awaited(p)
      BY <1>i, <1>0, <2>5, SuccessShown, FailureShown DEF Awaited
    <3>2. Awaited(p)' = {}
      BY <1>2, <2>2, <3>1 DEF PageKnows
    <3>3. /\ view[p].said = "nothing" /\ view[p].about \subseteq call[n].of
          /\ \A f \in view[p].about \ view[p].dirty : view[p].inputs[f] = call[n].to[f]
          /\ kind.kept /\ call[n].stage = "done" =>
               \A f \in view[p].about \ note[p].undone : stored[f] = call[n].to[f]
          /\ call[n].stage \in {"sent", "refused"} =>
               \A f \in view[p].about \ note[p].undone : stored[f] = note[p].before[f]
      BY <1>2, <3>1 DEF PageKnows
    <3>4. CASE TellSuccess(p, n) /\ (kind.judges => call[n].stage = "done")
      <4>1. view'[p].said \in {"nothing", "saved"} /\ view'[p].inputs = view[p].inputs
            /\ (view'[p].said = "saved" => kind.says)
        BY <1>0, <1>i, <3>3, <3>4, SuccessShown
      <4> QED BY <1>0, <1>i, <2>1, <3>2, <3>3, <3>4, <4>1 DEF PageKnows
    <3>5. CASE TellFailure(p, n) /\ (call[n].stage = "refused" \/ note'[p].unsure)
      <4>1. view'[p].said \in {"nothing", "failed"}
        BY <1>i, <3>3, <3>5, FailureShown
      <4> QED BY <1>i, <2>1, <3>2, <3>3, <3>5, <4>1 DEF PageKnows
    <3> QED BY <1>i, <2>5, <3>4, <3>5
  <2> QED BY <2>4, <2>5
<1>a. ASSUME NEW p \in Views, NEW n \in Waits(p), Answer(p, n) PROVE OutcomeKnows'
  <2>1. n \in Sends /\ stored' = stored /\ kind' = kind /\ HearsNoMore(n)
    BY <1>a DEF Waits, Answer
  <2>2. CASE call[n].stage = "half"
    <3>1. Unsure(p) /\ (TellFailure(p, n) \/ (TellSuccess(p, n) /\ ~kind.judges))
      BY <1>a, <2>2 DEF Answer
    <3>2. /\ note'[p].unsure /\ note'[p].undone = note[p].undone /\ note'[p].before = note[p].before
          /\ note'[p].overlapped = note[p].overlapped
          /\ \A q \in Views \ {p} : note'[q] = note[q]
      BY <3>1, UnsureNotes
    <3> QED BY <1>i, <1>y, <2>1, <3>1, <3>2
  <2>3. CASE call[n].stage # "half"
    <3>1. /\ note' = note
          /\ \/ TellSuccess(p, n) /\ (kind.judges => call[n].stage = "done")
             \/ TellFailure(p, n) /\ call[n].stage = "refused"
      BY <1>a, <1>0, <2>3 DEF Answer, Form
    <3>2. /\ note'[p].undone = note[p].undone /\ note'[p].before = note[p].before
          /\ note'[p].overlapped = note[p].overlapped /\ note'[p].unsure = note[p].unsure
          /\ \A q \in Views \ {p} : note'[q] = note[q]
      BY <3>1
    <3> QED BY <1>i, <1>y, <2>1, <3>1, <3>2
  <2> QED BY <2>2, <2>3
<1>b. ASSUME NEW p \in Views, NEW n \in Waits(p), LoseAnswer(p, n) PROVE OutcomeKnows'
  <2>1. n \in Sends /\ stored' = stored /\ kind' = kind /\ HearsNoMore(n)
    BY <1>b DEF Waits, LoseAnswer
  <2>2. CASE kind.loss # "page"
    <3>1. Unsure(p) /\ (TellFailure(p, n) \/ view' = view)
      BY <1>b, <2>2 DEF LoseAnswer
    <3>2. /\ note'[p].unsure /\ note'[p].undone = note[p].undone /\ note'[p].before = note[p].before
          /\ note'[p].overlapped = note[p].overlapped
          /\ \A q \in Views \ {p} : note'[q] = note[q]
      BY <3>1, UnsureNotes
    <3> QED BY <1>i, <1>y, <2>1, <3>1, <3>2
  <2>3. CASE kind.loss = "page"
    <3>1. view'[p] = Mounted(view[p].shown) /\ \A q \in Views \ {p} : view'[q] = view[q]
      BY <1>b, <1>1, <2>3 DEF LoseAnswer, Renders
    <3>2. \A q \in Views \ {p} : note'[q] = note[q]
      BY <1>b, <1>1, <2>3 DEF LoseAnswer, Notes
    <3>3. Awaited(p)' = {}
      BY <3>1 DEF Mounted, Awaited
    <3>4. PageKnows(p)'
      BY <1>z, <2>1, <3>1, <3>3 DEF Mounted
    <3> QED BY <1>y, <2>1, <3>1, <3>2, <3>4
  <2> QED BY <2>2, <2>3
<1>f. ASSUME NEW p \in Views, Refresh(p) PROVE OutcomeKnows'
  <2> DEFINE v == [view[p] EXCEPT !.shown = stored, !.asks = FALSE]
             k == [note[p] EXCEPT !.behind = {}, !.crossed = {}]
  <2>1. view' = [view EXCEPT ![p] = v] /\ note' = [note EXCEPT ![p] = k] /\ stored' = stored
        /\ kind' = kind /\ call' = call
    BY <1>f DEF Refresh, Renders, Notes
  <2>2. view'[p] = v /\ note'[p] = k /\ \A q \in Views \ {p} : view'[q] = view[q] /\ note'[q] = note[q]
    BY <1>1, <2>1
  <2>3. /\ v.said = view[p].said /\ v.about = view[p].about /\ v.dirty = view[p].dirty
        /\ v.inputs = view[p].inputs /\ v.own = view[p].own
        /\ k.undone = note[p].undone /\ k.before = note[p].before
        /\ k.overlapped = note[p].overlapped /\ k.unsure = note[p].unsure
    BY <1>1 DEF View, Note
  <2> HIDE DEF v, k
  <2>4. \A q \in Views : Awaited(q)' = Awaited(q)
    BY <2>1, <2>2, <2>3 DEF Awaited, Waits
  <2>5. PageKnows(p)'
    BY <1>x, <2>1, <2>2, <2>3, <2>4
  <2>6. ASSUME NEW q \in Views, q # p PROVE PageKnows(q)'
    BY <1>q, <2>1, <2>2, <2>4, <2>6
  <2> QED BY <1>3, <2>5, <2>6
<1>t. ASSUME NEW p \in Views, NEW open \in BOOLEAN, Retake(p, open) PROVE OutcomeKnows'
  <2> DEFINE own == IF kind.retakes THEN {} ELSE view[p].own
             v == [Mounted(view[p].shown) EXCEPT !.open = open, !.asks = view[p].asks, !.own = own]
             k == [note[p] EXCEPT !.moved = note[p].behind]
  <2>1. view' = [view EXCEPT ![p] = v] /\ note' = [note EXCEPT ![p] = k] /\ stored' = stored
        /\ kind' = kind /\ call' = call
    BY <1>t DEF Retake, Retaken, Renders, Notes
  <2>2. view'[p] = v /\ note'[p] = k /\ \A q \in Views \ {p} : view'[q] = view[q] /\ note'[q] = note[q]
    BY <1>1, <2>1
  <2>3. v.said = "nothing" /\ v.about = {} /\ v.own \subseteq view[p].own /\ k.overlapped = note[p].overlapped
    BY <1>1 DEF Mounted, Note
  <2> HIDE DEF v, k
  <2>4. Awaited(p)' \subseteq Awaited(p) /\ \A q \in Views \ {p} : Awaited(q)' = Awaited(q)
    BY <2>1, <2>2, <2>3 DEF Awaited, Waits
  <2>5. PageKnows(p)'
    BY <1>z, <2>1, <2>2, <2>3, <2>4
  <2>6. ASSUME NEW q \in Views, q # p PROVE PageKnows(q)'
    BY <1>q, <2>1, <2>2, <2>4, <2>6
  <2> QED BY <1>3, <2>5, <2>6
<1>p. ASSUME NEW p \in Views, Reopen(p) PROVE OutcomeKnows'
  <2>1. CASE kind.retakes
    BY <1>p, <1>t, <2>1 DEF Reopen
  <2>2. CASE ~kind.retakes
    <3> DEFINE v == [view[p] EXCEPT !.open = TRUE]
    <3>1. view' = [view EXCEPT ![p] = v] /\ stored' = stored /\ kind' = kind /\ call' = call /\ note' = note
      BY <1>p, <2>2 DEF Reopen, Renders
    <3>2. view'[p] = v /\ \A q \in Views \ {p} : view'[q] = view[q]
      BY <1>1, <3>1
    <3>3. /\ v.said = view[p].said /\ v.about = view[p].about /\ v.dirty = view[p].dirty
          /\ v.inputs = view[p].inputs /\ v.own = view[p].own
      BY <1>1 DEF View
    <3> HIDE DEF v
    <3>4. \A q \in Views : Awaited(q)' = Awaited(q)
      BY <3>1, <3>2, <3>3 DEF Awaited, Waits
    <3>5. PageKnows(p)'
      BY <1>x, <3>1, <3>2, <3>3, <3>4
    <3>6. ASSUME NEW q \in Views, q # p PROVE PageKnows(q)'
      BY <1>q, <3>1, <3>2, <3>4, <3>6
    <3> QED BY <1>3, <3>5, <3>6
  <2> QED BY <2>1, <2>2
<1> QED BY <1>u, <1>l, <1>e, <1>v, <1>h, <1>m, <1>r, <1>a, <1>b, <1>f, <1>t, <1>p
     DEF FormNext, CancelForm

\* The invariant holds at the start.
LEMMA FormsStart == FormInit => SendsKnow /\ ShownKnows /\ InputsKnow /\ OutcomeKnows
<1> SUFFICES ASSUME FormInit PROVE SendsKnow /\ ShownKnows /\ InputsKnow /\ OutcomeKnows
  OBVIOUS
<1> USE FormAssumption
<1>1. \A n \in Sends : call[n].by = NoPage /\ call[n].stage = "none"
  BY DEF FormInit
<1>2. \A p \in Views : view[p] = Mounted(stored)
  BY DEF FormInit
<1>m. LET v == Mounted(stored) IN v.shown = stored /\ v.own = {} /\ v.said = "nothing" /\ v.about = {}
                               /\ (kind.fromRow => \A f \in Inputs : v.inputs[f] = Taken(kind, f, stored[f]))
  BY DEF Mounted
<1>3. \A p \in Views : /\ view[p].shown = stored /\ view[p].own = {} /\ view[p].said = "nothing"
                       /\ view[p].about = {} /\ (kind.fromRow => \A f \in Inputs : view[p].inputs[f] = Taken(kind, f, stored[f]))
  BY <1>2, <1>m
<1>4. \A p \in Views : Awaited(p) = {} /\ note[p].behind = {}
  BY <1>3 DEF Awaited, FormInit, Unmoved
<1>5. SendsKnow /\ ShownKnows
  BY <1>1, <1>3, <1>4 DEF SendsKnow, ShownKnows
<1>6. InputsKnow
  BY <1>1, <1>3, <1>4 DEF InputsKnow
<1>7. OutcomeKnows
  BY <1>3, <1>4 DEF OutcomeKnows, PageKnows
<1> QED BY <1>5, <1>6, <1>7

FormInv == FormTypeOK /\ SendsKnow /\ ShownKnows /\ InputsKnow /\ OutcomeKnows

\* The invariant of the forms.
LEMMA FormInvariant == FormSpec => []FormInv
<1>1. FormInit => FormInv
  BY FormInitTypeOK, FormsStart DEF FormInv
<1>2. FormInv /\ [FormNext]_formVars => FormInv'
  BY FormNextTypeOK, SendsKept, ShownKept, InputsKept, OutcomeKept DEF FormInv
<1> QED BY <1>1, <1>2, PTL DEF FormSpec

\* For any number of pages and calls, whichever the form: what it says became of
\* its call is so, but for a page that cannot know (settings-form.tsx and the
\* other forms).
THEOREM OutcomesAreTold == FormSpec => []OutcomeIsTold
<1>1. FormInv => OutcomeIsTold
  BY DEF FormInv, OutcomeKnows, PageKnows, OutcomeIsTold
<1> QED BY <1>1, FormInvariant, PTL

\* For any number of pages and calls: a page at rest, of a form that reads the row
\* again, shows the row, but for what came from elsewhere (settings-form.tsx and
\* the other forms).
THEOREM RowsAreShown == FormSpec => []ShownIsRow
<1>1. FormInv => ShownIsRow
  BY DEF FormInv, ShownKnows, ShownIsRow
<1> QED BY <1>1, FormInvariant, PTL

\* For any number of pages and calls: what a page says of its saves and what it
\* shows of the row is so (settings-form.tsx and the other forms).
THEOREM PagesAreRight == FormSpec => []PageIsRight
BY OutcomesAreTold, RowsAreShown, PTL DEF PageIsRight

\* For any number of pages and calls: a save leaves a field that was not edited as it
\* is, or makes it what the form mounted for it; another value is put there only if
\* somebody changed the field after the form had taken it over (settings-form.tsx
\* and the other forms).
THEOREM SavesEditOnly == FormSpec => SavesOnlyEdits
<1> DEFINE Edits == \A n \in Sends : kind.fromRow /\ call[n].stage # "done" /\ call'[n].stage = "done" =>
       \A f \in Inputs \ (call[n].touched \cup call[n].moved) :
         stored'[f] \in {stored[f], Taken(kind, f, stored[f])}
<1>1. FormInv /\ [FormNext]_formVars => [Edits]_formVars
  <2> SUFFICES ASSUME FormInv, FormNext, NEW n \in Sends, kind.fromRow,
                      call[n].stage # "done", call'[n].stage = "done",
                      NEW f \in Inputs \ (call[n].touched \cup call[n].moved)
               PROVE stored'[f] \in {stored[f], Taken(kind, f, stored[f])}
    OBVIOUS
  <2>0. FormTypeOK /\ call \in [Sends -> FormCall]
    BY DEF FormInv, FormTypeOK
  <2>1. ASSUME NEW m \in Sends, Commit(m) PROVE stored'[f] \in {stored[f], Taken(kind, f, stored[f])}
    <3> DEFINE new == [g \in Inputs |-> IF kind.kept /\ g \in call[m].of THEN call[m].to[g] ELSE stored[g]]
    <3>1. Write(m, new) /\ new \in Rows /\ call[m].stage = "sent"
      BY <2>0, <2>1, CommitWrites DEF Commit
    <3>2. new[f] \in {call[m].to[f], stored[f]}
      OBVIOUS
    <3> HIDE DEF new
    <3>3. Written(m, new)
      BY <2>0, <3>1, WriteNotes
    <3>4. m = n /\ stored' = new
      BY <3>3 DEF Written
    <3>5. call[n].to[f] = Taken(kind, f, stored[f])
      BY <3>1, <3>4 DEF FormInv, InputsKnow
    <3> QED BY <3>2, <3>4, <3>5
  <2>2. CASE ~\E m \in Sends : Commit(m)
    BY <2>0, <2>2 DEF FormNext, Load, Refresh, CancelForm, Reopen, Retake, EditInput, SaveInputs,
       Choose, Send,
       Answer, LoseAnswer, HearsNoMore, TurnDown
  <2> QED BY <2>1, <2>2
<1>2. FormSpec => [][Edits]_formVars
  BY <1>1, FormInvariant, PTL DEF FormSpec
<1> QED BY <1>2 DEF SavesOnlyEdits

(***************************************************************************)
(* AppRoleSelect                                                           *)
(***************************************************************************)

\* A call that a page waits for names a role, and what was chosen is another than before.
ChoiceKnows ==
  \A p \in RolePages :
    /\ select[p].step = "remove" => select[p].before # NoRole
    /\ select[p].step = "assign" => select[p].shown # NoRole
    /\ ~AtRest(p) => select[p].before # select[p].shown

\* How far the change of a page has come, as long as nobody else changes the bindings ...
StepIsBound(p) ==
  /\ AtRest(p) /\ ~select[p].error =>
       (select[p].shown # NoRole => select[p].shown \in bindings) /\ select[p].before \notin bindings
  /\ select[p].step = "remove" /\ select[p].reply = "done" => select[p].before \notin bindings
  /\ select[p].step = "assign" =>
       /\ select[p].before \notin bindings
       /\ select[p].reply = "done" => select[p].shown \in bindings

\* ... and all that a page knows to be bound.
AllIsKnown(p) ==
  /\ AtRest(p) => bindings \subseteq {select[p].shown}
  /\ select[p].step = "remove" => bindings \subseteq {select[p].before}
  /\ select[p].step = "remove" /\ select[p].reply \in {"done", "half"} => bindings = {}
  /\ select[p].step = "assign" =>
       bindings \subseteq IF select[p].reply \in {"done", "half"} THEN {select[p].shown} ELSE {}

SelectKnows ==
  \A p \in RolePages : (p \notin disturbed => StepIsBound(p)) /\ (p \notin unaware => AllIsKnown(p))

SelectInv == SelectTypeOK /\ ChoiceKnows /\ SelectKnows

\* A call of a page is of the type.
LEMMA CallOfType ==
  ASSUME SelectTypeOK, ChoiceKnows, NEW p \in RolePages
  PROVE (~AtRest(p) => CallOf(p) \in RoleCall) /\ Unheard(p) \subseteq RoleCall
<1>1. select[p] \in Select
  BY DEF SelectTypeOK
<1>2. ~AtRest(p) => CallOf(p) \in RoleCall
  BY <1>1, RoleSelectAssumption DEF ChoiceKnows, AtRest, CallOf, RoleCall, Select, Chosen
<1> QED BY <1>2 DEF Unheard

\* Every step keeps the type, and what a choice knows.
LEMMA SelectTypeKept ==
  ASSUME SelectTypeOK, ChoiceKnows, [SelectNext]_selectVars PROVE SelectTypeOK' /\ ChoiceKnows'
<1> USE RoleSelectAssumption
<1>0. \A p \in RolePages : select[p] \in Select /\ Unheard(p) \subseteq RoleCall
  BY CallOfType DEF SelectTypeOK
<1>r. \A r \in Chosen : SelectShows(r) \in Select
  BY DEF SelectShows, Select, Chosen
\* The select of one page changes.
<1>x. ASSUME NEW p \in RolePages, NEW s \in Select, select' = [select EXCEPT ![p] = s],
             s.step = "remove" => s.before # NoRole, s.step = "assign" => s.shown # NoRole,
             s.step # "rest" => s.before # s.shown
      PROVE select' \in [RolePages -> Select] /\ ChoiceKnows'
  BY <1>x DEF SelectTypeOK, ChoiceKnows, AtRest
<1>u. CASE UNCHANGED selectVars
  BY <1>u DEF selectVars, roleHistory, SelectTypeOK, ChoiceKnows, AtRest
<1>l. ASSUME NEW p \in RolePages, LoadSelect(p) PROVE SelectTypeOK' /\ ChoiceKnows'
  <2>1. PICK r \in Chosen : /\ select' = [select EXCEPT ![p] = SelectShows(r)]
                            /\ late' = late \cup Unheard(p) /\ disturbed' = disturbed \ {p}
                            /\ unaware' \subseteq unaware \cup {p}
                            /\ UNCHANGED <<bindings, choices>>
    BY <1>l DEF LoadSelect, SelectTypeOK, Chosen
  <2>2. select' \in [RolePages -> Select] /\ ChoiceKnows'
    BY <1>x, <1>r, <2>1 DEF SelectShows
  <2> QED BY <1>0, <2>1, <2>2 DEF SelectTypeOK
<1>h. ASSUME NEW p \in RolePages, NEW r \in Chosen, ChooseRole(p, r) PROVE SelectTypeOK' /\ ChoiceKnows'
  <2> DEFINE s == [shown |-> r, before |-> select[p].shown,
                   step |-> IF select[p].shown = NoRole THEN "assign" ELSE "remove",
                   reply |-> "none", error |-> FALSE]
  <2>1. s \in Select
    BY <1>0 DEF Select
  <2>2. select' = [select EXCEPT ![p] = s] /\ r # select[p].shown
    BY <1>h DEF ChooseRole
  <2>3. select' \in [RolePages -> Select] /\ ChoiceKnows'
    BY <1>x, <2>1, <2>2
  <2> QED BY <1>h, <2>3 DEF ChooseRole, SelectTypeOK
\* The bindings and the history keep their types.
<1>b. ASSUME NEW new \in SUBSET AppRoles, NEW own, Binds(new, own)
      PROVE bindings' \subseteq AppRoles /\ disturbed' \subseteq RolePages /\ unaware' \subseteq RolePages
  BY <1>b DEF Binds, SelectTypeOK
<1>c. ASSUME NEW p \in RolePages, CarryOut(p) PROVE SelectTypeOK' /\ ChoiceKnows'
  <2> DEFINE s == [select[p] EXCEPT !.reply = "done"]
  <2>1. s \in Select /\ s.step = select[p].step /\ s.before = select[p].before /\ s.shown = select[p].shown
    BY <1>0 DEF Select
  <2>2. select' = [select EXCEPT ![p] = s]
    BY <1>c DEF CarryOut
  <2> HIDE DEF s
  <2>3. select' \in [RolePages -> Select] /\ ChoiceKnows'
    BY <1>x, <2>1, <2>2 DEF ChoiceKnows, AtRest
  <2>4. CallOf(p) \in RoleCall
    BY <1>c, CallOfType DEF CarryOut
  <2>5. Carried(CallOf(p)) \in SUBSET AppRoles
    BY <2>4 DEF Carried, RoleCall, SelectTypeOK
  <2> QED BY <1>c, <1>b, <2>3, <2>5 DEF CarryOut, SelectTypeOK
<1>t. ASSUME NEW p \in RolePages, TurnAway(p) PROVE SelectTypeOK' /\ ChoiceKnows'
  <2> DEFINE s == [select[p] EXCEPT !.reply = IF @ = "none" THEN "refused" ELSE "half"]
  <2>1. s \in Select /\ s.step = select[p].step /\ s.before = select[p].before /\ s.shown = select[p].shown
    BY <1>0 DEF Select
  <2>2. select' = [select EXCEPT ![p] = s]
    BY <1>t DEF TurnAway
  <2> HIDE DEF s
  <2>3. select' \in [RolePages -> Select] /\ ChoiceKnows'
    BY <1>x, <2>1, <2>2 DEF ChoiceKnows, AtRest
  <2> QED BY <1>t, <2>3 DEF TurnAway, SelectTypeOK, roleHistory
<1>d. ASSUME NEW p \in RolePages, HearDone(p) PROVE SelectTypeOK' /\ ChoiceKnows'
  <2> DEFINE st == IF select[p].step = "remove" /\ select[p].shown # NoRole THEN "assign" ELSE "rest"
             s == [select[p] EXCEPT !.step = st, !.reply = "none"]
  <2>1. s \in Select /\ s.step = st /\ s.before = select[p].before /\ s.shown = select[p].shown
    BY <1>0 DEF Select
  <2>2. select' = [select EXCEPT ![p] = s]
    BY <1>d DEF HearDone
  <2>3. st # "remove" /\ (st = "assign" => select[p].shown # NoRole)
    OBVIOUS
  <2>4. st # "rest" => select[p].before # select[p].shown
    BY DEF ChoiceKnows, AtRest
  <2> HIDE DEF st, s
  <2>5. select' \in [RolePages -> Select] /\ ChoiceKnows'
    BY <1>x, <2>1, <2>2, <2>3, <2>4
  <2> QED BY <1>d, <2>5 DEF HearDone, SelectTypeOK, roleHistory
<1>f. ASSUME NEW p \in RolePages, HearFailure(p) PROVE SelectTypeOK' /\ ChoiceKnows'
  <2>1. FallenBack(select[p]) \in Select /\ FallenBack(select[p]).step = "rest"
    BY <1>0 DEF FallenBack, SelectShows, Select, Chosen
  <2>2. select' = [select EXCEPT ![p] = FallenBack(select[p])]
    BY <1>f DEF HearFailure
  <2>3. select' \in [RolePages -> Select] /\ ChoiceKnows'
    BY <1>x, <2>1, <2>2
  <2> QED BY <1>0, <1>f, <2>3 DEF HearFailure, SelectTypeOK
<1>a. ASSUME NEW c \in late, CarryOutLate(c) PROVE SelectTypeOK' /\ ChoiceKnows'
  <2>1. Carried(c) \in SUBSET AppRoles
    BY DEF Carried, RoleCall, SelectTypeOK
  <2> QED BY <1>a, <1>b, <2>1 DEF CarryOutLate, SelectTypeOK, ChoiceKnows, AtRest, roleHistory
<1>p. ASSUME ReplaceRoles PROVE SelectTypeOK' /\ ChoiceKnows'
  BY <1>p, <1>b DEF ReplaceRoles, SelectTypeOK, ChoiceKnows, AtRest
<1> QED BY <1>u, <1>l, <1>h, <1>c, <1>t, <1>d, <1>f, <1>a, <1>p DEF SelectNext

\* Every step keeps what the pages know of the bindings.
LEMMA SelectKept ==
  ASSUME SelectInv, [SelectNext]_selectVars PROVE SelectKnows'
<1> USE RoleSelectAssumption DEF AtRest
<1>0. /\ select \in [RolePages -> Select] /\ bindings \subseteq AppRoles
      /\ \A p \in RolePages : select[p] \in Select
  BY DEF SelectInv, SelectTypeOK
<1> DEFINE Bound(p) == p \notin disturbed => StepIsBound(p)
           Known(p) == p \notin unaware => AllIsKnown(p)
<1>1. \A p \in RolePages : Bound(p) /\ Known(p)
  BY DEF SelectInv, SelectKnows
<1>2. (\A p \in RolePages : Bound(p)' /\ Known(p)') => SelectKnows'
  BY DEF SelectKnows
\* A page that keeps its select, when others leave the bindings or it is noted.
<1>o. ASSUME NEW q \in RolePages, select'[q] = select[q],
             \/ /\ bindings' = bindings /\ (q \notin disturbed' => q \notin disturbed)
                /\ (q \notin unaware' => q \notin unaware)
             \/ q \in disturbed' /\ q \in unaware'
      PROVE Bound(q)' /\ Known(q)'
  BY <1>o, <1>1 DEF StepIsBound, AllIsKnown
<1>u. CASE UNCHANGED selectVars
  BY <1>u, <1>o, <1>2 DEF selectVars, roleHistory
\* One page has changed.
<1>x. ASSUME NEW p \in RolePages, NEW s, select' = [select EXCEPT ![p] = s],
             \A q \in RolePages \ {p} :
               \/ /\ bindings' = bindings /\ (q \notin disturbed' => q \notin disturbed)
                  /\ (q \notin unaware' => q \notin unaware)
               \/ q \in disturbed' /\ q \in unaware',
             Bound(p)', Known(p)'
      PROVE SelectKnows'
  <2>1. \A q \in RolePages \ {p} : Bound(q)' /\ Known(q)'
    BY <1>x, <1>o, <1>0
  <2> QED BY <1>x, <1>2, <2>1
<1>l. ASSUME NEW p \in RolePages, LoadSelect(p) PROVE SelectKnows'
  <2>1. PICK r \in IF bindings = {} THEN {NoRole} ELSE bindings :
          /\ select' = [select EXCEPT ![p] = SelectShows(r)] /\ bindings' = bindings
          /\ disturbed' = disturbed \ {p}
          /\ unaware' = IF bindings \subseteq {r} THEN unaware \ {p} ELSE unaware \cup {p}
    BY <1>l DEF LoadSelect
  <2>2. select'[p] = SelectShows(r)
    BY <1>0, <2>1
  <2>3. Bound(p)' /\ Known(p)'
    BY <1>0, <2>1, <2>2 DEF StepIsBound, AllIsKnown, SelectShows
  <2> QED BY <1>x, <2>1, <2>3
<1>h. ASSUME NEW p \in RolePages, NEW r \in Chosen, ChooseRole(p, r) PROVE SelectKnows'
  <2> DEFINE s == [shown |-> r, before |-> select[p].shown,
                   step |-> IF select[p].shown = NoRole THEN "assign" ELSE "remove",
                   reply |-> "none", error |-> FALSE]
  <2>1. /\ select' = [select EXCEPT ![p] = s] /\ bindings' = bindings /\ disturbed' = disturbed \ {p}
        /\ unaware' = unaware /\ select[p].step = "rest"
    BY <1>h DEF ChooseRole
  <2>2. select'[p] = s
    BY <1>0, <2>1
  <2>3. NoRole \notin bindings
    BY <1>0
  <2>4. Bound(p)' /\ Known(p)'
    BY <1>1, <2>1, <2>2, <2>3 DEF StepIsBound, AllIsKnown
  <2> QED BY <1>x, <2>1, <2>4
<1>c. ASSUME NEW p \in RolePages, CarryOut(p) PROVE SelectKnows'
  <2> DEFINE s == [select[p] EXCEPT !.reply = "done"]
  <2>1. /\ s.step = select[p].step /\ s.before = select[p].before /\ s.shown = select[p].shown
        /\ s.reply = "done" /\ s.error = select[p].error
    BY <1>0 DEF Select
  <2>2. select' = [select EXCEPT ![p] = s] /\ select[p].step # "rest" /\ select[p].reply = "none"
    BY <1>c DEF CarryOut
  <2> HIDE DEF s
  <2>3. select'[p] = s
    BY <1>0, <2>2
  <2>4. /\ bindings' = Carried(CallOf(p))
        /\ disturbed' = IF bindings' = bindings THEN disturbed ELSE disturbed \cup (RolePages \ {p})
        /\ unaware' = IF bindings' = bindings THEN unaware ELSE unaware \cup (RolePages \ {p})
    BY <1>c DEF CarryOut, Binds
  <2>5. /\ select[p].step = "remove" => bindings' = bindings \ {select[p].before}
        /\ select[p].step = "assign" => bindings' = bindings \cup {select[p].shown}
    BY <2>4 DEF Carried, CallOf
  <2>6. select[p].step \in {"remove", "assign"} /\ select[p].before # select[p].shown
    BY <1>0, <2>2 DEF Select, SelectInv, ChoiceKnows
  <2>7. p \in disturbed' <=> p \in disturbed
    BY <2>4
  <2>8. p \in unaware' <=> p \in unaware
    BY <2>4
  <2>9. Bound(p)' /\ Known(p)'
    BY <1>1, <2>1, <2>2, <2>3, <2>5, <2>6, <2>7, <2>8 DEF StepIsBound, AllIsKnown
  <2>10. ASSUME NEW q \in RolePages \ {p}
         PROVE \/ /\ bindings' = bindings /\ (q \notin disturbed' => q \notin disturbed)
                  /\ (q \notin unaware' => q \notin unaware)
               \/ q \in disturbed' /\ q \in unaware'
    BY <2>4
  <2> QED BY <1>x, <2>2, <2>9, <2>10
<1>t. ASSUME NEW p \in RolePages, TurnAway(p) PROVE SelectKnows'
  <2> DEFINE reply == IF select[p].reply = "none" THEN "refused" ELSE "half"
             s == [select[p] EXCEPT !.reply = reply]
  <2>1. /\ s.step = select[p].step /\ s.before = select[p].before /\ s.shown = select[p].shown
        /\ s.reply = reply /\ s.error = select[p].error
    BY <1>0 DEF Select
  <2>2. /\ select' = [select EXCEPT ![p] = s] /\ select[p].step # "rest"
        /\ select[p].reply \in {"none", "done"}
        /\ bindings' = bindings /\ disturbed' = disturbed /\ unaware' = unaware
    BY <1>t DEF TurnAway, roleHistory
  <2> HIDE DEF s
  <2>3. select'[p] = s
    BY <1>0, <2>2
  <2>4. Bound(p)' /\ Known(p)'
    BY <1>1, <2>1, <2>2, <2>3 DEF StepIsBound, AllIsKnown
  <2> QED BY <1>x, <2>2, <2>4
<1>d. ASSUME NEW p \in RolePages, HearDone(p) PROVE SelectKnows'
  <2> DEFINE step == IF select[p].step = "remove" /\ select[p].shown # NoRole THEN "assign" ELSE "rest"
             s == [select[p] EXCEPT !.step = step, !.reply = "none"]
  <2>1. /\ s.step = step /\ s.before = select[p].before /\ s.shown = select[p].shown
        /\ s.reply = "none" /\ s.error = select[p].error
    BY <1>0 DEF Select
  <2>2. /\ select' = [select EXCEPT ![p] = s] /\ select[p].reply = "done"
        /\ bindings' = bindings /\ disturbed' = disturbed /\ unaware' = unaware
    BY <1>d DEF HearDone, roleHistory
  <2> HIDE DEF s
  <2>3. select'[p] = s
    BY <1>0, <2>2
  <2>4. select[p].step \in {"rest", "remove", "assign"}
    BY <1>0 DEF Select
  <2>5. Bound(p)' /\ Known(p)'
    BY <1>1, <2>1, <2>2, <2>3, <2>4 DEF StepIsBound, AllIsKnown
  <2> QED BY <1>x, <2>2, <2>5
<1>f. ASSUME NEW p \in RolePages, HearFailure(p) PROVE SelectKnows'
  <2> DEFINE s == FallenBack(select[p])
  <2>1. s.step = "rest" /\ s.shown = select[p].before /\ s.error
    BY DEF FallenBack, SelectShows
  <2>2. /\ select' = [select EXCEPT ![p] = s] /\ select[p].step # "rest"
        /\ bindings' = bindings /\ disturbed' = disturbed
        /\ unaware' = IF select[p].step = "assign" /\ select[p].reply \in {"done", "half"}
                      THEN unaware \cup {p} ELSE unaware
    BY <1>f DEF HearFailure
  <2> HIDE DEF s
  <2>3. select'[p] = s
    BY <1>0, <2>2
  <2>4. select[p].step \in {"remove", "assign"}
    BY <1>0, <2>2 DEF Select
  <2>5. Bound(p)' /\ Known(p)'
    BY <1>1, <2>1, <2>2, <2>3, <2>4 DEF StepIsBound, AllIsKnown
  <2> QED BY <1>x, <2>2, <2>5
\* The bindings change from elsewhere.
<1>b. ASSUME NEW new, Binds(new, {}), select' = select PROVE SelectKnows'
  BY <1>b, <1>o, <1>2 DEF Binds
<1>a. ASSUME NEW c \in late, CarryOutLate(c) PROVE SelectKnows'
  <2>1. CASE Binds(Carried(c), {})
    BY <1>a, <1>b, <2>1 DEF CarryOutLate
  <2>2. CASE UNCHANGED <<bindings, roleHistory>>
    BY <1>a, <1>o, <1>2, <2>2 DEF CarryOutLate, roleHistory
  <2> QED BY <1>a, <2>1, <2>2 DEF CarryOutLate
<1>p. ASSUME ReplaceRoles PROVE SelectKnows'
  BY <1>p, <1>b DEF ReplaceRoles
<1> QED BY <1>u, <1>l, <1>h, <1>c, <1>t, <1>d, <1>f, <1>a, <1>p DEF SelectNext

\* The invariant of the selects.
LEMMA SelectInvariant == SelectSpec => []SelectInv
<1>1. SelectInit => SelectInv
  <2> SUFFICES ASSUME SelectInit PROVE SelectInv
    OBVIOUS
  <2>1. \A p \in RolePages : select[p] = SelectShows(NoRole)
    BY DEF SelectInit
  <2>2. SelectShows(NoRole) \in Select
    BY DEF SelectShows, Select, Chosen
  <2>3. SelectTypeOK
    BY <2>2, RoleSelectAssumption DEF SelectInit, SelectTypeOK
  <2>4. ChoiceKnows /\ SelectKnows
    BY <2>1 DEF SelectInit, ChoiceKnows, SelectKnows, StepIsBound, AllIsKnown, SelectShows, AtRest
  <2> QED BY <2>3, <2>4 DEF SelectInv
<1>2. SelectInv /\ [SelectNext]_selectVars => SelectInv'
  BY SelectTypeKept, SelectKept DEF SelectInv
<1> QED BY <1>1, <1>2, PTL DEF SelectSpec

\* Every variable of the select of app roles keeps its type (app-role-assignments.tsx).
THEOREM SelectTypeCorrect == SelectSpec => []SelectTypeOK
<1>1. SelectInv => SelectTypeOK
  BY DEF SelectInv
<1> QED BY <1>1, SelectInvariant, PTL

\* For any number of pages, roles and changes: the select of a page shows a role
\* that the member holds, and no other that the page could know of
\* (app-role-assignments.tsx).
THEOREM SelectsAreRight == SelectSpec => []SelectIsRight
<1>1. SelectInv => SelectIsRight
  BY DEF SelectInv, SelectKnows, StepIsBound, AllIsKnown, SelectIsRight
<1> QED BY <1>1, SelectInvariant, PTL
============================================================================
