----------------------- MODULE ChallengeController_proofs ----------------------
(***************************************************************************)
(* What the Challenge controller keeps in every system it is part of, with *)
(* the instance controller (Kubeflag) as with the DataSyncer controller    *)
(* (References): the types of its variables, what it has in hand at each   *)
(* stage of a visit, and which versions of the Challenge it has read.      *)
(***************************************************************************)
EXTENDS ChallengeController, FiniteSetTheorems, SequenceTheorems, TLAPS

-----------------------------------------------------------------------------
(* The Challenge *)

Version == {c \in Challenge : c.st # "absent" => c.tpl \in Templates}

\* What a loop over references has before it.
RefLists == {<<"secret">>, <<"configmap">>, <<"secret", "configmap">>}

\* The types of what belongs to the challenge controller, and what holds at
\* its stages.
ChalInv ==
    /\ chal \in Version /\ chC \in Version /\ chObj \in Version
    /\ nsC \in {"active", "terminating", "absent"}
    /\ chQueued \in BOOLEAN
    /\ chPc \in ChSteps
    /\ chPc = "idle" => chObj = NoChallenge
    /\ chPc # "idle" => chObj.st # "absent"
    /\ chPc = "expose" => WithPort(chObj.tpl) # {} /\ chObj.fins # {}
    /\ chPc \in {"evict", "purge deployment", "purge service"} => todo # << >>
    /\ chPc \in {"annotate", "unannotate"} => todo \in RefLists
    /\ edits \in Nat
    /\ errors \in Nat

\* A record that differs in fields of the right type is a Challenge again.
LEMMA NoChallengeType ==
    /\ NoChallenge \in Version
    /\ NoChallenge.st = "absent"
    /\ \A r \in Nat : [NoChallenge EXCEPT !.rev = r] \in Version
    /\ \A r \in Nat : /\ [NoChallenge EXCEPT !.rev = r].fins = {}
                      /\ [NoChallenge EXCEPT !.rev = r].rev = r
                      /\ [NoChallenge EXCEPT !.rev = r].st = "absent"
BY DEF NoChallenge, Version, Challenge, Names

LEMMA HealthyType ==
    ASSUME NEW c \in Version, NEW h \in BOOLEAN
    PROVE  /\ [c EXCEPT !.healthy = h] \in Version
           /\ [c EXCEPT !.healthy = h].st = c.st
           /\ [c EXCEPT !.healthy = h].tpl = c.tpl
           /\ [c EXCEPT !.healthy = h].exposed = c.exposed
           /\ [c EXCEPT !.healthy = h].fins = c.fins
           /\ [c EXCEPT !.healthy = h].rev = c.rev
           /\ [c EXCEPT !.healthy = h].hash = c.hash
           /\ [c EXCEPT !.healthy = h].refs = c.refs
           /\ [c EXCEPT !.healthy = h].healthy = h
<1>. DEFINE d == [c EXCEPT !.healthy = h]
<1>1. d \in Challenge
  BY DEF Version, Challenge
<1>2. d.st = c.st /\ d.tpl = c.tpl
  BY DEF Version, Challenge
<1>3. d.exposed = c.exposed
  BY DEF Version, Challenge
<1>4. d.fins = c.fins
  BY DEF Version, Challenge
<1>5. d.rev = c.rev
  BY DEF Version, Challenge
<1>6. d.healthy = h
  BY DEF Version, Challenge
<1>7. d.hash = c.hash
  BY DEF Version, Challenge
<1>8. d.refs = c.refs
  BY DEF Version, Challenge
<1>. QED
  BY <1>1, <1>2, <1>3, <1>4, <1>5, <1>6, <1>7, <1>8 DEF Version

LEMMA ExposedType ==
    ASSUME NEW c \in Version, NEW e \in Names
    PROVE  /\ [c EXCEPT !.exposed = e] \in Version
           /\ [c EXCEPT !.exposed = e].st = c.st
           /\ [c EXCEPT !.exposed = e].tpl = c.tpl
           /\ [c EXCEPT !.exposed = e].exposed = e
           /\ [c EXCEPT !.exposed = e].fins = c.fins
           /\ [c EXCEPT !.exposed = e].rev = c.rev
           /\ [c EXCEPT !.exposed = e].hash = c.hash
           /\ [c EXCEPT !.exposed = e].refs = c.refs
           /\ [c EXCEPT !.exposed = e].healthy = c.healthy
<1>. DEFINE d == [c EXCEPT !.exposed = e]
<1>1. d \in Challenge
  BY DEF Version, Challenge
<1>2. d.st = c.st /\ d.tpl = c.tpl
  BY DEF Version, Challenge
<1>3. d.exposed = e
  BY DEF Version, Challenge
<1>4. d.fins = c.fins
  BY DEF Version, Challenge
<1>5. d.rev = c.rev
  BY DEF Version, Challenge
<1>6. d.healthy = c.healthy
  BY DEF Version, Challenge
<1>7. d.hash = c.hash
  BY DEF Version, Challenge
<1>8. d.refs = c.refs
  BY DEF Version, Challenge
<1>. QED
  BY <1>1, <1>2, <1>3, <1>4, <1>5, <1>6, <1>7, <1>8 DEF Version

\* What a deletion or an update that keeps the type leaves in the store.
LEMMA StoredType ==
    ASSUME chal \in Version, NEW new \in Version
    PROVE  /\ StoredChallenge(new) \in Version
           /\ StoredChallenge(new).rev = chal.rev + 1
           /\ \/ /\ StoredChallenge(new).st = new.st
                 /\ StoredChallenge(new).fins = new.fins
                 /\ StoredChallenge(new).tpl = new.tpl
                 /\ StoredChallenge(new).exposed = new.exposed
                 /\ StoredChallenge(new).healthy = new.healthy
                 /\ StoredChallenge(new).hash = new.hash
                 /\ StoredChallenge(new).gen = new.gen
              \/ /\ new.fins = {}
                 /\ StoredChallenge(new).fins = {}
                 /\ ~StoredChallenge(new).healthy
                 /\ StoredChallenge(new).st = "absent"
<1>1. chal.rev + 1 \in Nat
  BY DEF Version, Challenge
<1>2. CASE new.st = "deleting" /\ new.fins = {}
  <2>1. StoredChallenge(new) = [NoChallenge EXCEPT !.rev = chal.rev + 1]
    BY <1>2 DEF StoredChallenge
  <2>2. ~[NoChallenge EXCEPT !.rev = chal.rev + 1].healthy
    BY DEF NoChallenge
  <2>. QED
    BY <1>1, <1>2, <2>1, <2>2, NoChallengeType
<1>3. CASE ~(new.st = "deleting" /\ new.fins = {})
  <2>. DEFINE d == [new EXCEPT !.rev = chal.rev + 1]
  <2>1. StoredChallenge(new) = d
    BY <1>3 DEF StoredChallenge
  <2>2. d \in Challenge
    BY <1>1 DEF Version, Challenge
  <2>3. d.st = new.st /\ d.rev = chal.rev + 1 /\ d.tpl = new.tpl
    BY DEF Version, Challenge
  <2>4. d.fins = new.fins
    BY DEF Version, Challenge
  <2>5. d.exposed = new.exposed
    BY DEF Version, Challenge
  <2>6. d.healthy = new.healthy
    BY DEF Version, Challenge
  <2>7. d.hash = new.hash
    BY DEF Version, Challenge
  <2>8. d.gen = new.gen
    BY DEF Version, Challenge
  <2>. QED
    BY <2>1, <2>2, <2>3, <2>4, <2>5, <2>6, <2>7, <2>8 DEF Version
<1>. QED
  BY <1>2, <1>3

LEMMA UpdateType ==
    ASSUME chal \in Version, NEW new,
           new.fins \in SUBSET {"instances", "namespace", "data"},
           new.exposed \in Names,
           UpdateChallenge(new)
    PROVE  /\ chal' \in Version
           /\ chal'.fins = new.fins
           /\ new.fins # {} => /\ chal'.st = chal.st
                               /\ chal'.tpl = chal.tpl
                               /\ chal'.exposed = new.exposed
           /\ chal'.fins # {} => chal'.st # "absent"
           /\ chal' = chal \/ chal'.rev = chal.rev + 1
           /\ chal.st # "absent" /\ chObj.rev = chal.rev
           /\ chal'.healthy => chal.healthy
           /\ chal'.st # "absent" => /\ chal'.st = chal.st
                                    /\ chal'.tpl = chal.tpl
                                    /\ chal'.exposed = new.exposed
                                    /\ chal'.healthy = chal.healthy
                                    /\ chal'.hash = chal.hash
                                    /\ chal'.gen \in {chal.gen, chal.gen + 1}
<1>. DEFINE written ==
       [chal EXCEPT !.fins = new.fins, !.exposed = new.exposed,
          !.gen = IF new.exposed = chal.exposed THEN @ ELSE @ + 1]
<1>1. chal \in Challenge /\ chal.st # "absent" /\ chal.tpl \in Templates
  BY DEF UpdateChallenge, ChallengeCurrent, Version
<1>2. (IF new.exposed = chal.exposed THEN chal.gen ELSE chal.gen + 1) \in Nat
  BY <1>1 DEF Challenge
<1>3. written \in Challenge
  BY <1>1, <1>2 DEF Challenge
<1>4. written.st = chal.st /\ written.tpl = chal.tpl
  BY <1>1 DEF Challenge
<1>5. written.fins = new.fins
  BY <1>1 DEF Challenge
<1>6. written.exposed = new.exposed
  BY <1>1 DEF Challenge
<1>7. written.healthy = chal.healthy
  BY <1>1 DEF Challenge
<1>12. written.hash = chal.hash
  BY <1>1 DEF Challenge
<1>13. written.gen \in {chal.gen, chal.gen + 1}
  BY <1>1 DEF Challenge
<1>8. /\ chal' = IF written = chal THEN chal ELSE StoredChallenge(written)
      /\ chObj.rev = chal.rev
  BY DEF UpdateChallenge, ChallengeCurrent
<1>9. written \in Version
  BY <1>1, <1>3, <1>4 DEF Version
<1>. HIDE DEF written
<1>10. CASE written = chal
  BY <1>1, <1>4, <1>5, <1>6, <1>7, <1>8, <1>10, <1>12 DEF Version
<1>11. CASE written # chal
  BY <1>1, <1>4, <1>5, <1>6, <1>7, <1>8, <1>9, <1>11, <1>12, <1>13, StoredType
<1>. QED
  BY <1>10, <1>11

LEMMA StatusType ==
    ASSUME chal \in Version, now \in Nat, NEW new,
           new.healthy \in BOOLEAN, new.active \in Nat,
           new.hash \in Templates \cup {None},
           UpdateStatus(new)
    PROVE  /\ chal' \in Version
           /\ chal'.st = chal.st /\ chal.st # "absent"
           /\ chal'.tpl = chal.tpl
           /\ chal'.exposed = chal.exposed
           /\ chal'.fins = chal.fins
           /\ chal'.healthy = new.healthy
           /\ chal'.hash = new.hash
           /\ chal'.gen = chal.gen
           /\ chObj.rev = chal.rev
           /\ chal' = chal \/ chal'.rev = chal.rev + 1
<1>. DEFINE written ==
       [chal EXCEPT !.healthy = new.healthy, !.updated = now,
          !.active = new.active, !.hash = new.hash]
     stored == [written EXCEPT !.rev = @ + 1]
<1>1. chal \in Challenge /\ chal.st # "absent" /\ chal.tpl \in Templates
  BY DEF UpdateStatus, ChallengeCurrent, Version
<1>2. written \in Challenge
  BY <1>1 DEF Challenge
<1>3. written.st = chal.st /\ written.tpl = chal.tpl /\ written.rev = chal.rev
  BY <1>1 DEF Challenge
<1>4. written.fins = chal.fins
  BY <1>1 DEF Challenge
<1>5. written.exposed = chal.exposed
  BY <1>1 DEF Challenge
<1>6. written.healthy = new.healthy
  BY <1>1 DEF Challenge
<1>16. written.hash = new.hash
  BY <1>1 DEF Challenge
<1>17. written.gen = chal.gen
  BY <1>1 DEF Challenge
<1>7. /\ chal' = IF written = chal THEN chal ELSE stored
      /\ chObj.rev = chal.rev
  BY DEF UpdateStatus, ChallengeCurrent
<1>. HIDE DEF written
<1>8. written.rev + 1 \in Nat
  BY <1>2 DEF Challenge
<1>9. stored \in Challenge
  BY <1>2, <1>8 DEF Challenge
<1>10. stored.st = written.st /\ stored.tpl = written.tpl /\ stored.rev = written.rev + 1
  BY <1>2 DEF Challenge
<1>11. stored.fins = written.fins
  BY <1>2 DEF Challenge
<1>12. stored.exposed = written.exposed
  BY <1>2 DEF Challenge
<1>13. stored.healthy = written.healthy
  BY <1>2 DEF Challenge
<1>18. stored.hash = written.hash
  BY <1>2 DEF Challenge
<1>19. stored.gen = written.gen
  BY <1>2 DEF Challenge
<1>. HIDE DEF stored
<1>14. CASE written = chal
  BY <1>1, <1>6, <1>7, <1>14, <1>16 DEF Version
<1>15. CASE written # chal
  BY <1>1, <1>3, <1>4, <1>5, <1>6, <1>7, <1>9, <1>10, <1>11, <1>12, <1>13, <1>15,
     <1>16, <1>17, <1>18, <1>19 DEF Version
<1>. QED
  BY <1>14, <1>15

-----------------------------------------------------------------------------
(* Parts of the visits of the challenge controller *)

LEMMA Pair ==
    ASSUME NEW a, NEW b
    PROVE  <<a>> \o <<b>> = <<a, b>>
<1>. DEFINE s == <<a>>
            t == <<b>>
            u == <<a, b>>
<1>1. /\ s \in Seq({a, b}) /\ Len(s) = 1
      /\ t \in Seq({a, b}) /\ Len(t) = 1
      /\ u \in Seq({a, b}) /\ Len(u) = 2
  OBVIOUS
<1>2. s[1] = a /\ t[1] = b /\ u[1] = a /\ u[2] = b
  OBVIOUS
<1>3. s \o t \in Seq({a, b}) /\ Len(s \o t) = 2 /\ (s \o t)[1] = a
  BY <1>1, <1>2, ConcatProperties
<1>4. (s \o t)[2] = b
  BY <1>1, <1>2, ConcatProperties
<1>5. \A i \in 1 .. Len(u) : u[i] = (s \o t)[i]
  BY <1>1, <1>2, <1>3, <1>4
<1>. QED
  BY <1>1, <1>3, <1>5, SeqEqual

\* The references of a spec in the order in which they are visited.
LEMMA RefListIs ==
    ASSUME NEW refs
    PROVE  RefList(refs) = IF "secret" \in refs
                           THEN IF "configmap" \in refs
                                THEN <<"secret", "configmap">>
                                ELSE <<"secret">>
                           ELSE IF "configmap" \in refs
                                THEN <<"configmap">>
                                ELSE << >>
<1>1. /\ <<"secret">> \o <<"configmap">> = <<"secret", "configmap">>
      /\ <<"secret">> \o << >> = <<"secret">>
      /\ << >> \o <<"configmap">> = <<"configmap">>
      /\ << >> \o << >> = << >>
  BY Pair
<1>. QED
  BY <1>1 DEF RefList

LEMMA RefListType ==
    ASSUME NEW refs
    PROVE  /\ RefList(refs) = << >> \/ RefList(refs) \in RefLists
           /\ RefList(refs) = << >> => refs \cap RefKinds = {}
           /\ refs \cap RefKinds \subseteq Range(RefList(refs))
<1>1. /\ << >> # <<"secret">> /\ << >> # <<"configmap">>
      /\ << >> # <<"secret", "configmap">>
  OBVIOUS
<1>2. /\ Range(<<"secret">>) = {"secret"}
      /\ Range(<<"configmap">>) = {"configmap"}
      /\ Range(<<"secret", "configmap">>) = {"secret", "configmap"}
  BY DEF Range
<1>. QED
  BY <1>1, <1>2, RefListIs DEF RefLists, RefKinds

LEMMA LabelledCount ==
    /\ Cardinality(Labelled) \in Nat
    /\ Labelled # {} => Cardinality(Labelled) >= 1
<1>1. Labelled \subseteq Instances
  BY DEF Labelled
<1>2. IsFiniteSet(Labelled)
  BY <1>1, ChallengeAssumption, FS_Subset
<1>. QED
  BY <1>2, FS_CardinalityType, FS_EmptySet

\* A loop over the instances has something to visit.
LEMMA LoopStarts ==
    ASSUME Labelled # {}, NEW s \in SetToSeqs(Labelled)
    PROVE  s # << >> /\ 1 \in DOMAIN s
<1>1. DOMAIN s = 1 .. Cardinality(Labelled)
  BY DEF SetToSeqs
<1>2. 1 \in DOMAIN s
  BY <1>1, LabelledCount
<1>. QED
  BY <1>2

LEMMA IdleStage ==
    ASSUME ChIdle
    PROVE  chPc' = "idle" /\ chObj' = NoChallenge /\ chObj' \in Version
BY NoChallengeType DEF ChIdle

LEMMA ValidateStage ==
    ASSUME NEW c \in Version, c.fins # {}, c.st # "absent", Validate(c)
    PROVE  /\ chObj' \in Version
           /\ chObj'.st # "absent"
           /\ chObj'.tpl = c.tpl /\ chObj'.exposed = c.exposed
           /\ chObj'.rev = c.rev /\ chObj'.fins = c.fins /\ chObj'.refs = c.refs
           /\ chObj'.healthy = ValidTemplate(c.tpl, c.exposed)
           /\ \/ chPc' = "expose" /\ c.exposed = None /\ chObj'.healthy
              \/ chPc' = "status"
           /\ chPc' = "status" /\ chObj'.healthy => c.exposed # None
           /\ chPc' = "expose" => WithPort(chObj'.tpl) # {}
           /\ UNCHANGED todo
<1>. DEFINE valid == ValidTemplate(c.tpl, c.exposed)
<1>1. valid \in BOOLEAN
  BY DEF ValidTemplate
<1>2. valid => WithPort(c.tpl) # {}
  BY DEF ValidTemplate
<1>3. /\ chObj' = [c EXCEPT !.healthy = valid]
      /\ chPc' = IF valid /\ c.exposed = None THEN "expose" ELSE "status"
      /\ UNCHANGED todo
  BY DEF Validate, ChGoto
<1>. HIDE DEF valid
<1>4. /\ chObj' \in Version
      /\ chObj'.st = c.st /\ chObj'.tpl = c.tpl /\ chObj'.exposed = c.exposed
      /\ chObj'.rev = c.rev /\ chObj'.fins = c.fins /\ chObj'.refs = c.refs
      /\ chObj'.healthy = valid
  BY <1>1, <1>3, HealthyType
<1>5. CASE valid /\ c.exposed = None
  BY <1>2, <1>3, <1>4, <1>5 DEF valid
<1>6. CASE ~(valid /\ c.exposed = None)
  BY <1>3, <1>4, <1>6 DEF valid
<1>. QED
  BY <1>5, <1>6

\* The name that validateTemplate fills in is one of a container.
LEMMA ExposedNameType ==
    ASSUME NEW c \in Version, c.st # "absent", WithPort(c.tpl) # {}
    PROVE  ExposedName(c.tpl, None) \in Names
<1>1. PICK k \in WithPort(c.tpl) : k = CHOOSE m \in WithPort(c.tpl) : TRUE
  OBVIOUS
<1>2. k \in DOMAIN c.tpl /\ c.tpl \in Templates
  BY DEF WithPort, Version
<1>3. ExposedName(c.tpl, None) = c.tpl[k].name
  BY <1>1 DEF ExposedName
<1>. QED
  BY <1>2, <1>3 DEF Names

LEMMA HashStage ==
    ASSUME NEW c \in Version, c.st # "absent", CompareHash(c)
    PROVE  \/ ChIdle /\ c.hash = c.tpl
           \/ /\ chObj' = c
              /\ chPc' \in {"hash", "purge deployment"}
              /\ chPc' = "purge deployment" => todo' # << >>
<1>1. CASE /\ c.hash \notin {None, c.tpl}
           /\ Labelled # {}
           /\ chObj' = c
           /\ chPc' = "purge deployment"
           /\ \E s \in SetToSeqs(Labelled) :
                 todo' = [k \in DOMAIN s |-> instC[s[k]].user]
  <2>1. PICK s \in SetToSeqs(Labelled) :
               todo' = [k \in DOMAIN s |-> instC[s[k]].user]
    BY <1>1
  <2>2. 1 \in DOMAIN s
    BY <1>1, LoopStarts
  <2>3. 1 \in DOMAIN todo'
    BY <2>1, <2>2
  <2>4. 1 \notin DOMAIN << >>
    OBVIOUS
  <2>5. todo' # << >>
    BY <2>3, <2>4
  <2>. QED
    BY <1>1, <2>5
<1>. QED
  BY <1>1 DEF CompareHash, ChGoto

LEMMA ReferStage ==
    ASSUME NEW c \in Version, c.st # "absent", Refer(c)
    PROVE  \/ ChIdle /\ c.hash = c.tpl
           \/ /\ chObj' = c
              /\ chPc' \in {"hash", "purge deployment", "annotate"}
              /\ chPc' = "purge deployment" => todo' # << >>
              /\ chPc' = "annotate" => todo' \in RefLists
<1>1. c.refs \subseteq RefKinds
  BY DEF Version, Challenge
<1>2. c.refs # {} => RefList(c.refs) \in RefLists
  BY <1>1, RefListType
<1>. QED
  BY <1>2, HashStage DEF Refer

LEMMA ForgetStage ==
    ASSUME NEW c, Forget(c)
    PROVE  /\ chPc' \in {"unannotate", "unrefer", "raze"}
           /\ chPc' = "unannotate" => /\ todo' \in RefLists
                                      /\ c.refs \cap RefKinds \subseteq Range(todo')
           /\ chPc' = "unrefer" => c.refs \cap RefKinds = {}
           /\ chPc' \in {"unannotate", "unrefer"} => "data" \in c.fins
BY RefListType DEF Forget, ChGoto

-----------------------------------------------------------------------------
(* The challenge controller keeps its types *)

\* Nothing of what the challenge controller remembers changes but the worker.
Still == UNCHANGED <<chC, nsC, chQueued, edits, errors>>

LEMMA OnlyChallengeStill ==
    ASSUME OnlyChallenge
    PROVE  Still /\ UNCHANGED clusterVars
BY DEF OnlyChallenge, Still

\* A stage that is reached with a Challenge in hand, or the end of a visit.
LEMMA StageInv ==
    ASSUME ChalInv, Still, chal' \in Version, chObj' \in Version,
           chPc' \in ChSteps,
           chPc' = "idle" => chObj' = NoChallenge,
           chPc' # "idle" => chObj'.st # "absent",
           chPc' = "expose" => WithPort(chObj'.tpl) # {} /\ chObj'.fins # {},
           chPc' \in {"evict", "purge deployment", "purge service"} => todo' # << >>,
           chPc' \in {"annotate", "unannotate"} => todo' \in RefLists
    PROVE  ChalInv'
BY DEF ChalInv, Still

LEMMA ChUpdateInv ==
    ASSUME ChalInv, ChUpdate
    PROVE  ChalInv'
<1>. USE DEF ChSteps
<1>0. /\ chal \in Version /\ chObj \in Version
      /\ chObj.fins \in SUBSET {"instances", "namespace", "data"}
      /\ chObj.exposed \in Names
  BY DEF ChalInv, Version, Challenge
<1>1. CASE AddInstanceFinalizer
  <2>. DEFINE new == [chObj EXCEPT !.fins = @ \cup {"instances"}]
  <2>1. /\ new.fins = chObj.fins \cup {"instances"}
        /\ new.exposed = chObj.exposed
    BY <1>0 DEF Version, Challenge
  <2>2. UpdateChallenge(new) /\ Validate(chal') /\ OnlyChallenge
    BY <1>1 DEF AddInstanceFinalizer
  <2>. HIDE DEF new
  <2>3. chal' \in Version /\ chal'.fins # {} /\ chal'.st # "absent"
    BY <1>0, <2>1, <2>2, UpdateType
  <2>4. /\ chObj' \in Version /\ chObj'.st # "absent" /\ chObj'.fins # {}
        /\ chPc' \in {"expose", "status"}
        /\ chPc' = "expose" => WithPort(chObj'.tpl) # {}
    BY <2>2, <2>3, ValidateStage
  <2>. QED
    BY <2>2, <2>3, <2>4, OnlyChallengeStill, StageInv
<1>2. CASE SetExposed
  <2>. DEFINE name == ExposedName(chObj.tpl, None)
              new == [chObj EXCEPT !.exposed = name]
  <2>1. /\ chObj.st # "absent" /\ WithPort(chObj.tpl) # {} /\ chObj.fins # {}
    BY <1>2 DEF SetExposed, ChalInv
  <2>2. name \in Names
    BY <1>0, <2>1, ExposedNameType
  <2>3. UpdateChallenge(new) /\ chObj' = [chal' EXCEPT !.healthy = TRUE]
        /\ chPc' = "status" /\ UNCHANGED todo /\ OnlyChallenge
    BY <1>2 DEF SetExposed, ChGoto
  <2>. HIDE DEF name
  <2>4. new.exposed = name /\ new.fins = chObj.fins
    BY <1>0, <2>2, ExposedType
  <2>. HIDE DEF new
  <2>5. chal' \in Version /\ chal'.st # "absent"
    BY <1>0, <2>1, <2>2, <2>3, <2>4, UpdateType
  <2>6. chObj' \in Version /\ chObj'.st # "absent"
    BY <2>3, <2>5, HealthyType
  <2>. QED
    BY <2>3, <2>5, <2>6, OnlyChallengeStill, StageInv
<1>3. CASE OwnNamespace
  <2>. DEFINE new == [chObj EXCEPT !.fins = @ \cup {"namespace"}]
  <2>1. /\ new.fins = chObj.fins \cup {"namespace"}
        /\ new.exposed = chObj.exposed
    BY <1>0 DEF Version, Challenge
  <2>2. UpdateChallenge(new) /\ Refer(chal') /\ OnlyChallenge
    BY <1>3 DEF OwnNamespace
  <2>. HIDE DEF new
  <2>3. chal' \in Version /\ chal'.st # "absent"
    BY <1>0, <2>1, <2>2, UpdateType
  <2>4. \/ ChIdle
        \/ /\ chObj' = chal' /\ chPc' \in {"hash", "purge deployment", "annotate"}
           /\ chPc' = "purge deployment" => todo' # << >>
           /\ chPc' = "annotate" => todo' \in RefLists
    BY <2>2, <2>3, ReferStage
  <2>. QED
    BY <2>2, <2>3, <2>4, IdleStage, OnlyChallengeStill, StageInv
<1>4. CASE Disown
  <2>. DEFINE new == [chObj EXCEPT !.fins = @ \ {"instances"}]
  <2>1. /\ new.fins = chObj.fins \ {"instances"}
        /\ new.exposed = chObj.exposed
    BY <1>0 DEF Version, Challenge
  <2>2. UpdateChallenge(new) /\ OnlyChallenge
    BY <1>4 DEF Disown
  <2>. HIDE DEF new
  <2>3. chal' \in Version /\ (chal'.fins # {} => chal'.st # "absent")
    BY <1>0, <2>1, <2>2, UpdateType
  <2>4. ChIdle \/ (chal'.fins # {} /\ chObj' = chal' /\ Forget(chal'))
    BY <1>4 DEF Disown
  <2>. QED
    BY <2>2, <2>3, <2>4, IdleStage, ForgetStage, OnlyChallengeStill, StageInv
<1>5. CASE ReleaseNamespace
  <2>. DEFINE new == [chObj EXCEPT !.fins = @ \ {"namespace"}]
  <2>1. /\ new.fins = chObj.fins \ {"namespace"}
        /\ new.exposed = chObj.exposed
    BY <1>0 DEF Version, Challenge
  <2>2. UpdateChallenge(new) /\ ChIdle /\ OnlyChallenge
    BY <1>5 DEF ReleaseNamespace
  <2>. HIDE DEF new
  <2>3. chal' \in Version
    BY <1>0, <2>1, <2>2, UpdateType
  <2>. QED
    BY <2>2, <2>3, IdleStage, OnlyChallengeStill, StageInv
<1>. QED
  BY <1>1, <1>2, <1>3, <1>4, <1>5 DEF ChUpdate

\* Where a failed update of the exposed name leaves the worker.
LEMMA NotExposedStage ==
    ASSUME ChalInv, NotExposed
    PROVE  /\ chPc' = "status"
           /\ chObj' \in Version /\ chObj'.st # "absent"
           /\ ~chObj'.healthy
           /\ chObj'.rev = chObj.rev /\ chObj'.tpl = chObj.tpl
           /\ chObj'.fins = chObj.fins /\ chObj'.refs = chObj.refs
           /\ chPc = "expose"
<1>. DEFINE name == ExposedName(chObj.tpl, None)
            c == [chObj EXCEPT !.healthy = FALSE]
<1>1. /\ chObj \in Version /\ chObj.st # "absent"
      /\ WithPort(chObj.tpl) # {}
  BY DEF NotExposed, ChalInv
<1>2. name \in Names
  BY <1>1, ExposedNameType
<1>3. chPc = "expose" /\ chPc' = "status" /\ chObj' = [c EXCEPT !.exposed = name]
  BY DEF NotExposed, ChGoto
<1>. HIDE DEF name
<1>4. c \in Version /\ c.st = chObj.st /\ c.rev = chObj.rev /\ ~c.healthy
      /\ c.tpl = chObj.tpl /\ c.fins = chObj.fins /\ c.refs = chObj.refs
  BY <1>1, HealthyType
<1>. HIDE DEF c
<1>. QED
  BY <1>1, <1>2, <1>3, <1>4, ExposedType

LEMMA ChOtherInv ==
    ASSUME ChalInv, now \in Nat, ChOther
    PROVE  ChalInv'
<1>. USE DEF ChSteps
<1>0. /\ ChalInv /\ chal \in Version /\ chObj \in Version
      /\ now \in Nat
  BY DEF ChalInv
<1>1. CASE StaleExposed
  BY <1>0, <1>1, NotExposedStage, OnlyChallengeStill, StageInv DEF StaleExposed
<1>2. CASE WriteHealth
  <2>. DEFINE new == [chObj EXCEPT !.active = Cardinality(Labelled)]
  <2>1. /\ new.healthy \in BOOLEAN
        /\ new.hash \in Templates \cup {None}
    BY <1>0 DEF Version, Challenge
  <2>5. new.active \in Nat
    BY <1>0, LabelledCount DEF Version, Challenge
  <2>2. UpdateStatus(new) /\ chObj' = [chal' EXCEPT !.exposed = chObj.exposed]
        /\ chPc' = "namespace" /\ OnlyChallenge
    BY <1>2 DEF WriteHealth, ChGoto
  <2>. HIDE DEF new
  <2>3. chal' \in Version /\ chal'.st # "absent"
    BY <1>0, <2>1, <2>2, <2>5, StatusType
  <2>4. chObj.exposed \in Names
    BY <1>0 DEF Version, Challenge
  <2>6. chObj' \in Version /\ chObj'.st # "absent"
    BY <2>2, <2>3, <2>4, ExposedType
  <2>. QED
    BY <1>0, <2>2, <2>3, <2>6, OnlyChallengeStill, StageInv
<1>3. CASE MakeNamespace \/ RazeNamespace
  <2>1. UNCHANGED <<chal, chObj>> /\ Still /\ chPc # "idle" /\ chPc' \in {"own", "release"}
    BY <1>3 DEF MakeNamespace, RazeNamespace, ChGoto, Still
  <2>2. chObj'.st # "absent"
    BY <1>0, <2>1 DEF ChalInv
  <2>. QED
    BY <1>0, <2>1, <2>2, StageInv
<1>4. CASE HasNamespace
  <2>1. chPc # "idle" /\ UNCHANGED chal /\ Refer(chObj) /\ OnlyChallenge
    BY <1>4 DEF HasNamespace
  <2>2. chObj.st # "absent"
    BY <1>0, <2>1 DEF ChalInv
  <2>3. \/ ChIdle
        \/ /\ chObj' = chObj /\ chPc' \in {"hash", "purge deployment", "annotate"}
           /\ chPc' = "purge deployment" => todo' # << >>
           /\ chPc' = "annotate" => todo' \in RefLists
    BY <1>0, <2>1, <2>2, ReferStage
  <2>. QED
    BY <1>0, <2>1, <2>2, <2>3, IdleStage, OnlyChallengeStill, StageInv
<1>5. CASE PurgeWorkload \/ NothingToPurge
  <2>1. /\ Purging /\ PurgeOn
        /\ UNCHANGED chal /\ Still
    BY <1>5, OnlyChallengeStill DEF PurgeWorkload, NothingToPurge, Still
  <2>2. chPc # "idle" /\ todo # << >> /\ chObj.st # "absent"
    BY <1>0, <2>1 DEF Purging, ChalInv
  <2>3. /\ UNCHANGED chObj
        /\ chPc' \in {"purge service", "hash", "purge deployment"}
        /\ chPc' = "hash" \/ todo' # << >>
    BY <2>1, <2>2 DEF PurgeOn, ChGoto
  <2>. QED
    BY <1>0, <2>1, <2>2, <2>3, StageInv
<1>6. CASE WriteHash
  <2>. DEFINE new == [chObj EXCEPT !.hash = chObj.tpl]
  <2>1. chObj.tpl \in Templates \cup {None}
    BY <1>0 DEF Version, Challenge
  <2>2. new.hash = chObj.tpl
    BY <1>0 DEF Version, Challenge
  <2>3. new.healthy \in BOOLEAN
    BY <1>0 DEF Version, Challenge
  <2>4. new.active \in Nat
    BY <1>0 DEF Version, Challenge
  <2>5. UpdateStatus(new) /\ ChIdle /\ OnlyChallenge
    BY <1>6 DEF WriteHash
  <2>. HIDE DEF new
  <2>6. chal' \in Version
    BY <1>0, <2>1, <2>2, <2>3, <2>4, <2>5, StatusType
  <2>. QED
    BY <1>0, <2>5, <2>6, IdleStage, OnlyChallengeStill, StageInv
<1>7. CASE EvictInstance
  <2>1. /\ UNCHANGED <<chal, chObj>> /\ Still /\ chPc # "idle"
        /\ chPc' = IF todo' = << >> THEN "disown" ELSE "evict"
    BY <1>7 DEF EvictInstance, Still
  <2>2. chObj.st # "absent"
    BY <1>0, <2>1 DEF ChalInv
  <2>. QED
    BY <1>0, <2>1, <2>2, StageInv
<1>8. CASE NothingToRaze
  <2>1. ChIdle /\ UNCHANGED chal /\ OnlyChallenge
    BY <1>8 DEF NothingToRaze
  <2>. QED
    BY <1>0, <2>1, IdleStage, OnlyChallengeStill, StageInv
<1>9. CASE ChRetry
  <2>1. ChIdle /\ chQueued' = TRUE /\ UNCHANGED <<chal, chC, nsC, edits, errors>>
    BY <1>9 DEF ChRetry, ChFail
  <2>. QED
    BY <1>0, <2>1, IdleStage DEF ChalInv
<1>. QED
  BY <1>1, <1>2, <1>3, <1>4, <1>5, <1>6, <1>7, <1>8, <1>9 DEF ChOther

LEMMA ChStartInv ==
    ASSUME ChalInv, ChStart
    PROVE  ChalInv'
<1>. USE DEF ChSteps
<1>0. chC \in Version /\ chal \in Version
  BY DEF ChalInv
<1>1. CASE ChSkip
  BY <1>1 DEF ChSkip, ChTake, chWorker, ChalInv
<1>2. CASE ChBegin
  <2>1. /\ chC.st = "live" /\ chQueued' = FALSE
        /\ UNCHANGED <<chal, chC, nsC, edits, errors>>
    BY <1>2 DEF ChBegin, ChTake
  <2>2. CASE "instances" \in chC.fins
    <3>1. chC.fins # {} /\ Validate(chC)
      BY <1>2, <2>2 DEF ChBegin
    <3>2. /\ chObj' \in Version /\ chObj'.st # "absent" /\ chObj'.fins # {}
          /\ chPc' \in {"expose", "status"}
          /\ chPc' = "expose" => WithPort(chObj'.tpl) # {}
      BY <1>0, <2>1, <3>1, ValidateStage
    <3>. QED
      BY <2>1, <3>2 DEF ChalInv
  <2>3. CASE "instances" \notin chC.fins
    <3>1. chObj' = chC /\ chPc' = "finalize"
      BY <1>2, <2>3 DEF ChBegin, ChGoto
    <3>. QED
      BY <1>0, <2>1, <3>1 DEF ChalInv
  <2>. QED
    BY <2>2, <2>3
<1>3. CASE ChBeginDelete
  <2>1. /\ chC.st = "deleting" /\ chQueued' = FALSE /\ chObj' = chC
        /\ UNCHANGED <<chal, chC, nsC, edits, errors>>
    BY <1>3 DEF ChBeginDelete, ChTake
  <2>2. /\ chPc' \in {"unannotate", "unrefer", "raze", "evict", "disown"}
        /\ chPc' = "evict" => todo' # << >>
        /\ chPc' = "unannotate" => todo' \in RefLists
    <3>1. CASE "instances" \notin chC.fins
      BY <1>3, <3>1, ForgetStage DEF ChBeginDelete
    <3>2. CASE "instances" \in chC.fins /\ chC.active > 0 /\ Labelled # {}
      BY <1>3, <3>2, LoopStarts DEF ChBeginDelete
    <3>3. CASE "instances" \in chC.fins /\ ~(chC.active > 0 /\ Labelled # {})
      BY <1>3, <3>3 DEF ChBeginDelete, ChGoto
    <3>. QED
      BY <3>1, <3>2, <3>3
  <2>. QED
    BY <1>0, <2>1, <2>2 DEF ChalInv
<1>. QED
  BY <1>1, <1>2, <1>3 DEF ChStart

\* The author writes a spec or deletes the Challenge.
LEMMA EditStored ==
    ASSUME chal \in Version, NEW s \in Specs, EditChallenge(s)
    PROVE  /\ chal' \in Version /\ chal'.rev = chal.rev + 1
           /\ chal'.st = chal.st /\ chal'.healthy = chal.healthy
           /\ chal'.gen = chal.gen + 1
           /\ chal'.fins = chal.fins
<1>1. /\ chal \in Challenge /\ s.tpl \in Templates /\ s.exposed \in Names
      /\ s.refs \in SUBSET RefKinds
  BY ChallengeAssumption DEF Version, Templates, Names, RefKinds
<1>2. chal.gen + 1 \in Nat /\ chal.rev + 1 \in Nat
  BY <1>1 DEF Challenge
<1>3. chal' = [chal EXCEPT !.tpl = s.tpl, !.exposed = s.exposed, !.refs = s.refs,
                           !.gen = chal.gen + 1, !.rev = chal.rev + 1]
  BY DEF EditChallenge
<1>4. chal' \in Challenge
  BY <1>1, <1>2, <1>3 DEF Challenge
<1>5. chal'.st = chal.st /\ chal'.tpl = s.tpl /\ chal'.rev = chal.rev + 1
  BY <1>1, <1>3 DEF Challenge
<1>6. chal'.healthy = chal.healthy
  BY <1>1, <1>3 DEF Challenge
<1>7. chal'.gen = chal.gen + 1
  BY <1>1, <1>3 DEF Challenge
<1>8. chal'.fins = chal.fins
  BY <1>1, <1>3 DEF Challenge
<1>. QED
  BY <1>1, <1>4, <1>5, <1>6, <1>7, <1>8 DEF Version

LEMMA DeleteStored ==
    ASSUME chal \in Version, DeleteChallenge
    PROVE  /\ chal' \in Version /\ chal'.rev = chal.rev + 1
           /\ chal'.healthy => chal.healthy
           /\ chal'.st # "live"
           /\ chal'.st # "absent" => chal'.gen = chal.gen + 1
           /\ chal'.fins = chal.fins
<1>. DEFINE new == [chal EXCEPT !.st = "deleting", !.gen = @ + 1]
<1>1. chal \in Challenge /\ chal.gen + 1 \in Nat /\ chal.tpl \in Templates
  BY DEF DeleteChallenge, Version, Challenge
<1>2. new \in Challenge
  BY <1>1 DEF Challenge
<1>3. new.tpl = chal.tpl
  BY <1>1 DEF Challenge
<1>4. new.healthy = chal.healthy
  BY <1>1 DEF Challenge
<1>7. new.st = "deleting" /\ new.gen = chal.gen + 1
  BY <1>1 DEF Challenge
<1>5. chal' = StoredChallenge(new)
  BY DEF DeleteChallenge
<1>8. new.fins = chal.fins
  BY <1>1 DEF Challenge
<1>. HIDE DEF new
<1>6. new \in Version
  BY <1>1, <1>2, <1>3 DEF Version
<1>. QED
  BY <1>4, <1>5, <1>6, <1>7, <1>8, StoredType

LEMMA ChStepInv ==
    ASSUME ChalInv, now \in Nat, ns \in {"active", "terminating", "absent"},
           ChStep
    PROVE  ChalInv'
<1>0. ChalInv /\ chal \in Version
  BY DEF ChalInv
<1>1. CASE ChStart
  BY <1>0, <1>1, ChStartInv
<1>2. CASE ChCall
  BY <1>0, <1>2, ChUpdateInv, ChOtherInv DEF ChCall
<1>3. CASE DeliverChallenge \/ DeliverNamespace \/ CollectNamespace
  <2>1. /\ UNCHANGED <<chal, chWorker, edits, errors>>
        /\ chC' \in {chC, chal} /\ nsC' \in {nsC, ns}
        /\ chQueued' \in BOOLEAN
    BY <1>0, <1>3 DEF DeliverChallenge, DeliverNamespace, CollectNamespace, chalVars,
       ChalInv, ChallengeNotable
  <2>. QED
    BY <1>0, <2>1 DEF ChalInv, chWorker
<1>4. CASE ChApiError
  <2>0. UNCHANGED <<chal, chC, nsC, edits>> /\ errors' = errors + 1
    BY <1>4 DEF ChApiError
  <2>3. errors \in Nat
    BY <1>0 DEF ChalInv
  <2>1. errors' \in Nat
    BY <2>0, <2>3
  <2>2. \/ ChIdle /\ chQueued' = TRUE
        \/ NotExposed /\ UNCHANGED chQueued
    BY <1>4 DEF ChApiError, ChFail
  <2>. QED
    BY <1>0, <2>0, <2>1, <2>2, IdleStage, NotExposedStage DEF ChalInv, ChSteps
<1>5. CASE DeleteChallenge \/ \E s \in Specs : EditChallenge(s)
  <2>1. chal' \in Version
    BY <1>0, <1>5, DeleteStored, EditStored
  <2>2. UNCHANGED <<chC, nsC, chQueued, chWorker, errors>> /\ edits' = edits + 1
    BY <1>5 DEF DeleteChallenge, EditChallenge
  <2>4. edits \in Nat
    BY <1>0 DEF ChalInv
  <2>3. edits' \in Nat
    BY <2>2, <2>4
  <2>. QED
    BY <1>0, <2>1, <2>2, <2>3 DEF ChalInv, chWorker
<1>. QED
  BY <1>1, <1>2, <1>3, <1>4, <1>5 DEF ChStep

LEMMA ResumeInv ==
    ASSUME ChalInv, ns \in {"active", "terminating", "absent"}, ChResume
    PROVE  ChalInv'
<1>1. /\ chC' = chal /\ nsC' = ns /\ chQueued' = (chal.st # "absent")
      /\ ChIdle /\ UNCHANGED <<chal, edits, errors>>
  BY DEF ChResume
<1>3. chQueued' \in BOOLEAN
  BY <1>1
<1>. QED
  BY <1>1, <1>3, IdleStage DEF ChalInv, ChSteps

LEMMA ChInitInv == ChInit => ChalInv
<1>. SUFFICES ASSUME ChInit
              PROVE  ChalInv
  OBVIOUS
<1>1. PICK s \in Drafts :
          chal = [NoChallenge EXCEPT !.st = "live", !.rev = 1, !.gen = 1,
                    !.tpl = s.tpl, !.exposed = s.exposed, !.refs = s.refs]
  BY DEF ChInit
<1>2. /\ s.tpl \in Templates /\ s.exposed \in Names
      /\ s.refs \in SUBSET RefKinds
  BY ChallengeAssumption DEF Templates, Names, RefKinds
<1>3. chal = [st |-> "live", rev |-> 1, gen |-> 1, fins |-> {}, tpl |-> s.tpl,
              exposed |-> s.exposed, refs |-> s.refs, healthy |-> FALSE,
              hash |-> None, active |-> 0, updated |-> 0]
  BY <1>1 DEF NoChallenge
<1>4. chal \in Version
  BY <1>2, <1>3 DEF Version, Challenge
<1>. QED
  BY <1>4, NoChallengeType DEF ChInit, ChalInv, ChSteps
-----------------------------------------------------------------------------
(* Which versions of the Challenge the controller has read *)

\* What was read of a Challenge is older than what is stored, or like it.
Alike(c) ==
    /\ c.rev <= chal.rev
    /\ c.rev = chal.rev => c.fins = chal.fins /\ c.refs = chal.refs

ReadInv == Alike(chC) /\ (chPc # "idle" => Alike(chObj))

\* Where the worker gets the Challenge from that it has in hand after a step:
\* from the cache, from its last stage, or from the answer to its update.
Handed(c) ==
    chObj'.rev = c.rev /\ chObj'.fins = c.fins /\ chObj'.refs = c.refs

InHand ==
    \/ chPc' = "idle"
    \/ chPc = "idle" /\ Handed(chC)
    \/ chPc # "idle" /\ Handed(chObj)
    \/ Handed(chal')

\* A loop that takes the Challenge out of annotations has all of its
\* references before it when it starts.
AllBeforeIt ==
    chPc' \in {"unannotate", "unrefer"} =>
       chObj'.refs \cap RefKinds
         \subseteq IF chPc' = "unannotate" THEN Range(todo') ELSE {}

\* A write raises the version.
Risen == chal' = chal \/ chal'.rev = chal.rev + 1

KeepsData == "data" \in chal.fins => "data" \in chal'.fins

LEMMA ReadKept ==
    ASSUME ChalInv, ReadInv, Risen, InHand, chC' \in {chC, chal}
    PROVE  ReadInv'
<1>. USE DEF Alike
<1>1. chal.rev \in Nat /\ chC.rev \in Nat /\ chObj.rev \in Nat
  BY DEF ChalInv, Version, Challenge
<1>2. \A n \in Nat : n <= n /\ n <= n + 1 /\ n # n + 1
  OBVIOUS
<1>3. \A n, m \in Nat : n <= m => n <= m + 1 /\ n # m + 1
  OBVIOUS
<1>5. Alike(chC)'
  <2>1. CASE chC' = chC
    BY <1>1, <1>3, <2>1 DEF Risen, ReadInv
  <2>2. CASE chC' = chal
    BY <1>1, <1>2, <2>2 DEF Risen
  <2>. QED
    BY <2>1, <2>2
<1>6. chPc' # "idle" => Alike(chObj)'
  <2>1. CASE chPc = "idle" /\ Handed(chC)
    BY <1>1, <1>3, <2>1 DEF Risen, ReadInv, Handed
  <2>2. CASE chPc # "idle" /\ Handed(chObj)
    BY <1>1, <1>3, <2>2 DEF Risen, ReadInv, Handed
  <2>3. CASE Handed(chal')
    <3>1. chal'.rev \in Nat
      BY <1>1 DEF Risen
    <3>. QED
      BY <1>2, <2>3, <3>1 DEF Handed
  <2>. QED
    BY <2>1, <2>2, <2>3 DEF InHand
<1>. QED
  BY <1>5, <1>6 DEF ReadInv

\* An update that keeps the finalizer for the references in the copy of the
\* worker keeps it in the store, for it is refused unless the copy is current.
LEMMA UpdateKeeps ==
    ASSUME ChalInv, ReadInv, chPc # "idle",
           NEW new,
           new.fins \in SUBSET {"instances", "namespace", "data"},
           new.exposed \in Names,
           UpdateChallenge(new)
    PROVE  /\ Risen
           /\ ("data" \in chObj.fins => "data" \in new.fins) => KeepsData
           /\ chObj.fins = chal.fins /\ chObj.refs = chal.refs
<1>1. /\ chal \in Version /\ Alike(chObj)
  BY DEF ChalInv, ReadInv
<1>2. /\ chal' = chal \/ chal'.rev = chal.rev + 1
      /\ chal'.fins = new.fins
      /\ chObj.rev = chal.rev
  BY <1>1, UpdateType
<1>. QED
  BY <1>1, <1>2 DEF Alike, Risen, KeepsData

LEMMA StartReads ==
    ASSUME ChalInv, ChStart
    PROVE  /\ UNCHANGED <<chal, chC>>
           /\ InHand
           /\ AllBeforeIt
<1>0. chPc = "idle" /\ UNCHANGED <<chal, chC>>
  BY DEF ChStart, ChSkip, ChBegin, ChBeginDelete, ChTake
<1>1. CASE ChSkip
  BY <1>0, <1>1 DEF ChSkip, chWorker, InHand, AllBeforeIt
<1>2. CASE ChBegin
  <2>1. chC \in Version /\ chC.st = "live"
    BY <1>2 DEF ChBegin, ChalInv
  <2>2. CASE "instances" \in chC.fins
    <3>1. chC.fins # {} /\ Validate(chC)
      BY <1>2, <2>2 DEF ChBegin
    <3>2. Handed(chC) /\ chPc' \in {"expose", "status"}
      BY <2>1, <3>1, ValidateStage DEF Handed
    <3>. QED
      BY <1>0, <3>2 DEF InHand, AllBeforeIt
  <2>3. CASE "instances" \notin chC.fins
    BY <1>0, <1>2, <2>3 DEF ChBegin, ChGoto, InHand, Handed, AllBeforeIt
  <2>. QED
    BY <2>2, <2>3
<1>3. CASE ChBeginDelete
  <2>1. chObj' = chC
    BY <1>3 DEF ChBeginDelete
  <2>2. CASE "instances" \notin chC.fins
    <3>1. Forget(chC)
      BY <1>3, <2>2 DEF ChBeginDelete
    <3>. QED
      BY <1>0, <2>1, <3>1, ForgetStage DEF InHand, Handed, AllBeforeIt
  <2>3. CASE "instances" \in chC.fins
    <3>1. chPc' \in {"evict", "disown"}
      BY <1>3, <2>3 DEF ChBeginDelete, ChGoto
    <3>. QED
      BY <1>0, <2>1, <3>1 DEF InHand, Handed, AllBeforeIt
  <2>. QED
    BY <2>2, <2>3
<1>. QED
  BY <1>0, <1>1, <1>2, <1>3 DEF ChStart

LEMMA UpdateReads ==
    ASSUME ChalInv, ReadInv, ChUpdate
    PROVE  /\ Risen /\ UNCHANGED chC
           /\ InHand
           /\ AllBeforeIt
           /\ KeepsData
<1>0. /\ chal \in Version /\ chObj \in Version
      /\ chObj.fins \in SUBSET {"instances", "namespace", "data"}
      /\ chObj.exposed \in Names
  BY DEF ChalInv, Version, Challenge
<1>1. CASE AddInstanceFinalizer
  <2>. DEFINE new == [chObj EXCEPT !.fins = @ \cup {"instances"}]
  <2>1. /\ new.fins = chObj.fins \cup {"instances"}
        /\ new.exposed = chObj.exposed
    BY <1>0 DEF Version, Challenge
  <2>2. /\ UpdateChallenge(new) /\ Validate(chal') /\ UNCHANGED chC
        /\ chPc # "idle"
    BY <1>1 DEF AddInstanceFinalizer, OnlyChallenge
  <2>. HIDE DEF new
  <2>3. chal' \in Version /\ chal'.fins # {} /\ chal'.st # "absent"
    BY <1>0, <2>1, <2>2, UpdateType
  <2>4. Handed(chal') /\ chPc' \in {"expose", "status"}
    BY <2>2, <2>3, ValidateStage DEF Handed
  <2>5. Risen /\ KeepsData
    BY <1>0, <2>1, <2>2, UpdateKeeps
  <2>. QED
    BY <2>2, <2>4, <2>5 DEF InHand, AllBeforeIt
<1>2. CASE SetExposed
  <2>. DEFINE name == ExposedName(chObj.tpl, None)
              new == [chObj EXCEPT !.exposed = name]
  <2>1. /\ chObj.st # "absent" /\ WithPort(chObj.tpl) # {} /\ chObj.fins # {}
        /\ chPc # "idle"
    BY <1>2 DEF SetExposed, ChalInv
  <2>2. name \in Names
    BY <1>0, <2>1, ExposedNameType
  <2>3. UpdateChallenge(new) /\ chObj' = [chal' EXCEPT !.healthy = TRUE]
        /\ chPc' = "status" /\ UNCHANGED chC
    BY <1>2 DEF SetExposed, ChGoto, OnlyChallenge
  <2>. HIDE DEF name
  <2>4. new.exposed = name /\ new.fins = chObj.fins
    BY <1>0, <2>2, ExposedType
  <2>. HIDE DEF new
  <2>5. chal' \in Version /\ Risen /\ KeepsData
    BY <1>0, <2>1, <2>2, <2>3, <2>4, UpdateType, UpdateKeeps
  <2>6. Handed(chal')
    BY <2>3, <2>5, HealthyType DEF Handed
  <2>. QED
    BY <2>3, <2>5, <2>6 DEF InHand, AllBeforeIt
<1>3. CASE OwnNamespace
  <2>. DEFINE new == [chObj EXCEPT !.fins = @ \cup {"namespace"}]
  <2>1. /\ new.fins = chObj.fins \cup {"namespace"}
        /\ new.exposed = chObj.exposed
    BY <1>0 DEF Version, Challenge
  <2>2. UpdateChallenge(new) /\ Refer(chal') /\ UNCHANGED chC /\ chPc # "idle"
    BY <1>3 DEF OwnNamespace, OnlyChallenge
  <2>. HIDE DEF new
  <2>3. chal' \in Version /\ chal'.st # "absent"
    BY <1>0, <2>1, <2>2, UpdateType
  <2>4. \/ ChIdle
        \/ /\ chObj' = chal' /\ chPc' \in {"hash", "purge deployment", "annotate"}
    BY <2>2, <2>3, ReferStage
  <2>5. Risen /\ KeepsData
    BY <1>0, <2>1, <2>2, UpdateKeeps
  <2>. QED
    BY <2>2, <2>4, <2>5, IdleStage DEF InHand, Handed, AllBeforeIt
<1>4. CASE Disown
  <2>. DEFINE new == [chObj EXCEPT !.fins = @ \ {"instances"}]
  <2>1. /\ new.fins = chObj.fins \ {"instances"}
        /\ new.exposed = chObj.exposed
    BY <1>0 DEF Version, Challenge
  <2>2. UpdateChallenge(new) /\ UNCHANGED chC /\ chPc # "idle"
    BY <1>4 DEF Disown, OnlyChallenge
  <2>. HIDE DEF new
  <2>3. Risen /\ KeepsData
    BY <1>0, <2>1, <2>2, UpdateKeeps
  <2>4. ChIdle \/ (chObj' = chal' /\ Forget(chal'))
    BY <1>4 DEF Disown
  <2>. QED
    BY <2>2, <2>3, <2>4, IdleStage, ForgetStage DEF InHand, Handed, AllBeforeIt
<1>5. CASE ReleaseNamespace
  <2>. DEFINE new == [chObj EXCEPT !.fins = @ \ {"namespace"}]
  <2>1. /\ new.fins = chObj.fins \ {"namespace"}
        /\ new.exposed = chObj.exposed
    BY <1>0 DEF Version, Challenge
  <2>2. UpdateChallenge(new) /\ ChIdle /\ UNCHANGED chC /\ chPc # "idle"
    BY <1>5 DEF ReleaseNamespace, OnlyChallenge
  <2>. HIDE DEF new
  <2>3. Risen /\ KeepsData
    BY <1>0, <2>1, <2>2, UpdateKeeps
  <2>. QED
    BY <2>2, <2>3, IdleStage DEF InHand, AllBeforeIt
<1>. QED
  BY <1>1, <1>2, <1>3, <1>4, <1>5 DEF ChUpdate

LEMMA OtherReads ==
    ASSUME ChalInv, now \in Nat, ChOther
    PROVE  /\ Risen /\ UNCHANGED chC
           /\ InHand
           /\ AllBeforeIt
           /\ KeepsData
<1>0. /\ chal \in Version /\ chObj \in Version
  BY DEF ChalInv
<1>1. CASE StaleExposed
  <2>1. UNCHANGED <<chal, chC>>
    BY <1>1 DEF StaleExposed, OnlyChallenge
  <2>. QED
    BY <1>1, <2>1, NotExposedStage
       DEF StaleExposed, Risen, KeepsData, InHand, Handed, AllBeforeIt
<1>2. CASE WriteHealth
  <2>. DEFINE new == [chObj EXCEPT !.active = Cardinality(Labelled)]
  <2>1. /\ new.healthy \in BOOLEAN
        /\ new.hash \in Templates \cup {None}
    BY <1>0 DEF Version, Challenge
  <2>2. new.active \in Nat
    BY <1>0, LabelledCount DEF Version, Challenge
  <2>3. UpdateStatus(new) /\ chObj' = [chal' EXCEPT !.exposed = chObj.exposed]
        /\ chPc' = "namespace" /\ UNCHANGED chC
    BY <1>2 DEF WriteHealth, ChGoto, OnlyChallenge
  <2>. HIDE DEF new
  <2>4. chal' \in Version /\ Risen /\ KeepsData
    BY <1>0, <2>1, <2>2, <2>3, StatusType DEF Risen, KeepsData
  <2>5. chObj.exposed \in Names
    BY <1>0 DEF Version, Challenge
  <2>6. Handed(chal')
    BY <2>3, <2>4, <2>5, ExposedType DEF Handed
  <2>. QED
    BY <2>3, <2>4, <2>6 DEF InHand, AllBeforeIt
<1>3. CASE MakeNamespace \/ RazeNamespace \/ PurgeWorkload \/ NothingToPurge
           \/ EvictInstance
  <2>1. /\ UNCHANGED <<chal, chC, chObj>> /\ chPc # "idle"
        /\ chPc' \notin {"unannotate", "unrefer"}
    BY <1>3 DEF MakeNamespace, RazeNamespace, PurgeWorkload, NothingToPurge,
       EvictInstance, PurgeOn, Purging, ChGoto, OnlyChallenge
  <2>. QED
    BY <2>1 DEF Risen, KeepsData, InHand, Handed, AllBeforeIt
<1>4. CASE HasNamespace
  <2>1. chPc # "idle" /\ UNCHANGED <<chal, chC>> /\ Refer(chObj)
    BY <1>4 DEF HasNamespace, OnlyChallenge
  <2>2. chObj.st # "absent"
    BY <2>1 DEF ChalInv
  <2>3. \/ ChIdle
        \/ /\ chObj' = chObj /\ chPc' \in {"hash", "purge deployment", "annotate"}
    BY <1>0, <2>1, <2>2, ReferStage
  <2>. QED
    BY <2>1, <2>3, IdleStage DEF Risen, KeepsData, InHand, Handed, AllBeforeIt
<1>5. CASE WriteHash
  <2>. DEFINE new == [chObj EXCEPT !.hash = chObj.tpl]
  <2>1. chObj.tpl \in Templates \cup {None}
    BY <1>0 DEF Version, Challenge
  <2>2. new.hash = chObj.tpl
    BY <1>0 DEF Version, Challenge
  <2>3. new.healthy \in BOOLEAN
    BY <1>0 DEF Version, Challenge
  <2>4. new.active \in Nat
    BY <1>0 DEF Version, Challenge
  <2>5. UpdateStatus(new) /\ ChIdle /\ UNCHANGED chC
    BY <1>5 DEF WriteHash, OnlyChallenge
  <2>. HIDE DEF new
  <2>6. Risen /\ KeepsData
    BY <1>0, <2>1, <2>2, <2>3, <2>4, <2>5, StatusType DEF Risen, KeepsData
  <2>. QED
    BY <2>5, <2>6, IdleStage DEF InHand, AllBeforeIt
<1>6. CASE NothingToRaze \/ ChRetry
  <2>1. ChIdle /\ UNCHANGED <<chal, chC>>
    BY <1>6 DEF NothingToRaze, ChRetry, ChFail, OnlyChallenge
  <2>. QED
    BY <2>1, IdleStage DEF Risen, KeepsData, InHand, AllBeforeIt
<1>. QED
  BY <1>1, <1>2, <1>3, <1>4, <1>5, <1>6 DEF ChOther
=============================================================================
