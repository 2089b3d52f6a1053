--------------------------- MODULE MCServicesProofs -------------------------
(* The parts side by side.  In MCServices one part runs and the others hold  *)
(* still, so that a behaviour of MCServices is a behaviour of every part,    *)
(* with stuttering, and what is proved of each part holds in all of them.    *)
EXTENDS MCServices, ServiceProofs, SessionsProofs, TailoringProofs

-----------------------------------------------------------------------------
(* The policy over the small table of MCServices.                          *)

(* The table meets the assumptions of PolicyPacing.                        *)
LEMMA PacingInstance ==
    /\ Pacing!IsFiniteSet(ThreeRows) /\ Pacing!IsFiniteSet({w1, w2}) /\ {w1, w2} # {}
    /\ NoApp \notin ThreeRows
    /\ {1, 1, 1, 2, 25, 1} \subseteq Nat
    /\ {Lenient.max_per_day, Lenient.max_per_hour, Lenient.min_between,
        Lenient.max_per_company, Lenient.cooldown} \subseteq Nat
    /\ \A n \in {1, 1, 1, Lenient.min_between, Lenient.cooldown} : n < 2
    /\ {"interview", "queued"} \subseteq Pacing!Status
<1>1. IsFiniteSet({a1}) /\ IsFiniteSet({w1})
      BY FS_Singleton
<1>2. IsFiniteSet({a1} \cup {a2}) /\ IsFiniteSet({w1} \cup {w2})
      BY <1>1, FS_AddElement
<1>3. IsFiniteSet(({a1} \cup {a2}) \cup {a3})
      BY <1>2, FS_AddElement
<1>4. ThreeRows = ({a1} \cup {a2}) \cup {a3} /\ {w1, w2} = {w1} \cup {w2}
      BY DEF ThreeRows
<1>5. Pacing!IsFiniteSet(ThreeRows) /\ Pacing!IsFiniteSet({w1, w2})
      BY <1>2, <1>3, <1>4 DEF IsFiniteSet, Pacing!IsFiniteSet
<1> QED BY <1>5, ServicesAssumption DEF Lenient, Pacing!Status

PacingInv == Pacing!TypeOK /\ Pacing!ChargesOK

LEMMA PacingInvInit == ServicesInit => PacingInv
<1>1. ServicesInit => Pacing!Init
      BY DEF ServicesInit
<1>2. Pacing!Init => Pacing!TypeOK
      BY PacingInstance, Pacing!PacingTypeInit
<1>3. Pacing!Init => Pacing!ChargesOK
      BY PacingInstance, Pacing!ChargesInitially
<1> QED BY <1>1, <1>2, <1>3 DEF PacingInv

LEMMA PacingInvStep == PacingInv /\ [ServicesNext]_servicesVars => PacingInv'
<1>1. [ServicesNext]_servicesVars => [Pacing!Next]_(Pacing!vars)
      BY DEF ServicesNext, Runs, Rest, servicesVars, pacingVars, Pacing!vars
<1>2. Pacing!TypeOK /\ [Pacing!Next]_(Pacing!vars) => Pacing!TypeOK'
      BY PacingInstance, Pacing!PacingTypeStep
<1>3. /\ Pacing!TypeOK /\ Pacing!TypeOK'
      /\ Pacing!ChargesOK /\ [Pacing!Next]_(Pacing!vars)
      => Pacing!ChargesOK'
      BY PacingInstance, Pacing!ChargesStep
<1> QED BY <1>1, <1>2, <1>3 DEF PacingInv

LEMMA PacingHolds == ServicesSafety => []PacingInv
BY PacingInvInit, PacingInvStep, PTL DEF ServicesSafety

(* While the owner and the inbox edit the rows, one posting is submitted at *)
(* most once for each worker.                                              *)
THEOREM PostingPerWorker == ServicesSafety => []PostingWithinWorkers
<1>1. PacingInv => PostingWithinWorkers
      BY PacingInstance, Pacing!ChargesPostings DEF PacingInv, PostingWithinWorkers
<1> QED BY <1>1, PacingHolds, PTL

-----------------------------------------------------------------------------
(* The other parts: a behaviour of the services is one of theirs.          *)

LEMMA ConnectRuns == ServicesSafety => ConnectSafety
<1>1. ServicesInit => ConnectInit
      BY DEF ServicesInit
<1>2. [ServicesNext]_servicesVars => [ConnectNext]_connectVars
      BY DEF ServicesNext, Runs, Rest, servicesVars
<1> QED BY <1>1, <1>2, PTL DEF ServicesSafety, ConnectSafety

LEMMA ConfirmRuns == ServicesSafety => ConfirmSafety
<1>1. ServicesInit => ConfirmInit
      BY DEF ServicesInit
<1>2. [ServicesNext]_servicesVars => [ConfirmNext]_confirmVars
      BY DEF ServicesNext, Runs, Rest, servicesVars
<1> QED BY <1>1, <1>2, PTL DEF ServicesSafety, ConfirmSafety

LEMMA WindowRuns == ServicesSafety => Spec
<1>1. ServicesInit => Init
      BY DEF ServicesInit
<1>2. [ServicesNext]_servicesVars => [Next]_vars
      BY DEF ServicesNext, Runs, Rest, servicesVars
<1> QED BY <1>1, <1>2, PTL DEF ServicesSafety, Spec

LEMMA SessionsRuns == ServicesSafety => SessionsSpec
<1>1. ServicesInit => SessionsInit
      BY DEF ServicesInit
<1>2. [ServicesNext]_servicesVars => [SessionsNext]_sessionVars
      BY DEF ServicesNext, Runs, Rest, servicesVars
<1> QED BY <1>1, <1>2, PTL DEF ServicesSafety, SessionsSpec

LEMMA AssistantRuns == ServicesSafety => AssistantSpec
<1>1. ServicesInit => AssistantInit
      BY DEF ServicesInit
<1>2. [ServicesNext]_servicesVars => [AssistantNext]_assistantVars
      BY DEF ServicesNext, Runs, Rest, servicesVars
<1> QED BY <1>1, <1>2, PTL DEF ServicesSafety, AssistantSpec

LEMMA InboxRuns == ServicesSafety => InboxSpec
<1>1. ServicesInit => InboxInit
      BY DEF ServicesInit
<1>2. [ServicesNext]_servicesVars => [InboxNext]_inboxVars
      BY DEF ServicesNext, Runs, Rest, servicesVars
<1> QED BY <1>1, <1>2, PTL DEF ServicesSafety, InboxSpec

LEMMA SkillsRuns == ServicesSafety => SkillSpec
<1>1. ServicesInit => SkillInit
      BY DEF ServicesInit
<1>2. [ServicesNext]_servicesVars => [SkillNext]_skillVars
      BY DEF ServicesNext, Runs, Rest, servicesVars
<1> QED BY <1>1, <1>2, PTL DEF ServicesSafety, SkillSpec

LEMMA PurgeRuns == ServicesSafety => PurgeSafety
<1>1. ServicesInit => PurgeInit
      BY DEF ServicesInit
<1>2. [ServicesNext]_servicesVars => [PurgeNext]_purgeVars
      BY DEF ServicesNext, Runs, Rest, servicesVars
<1> QED BY <1>1, <1>2, PTL DEF ServicesSafety, PurgeSafety

LEMMA DiscoveryRuns == ServicesSafety => DiscoverySafety
<1>1. ServicesInit => DiscoveryInit
      BY DEF ServicesInit
<1>2. [ServicesNext]_servicesVars => [DiscoveryNext]_discoveryVars
      BY DEF ServicesNext, Runs, Rest, servicesVars
<1> QED BY <1>1, <1>2, PTL DEF ServicesSafety, DiscoverySafety

LEMMA GroupsRuns == ServicesSafety => BoardSpec
<1>1. ServicesInit => BoardInit
      BY DEF ServicesInit
<1>2. [ServicesNext]_servicesVars => [BoardNext]_boardVars
      BY DEF ServicesNext, Runs, Rest, servicesVars
<1> QED BY <1>1, <1>2, PTL DEF ServicesSafety, BoardSpec

LEMMA NoticesRuns == ServicesSafety => NoticesSpec
<1>1. ServicesInit => NoticesInit
      BY DEF ServicesInit
<1>2. [ServicesNext]_servicesVars => [NoticesNext]_noticesVars
      BY DEF ServicesNext, Runs, Rest, servicesVars
<1> QED BY <1>1, <1>2, PTL DEF ServicesSafety, NoticesSpec

LEMMA KeyRingRuns == ServicesSafety => KeyRingSafety
<1>1. ServicesInit => KeyRingInit
      BY DEF ServicesInit
<1>2. [ServicesNext]_servicesVars => [KeyRingNext]_keyRingVars
      BY DEF ServicesNext, Runs, Rest, servicesVars
<1> QED BY <1>1, <1>2, PTL DEF ServicesSafety, KeyRingSafety

LEMMA VersionsRuns == ServicesSafety => ResumeSpec
<1>1. ServicesInit => ResumeInit
      BY DEF ServicesInit
<1>2. [ServicesNext]_servicesVars => [ResumeNext]_resumeVars
      BY DEF ServicesNext, Runs, Rest, servicesVars
<1> QED BY <1>1, <1>2, PTL DEF ServicesSafety, ResumeSpec

LEMMA LibraryRuns == ServicesSafety => LibrarySpec
<1>1. ServicesInit => LibraryInit
      BY DEF ServicesInit
<1>2. [ServicesNext]_servicesVars => [LibraryNext]_libraryVars
      BY DEF ServicesNext, Runs, Rest, servicesVars
<1> QED BY <1>1, <1>2, PTL DEF ServicesSafety, LibrarySpec

LEMMA ScoreRuns == ServicesSafety => ScoreSpec
<1>1. ServicesInit => ScoreInit
      BY DEF ServicesInit
<1>2. [ServicesNext]_servicesVars => [ScoreNext]_scoreVars
      BY DEF ServicesNext, Runs, Rest, servicesVars
<1> QED BY <1>1, <1>2, PTL DEF ServicesSafety, ScoreSpec

LEMMA PdfRuns == ServicesSafety => PdfSpec
<1>1. ServicesInit => PdfInit
      BY DEF ServicesInit
<1>2. [ServicesNext]_servicesVars => [PdfNext]_pdfVars
      BY DEF ServicesNext, Runs, Rest, servicesVars
<1> QED BY <1>1, <1>2, PTL DEF ServicesSafety, PdfSpec

-----------------------------------------------------------------------------
(* The part that runs is one of the parts, throughout.                     *)
LEMMA PartRuns == ServicesSafety => [](component \in AnyPart)
<1>1. ServicesInit => component \in AnyPart
      BY ServicesAssumption DEF ServicesInit
<1>2. component \in AnyPart /\ [ServicesNext]_servicesVars => (component \in AnyPart)'
      BY DEF ServicesNext, Runs, servicesVars
<1> QED BY <1>1, <1>2, PTL DEF ServicesSafety

EveryPartTyped ==
    /\ ConnectTypeOK
    /\ ConfirmTypeOK
    /\ TypeOK
    /\ SessionsTypeOK
    /\ AssistantTypeOK
    /\ InboxTypeOK
    /\ SkillTypeOK
    /\ PurgeTypeOK
    /\ DiscoveryTypeOK
    /\ BoardTypeOK
    /\ NoticesTypeOK
    /\ KeyRingTypeOK
    /\ ResumeTypeOK
    /\ LibraryTypeOK
    /\ ScoreTypeOK
    /\ PdfTypeOK
    /\ Pacing!TypeOK

(* Whatever part runs, and whatever interleaves in it, its state stays      *)
(* well-formed: its rows, jobs and replies are ones the code can hold.      *)
THEOREM ServicesTypeCorrect == ServicesSafety => []ServicesTypeOK
<1>1. component \in AnyPart /\ EveryPartTyped => ServicesTypeOK
      BY DEF AnyPart, EveryPartTyped, ServicesTypeOK
<1>2. ServicesSafety => []ConnectTypeOK
      BY ConnectRuns, ConnectTypeCorrect, PTL
<1>3. ServicesSafety => []ConfirmTypeOK
      BY ConfirmRuns, ConfirmTypeCorrect, PTL
<1>4. ServicesSafety => []TypeOK
      BY WindowRuns, WindowTypeCorrect, PTL
<1>5. ServicesSafety => []SessionsTypeOK
      BY SessionsRuns, SessionsTypeCorrect, PTL
<1>6. ServicesSafety => []AssistantTypeOK
      BY AssistantRuns, AssistantTypeCorrect, PTL
<1>7. ServicesSafety => []InboxTypeOK
      BY InboxRuns, InboxTypeCorrect, PTL
<1>8. ServicesSafety => []SkillTypeOK
      BY SkillsRuns, SkillTypeCorrect, PTL
<1>9. ServicesSafety => []PurgeTypeOK
      BY PurgeRuns, PurgeTypeCorrect, PTL
<1>10. ServicesSafety => []DiscoveryTypeOK
      BY DiscoveryRuns, DiscoveryTypeCorrect, PTL
<1>11. ServicesSafety => []BoardTypeOK
      BY GroupsRuns, BoardTypeCorrect, PTL
<1>12. ServicesSafety => []NoticesTypeOK
      BY NoticesRuns, NoticesTypeCorrect, PTL
<1>13. ServicesSafety => []KeyRingTypeOK
      BY KeyRingRuns, KeyRingTypeCorrect, PTL
<1>14. ServicesSafety => []ResumeTypeOK
      BY VersionsRuns, VersionsTypeCorrect, PTL
<1>15. ServicesSafety => []LibraryTypeOK
      BY LibraryRuns, LibraryTypeCorrect, PTL
<1>16. ServicesSafety => []ScoreTypeOK
      BY ScoreRuns, ScoreTypeCorrect, PTL
<1>17. ServicesSafety => []PdfTypeOK
      BY PdfRuns, PdfTypeCorrect, PTL
<1>18. ServicesSafety => []Pacing!TypeOK
  <2>1. PacingInv => Pacing!TypeOK
        BY DEF PacingInv
  <2> QED BY <2>1, PacingHolds, PTL
<1> QED BY PartRuns, <1>1, <1>2, <1>3, <1>4, <1>5, <1>6, <1>7, <1>8, <1>9, <1>10, <1>11, <1>12, <1>13, <1>14, <1>15, <1>16, <1>17, <1>18, PTL
         DEF EveryPartTyped
=============================================================================
