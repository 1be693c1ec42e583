SPECIFICATION Spec
CONSTANTS
    Rules <- Release
    Sites <- MCSites
    Receptions <- MCReceptions
    Archive <- MCArchive
    Overrides = {"reclamation"}
    SingleSections = {"ch1_s3", "ch3_s7"}
    CutFillMean = 100001
INVARIANTS
    TypeOK
    LossOnlyHides
    CardsAndRegulationsAgree
    ChecklistAccountsForAll
    OneEvaluation
    LiveDocumentsOnlyMiss
    DraftTellsTheWorst
    EmphasisIsInScope
    OwnDraftHolds
    RiskNeverLowersAnOpinion
