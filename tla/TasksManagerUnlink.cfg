SPECIFICATION FairSpec
CONSTANTS
    Tasks = {t1, t2, t3}
    None = None
    Purges = {}
    Outcomes = {"success"}
    MaxCrashes = 0
PROPERTIES
    SubmittedIsProcessed
