SPECIFICATION FairSpec
CONSTANTS
    Tasks = {t1, t2, t3}
    None = None
    Purges = {t2}
    Outcomes = {"success", "escapes", "dies"}
    MaxCrashes = 1
PROPERTIES
    ServerAnswers
    SubmittedIsTaken
