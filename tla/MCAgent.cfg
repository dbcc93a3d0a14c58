SPECIFICATION AgentSpec
CONSTANTS
    m1 = m1
    m2 = m2
    Models = {m1, m2}
    FirstModel = m1
    Tasks = {"telemetry", "job", "switch"}
    Lossy = TRUE
    MaxToken = 2
    MaxGen = 1
 
PROPERTY ForgetsOnlyByRace
CHECK_DEADLOCK FALSE
