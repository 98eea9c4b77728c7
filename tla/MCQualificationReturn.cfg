CONSTANTS
    Facts = {f1, f2}
    Complete = {f1}
    Checks <- MCChecks
    Required = {"load"}
    ToolCalling = "tool_calling"
    Returning = TRUE
    MaxRecords = 4
    None = None
SPECIFICATION QSpec
INVARIANTS

    ChangeFailsRun
