\* Two workers apply the rules while a person edits them and the movements.
SPECIFICATION Spec
CONSTANTS
    Movement = {1}
    Facts <- OneFact
    Account = {"bank", "deposit"}
    Hand = {"deposit"}
    Destination = {"wallet"}
    Category = {"Uncategorized", "shop", "films"}
    Tag = {"home"}
    Pattern <- Patterns
    Written <- SixWritten
    RuleId = {1, 2}
    Start <- Starts
    Worker = {"request", "pass"}
    Editor = {"request"}
    Act = {"choose", "passthrough", "unlink", "pair", "tag", "delete", "rename"}
    MaxEdits = 1
    MaxActs = 1
    None = None
INVARIANTS TypeOK SidesFollow OneMirror TagsFollow OnePassIsEnough
PROPERTIES ChoiceStands PersonalTagsStand
CHECK_DEADLOCK FALSE
