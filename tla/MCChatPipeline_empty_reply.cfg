\* The question asked and searched twice, no edits of the conversation.
SPECIFICATION Spec
CONSTANTS
    Request = {r1, r2}
    MaxEdits = 0
    None = None
SYMMETRY Symmetry
CHECK_DEADLOCK FALSE
INVARIANTS
    CachedReplyIsAnswer
