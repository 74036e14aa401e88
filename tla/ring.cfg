SPECIFICATION Spec
CONSTANT MAX_TASKS = 4
INVARIANT TypeOK
PROPERTY FifoSpec
