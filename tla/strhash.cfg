SPECIFICATION Spec
CONSTANTS
    Keys <- MCKeys
    Salts = {0, 5}
    Multiplier = 19
    HashWidth = 5
    ByteWidth = 3
    STR_MIN_SIZE_BASE_2 = 2
    MVM_HASH_INITIAL_BITS_IN_METADATA = 1
    Null = Null
INVARIANTS
    NeverOops
    FindsWhatWasBound
PROPERTIES
    ActsAsDictionary
