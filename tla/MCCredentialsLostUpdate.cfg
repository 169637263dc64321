SPECIFICATION Spec
CONSTANTS
    t1 = t1
    t2 = t2
    old = old
    new = new
    NoHash = NoHash
    Thread <- TwoThreads
    Password <- TwoPasswords
INVARIANTS OkReplacedCurrent
