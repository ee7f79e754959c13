\* Two operations in flight at a time over three names.
CONSTANTS
    Names = {admin, a, b}
    OkNames = {admin, a, b}
    Admin = admin
    Ids = {i0, i1}
    AdminId = i0
    Workers = {w1, w2}
    None = None
    NoOnes = NoOnes
SPECIFICATION Spec
SYMMETRY Interchangeable
INVARIANTS TypeOK  
 
