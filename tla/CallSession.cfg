SPECIFICATION FairSpec
CONSTANT Calls = {c1, c2}
INVARIANTS
  TypeOK
  
  RecordIsComplete
 
