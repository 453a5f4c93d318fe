SPECIFICATION Spec
CONSTANTS
  Names = {n1, n2, n3}
  Objects = {o1, o2, o3}
  MaxBytes = 2
  Datas = {d1, d2, d3}
  Null = Null
SYMMETRY Sym
INVARIANTS TypeOK RightBytes
