SPECIFICATION Spec
CONSTANTS
    a1 = a1
    a2 = a2
    blank = blank
    number = number
    lookalike = lookalike
    sum = sum
    product = product
    plain = plain
    bold = bold
    Cells <- MCCells
    Literals <- MCLiterals
    Lookalikes <- MCLookalikes
    Formulas <- MCFormulas
    AsFormula <- MCAsFormula
    Blank = blank
    Formats <- MCFormats
    Plain = plain
    values = values
    rewrites = rewrites
    ragged = ragged
    sheet = sheet
    nothing = nothing
    restores = restores
    unknown = unknown
    misfit = misfit
    empty = empty
    Bundles = {values, rewrites, ragged, sheet, nothing, restores, unknown, misfit, empty}
    ActionsOf <- MCActions
    Grids <- MCGrids
    MaxEdits = 2
CHECK_DEADLOCK FALSE
INVARIANTS
    TypeOK
    RolledBackIsRestored
    AppliedIsWhole
    OnlyTargetsChange
    NoFormulaFromLiteral
