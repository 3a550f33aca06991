SPECIFICATION Spec
CONSTANTS
    a = a
    b = b
    c = c
    img = img
    None = None
    NPaths = 2
    Content = {a, b, c}
    Unparsable = {c}
    Image = {img}
    ImageOf <- SharedImage
    MaxEdits = 3
    MaxFailures = 1
    MaxCrashes = 1
INVARIANTS TypeOK Aligned ImageRowsBacked Settled
PROPERTIES NoGap
