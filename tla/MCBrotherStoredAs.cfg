SPECIFICATION Spec
CONSTANTS
    n1 = n1
    n2 = n2
    n3 = n3
    UPLOAD_RETRIES = 2
    Uploads = 2
    Names <- MCNames
    FreeReported = {TRUE, FALSE}
PROPERTY StoredAsIsThisDesign
CHECK_DEADLOCK FALSE
